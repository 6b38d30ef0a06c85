---------------------------- MODULE MissionWorld ----------------------------
(* The simulated mission that tests of DCS code run in                        *)
(* (tslua-dcs-mission-types_test/doubles): groups and their units, event      *)
(* handlers, and scheduled functions.                                         *)
(*                                                                            *)
(* The world is one record w, as in state.ts, and an operation a function of  *)
(* it, because scheduled functions and event handlers call the operations     *)
(* themselves: w.error is set while an error is on its way to the script.     *)
(* Coordinates, types, controllers and everything that is only read are left  *)
(* out.  A tick stands for the 0.001 s that advanceTime adds.  An operator    *)
(* headed MISTAKE is used by no action.                                       *)
EXTENDS Naturals, Sequences, FiniteSets, SequencesExt

CONSTANTS
  Names,        \* the names of groups
  Handlers,     \* the event handlers: what they do in onEvent, see Reactions
  Deeds,        \* what scheduled functions do, see Do
  MaxSize,      \* bound: units of a spawned group
  MaxAdvance,   \* bound: ticks of one advanceTime
  MaxRuns,      \* bound: functions that run in one advanceTime
  MaxUnits, MaxFunctions, MaxSteps  \* bounds of the run

Reactions == {"watch", "leave", "destroy", "respawn", "raise"}
ASSUME HandlersAssumption == Handlers \subseteq Reactions
ASSUME NamesAssumption == Names # {}
ASSUME BoundsAssumption == {MaxSize, MaxAdvance, MaxRuns} \subseteq Nat

VARIABLES world, worldSteps

worldVars == <<world, worldSteps>>

(* ---------------------------------------------------- objects, groups ---- *)

Groups(w) == DOMAIN w.groups
Units(w) == DOMAIN w.units

Nothing == 0
findGroup(w, name) ==   \* the first one; 0 when there is none
  LET found == {g \in Groups(w) : w.groups[g].exists /\ w.groups[g].name = name}
  IN IF found = {} THEN Nothing ELSE CHOOSE g \in found : \A h \in found : g <= h

(* Units are numbered as they are added, so unitIds in its order is the set   *)
(* of them.                                                                   *)
addGroup(w, name, size) ==
  LET g == Len(w.groups) + 1
      n == Len(w.units)
  IN [w EXCEPT !.units = @ \o [i \in 1..size |-> [group |-> g, exists |-> TRUE]],
               !.groups = Append(@, [name |-> name, exists |-> TRUE,
                                     unitIds |-> (n + 1)..(n + size)])]

destroyObject(w, u) ==
  LET g == w.units[u].group
      left == w.groups[g].unitIds \ {u}
  IN [w EXCEPT !.units[u].exists = FALSE,
               !.groups[g].unitIds = left,
               !.groups[g].exists = @ /\ left # {}]

(* MISTAKE: the units of a destroyed group live on. *)
GroupOnly(w, g) == [w EXCEPT !.groups[g].unitIds = {}, !.groups[g].exists = FALSE]

destroyGroup(w, g) ==
  LET units == [u \in Units(w) |->
                  [w.units[u] EXCEPT !.exists = @ /\ u \notin w.groups[g].unitIds]]
  IN [w EXCEPT !.units = units, !.groups[g].unitIds = {}, !.groups[g].exists = FALSE]

(* ----------------------------------------------------------- events ------ *)

addEventHandler(w, h) ==
  IF h \in ToSet(w.handlers) THEN w ELSE [w EXCEPT !.handlers = Append(@, h)]

Without(list, x) ==   \* list.filter((candidate) => candidate !== x)
  LET kept[i \in 0..Len(list)] ==
        IF i = 0 THEN <<>>
        ELSE kept[i - 1] \o (IF list[i] = x THEN <<>> ELSE <<list[i]>>)
  IN kept[Len(list)]
removeEventHandler(w, h) == [w EXCEPT !.handlers = Without(@, h)]

(* handler:onEvent for the birth of unit u, but for the group that "respawn"  *)
(* spawns; it first leaves, or it would never end.                            *)
Reacts(w, h, u) ==
  LET seen == [w EXCEPT !.births = Append(@, [handler |-> h, unit |-> u])]
      g == seen.units[u].group
  IN IF h \in {"leave", "respawn"} THEN removeEventHandler(seen, h)
     ELSE IF h = "destroy" /\ seen.groups[g].exists THEN destroyGroup(seen, g)
     ELSE [seen EXCEPT !.error = (h = "raise")]

(* The handlers there are when it begins, in turn, until one raises.          *)
Dispatch(w, u, OnEvent(_, _, _)) ==
  LET told[i \in 0..Len(w.handlers)] ==
        IF i = 0 THEN w
        ELSE LET v == told[i - 1]
             IN IF v.error THEN v ELSE OnEvent(v, w.handlers[i], u)
  IN told[Len(w.handlers)]

(* coalition.addGroup: a group of the same name is replaced, and the birth of *)
(* every unit is reported, of those a handler has destroyed meanwhile too.    *)
Spawn(w, name, size, Report(_, _)) ==
  LET old == findGroup(w, name)
      added == addGroup(IF old = Nothing THEN w ELSE destroyGroup(w, old), name, size)
      born[i \in 0..size] ==
        IF i = 0 THEN added
        ELSE LET v == born[i - 1]
             IN IF v.error THEN v ELSE Report(v, Len(w.units) + i)
  IN born[size]

(* The births of a respawned group go to the handlers that are left: "respawn" *)
(* is not among them.                                                         *)
ReportInside(w, u) == Dispatch(w, u, Reacts)
onEvent(w, h, u) ==
  LET after == Reacts(w, h, u)
  IN IF h # "respawn" THEN after
     ELSE Spawn(after, after.groups[after.units[u].group].name, 1, ReportInside)

(* MISTAKE: the list of handlers is read while it changes. *)
DispatchLive(w, u) ==
  LET told[i \in 0..Len(w.handlers)] ==
        IF i = 0 THEN w
        ELSE LET v == told[i - 1]
             IN IF v.error \/ i > Len(v.handlers) THEN v ELSE onEvent(v, v.handlers[i], u)
  IN told[Len(w.handlers)]

dispatchEvent(w, u) == Dispatch(w, u, onEvent)
spawnGroup(w, name, size) == Spawn(w, name, size, dispatchEvent)

(* ------------------------------------------------- scheduled functions --- *)

(* A function does its deed and returns nil (again = Nothing) or the time it  *)
(* wants to run at next: now, or again - 1 ticks later.  The list of them is  *)
(* in the order of their ids, so it is a set here.                            *)
scheduleFunction(w, at, deed, again) ==
  [w EXCEPT !.lastId = @ + 1,
            !.scheduled = @ \cup {[id |-> w.lastId + 1, time |-> at, deed |-> deed, again |-> again]}]
setFunctionTime(w, id, at) ==
  [w EXCEPT !.scheduled = {IF e.id = id THEN [e EXCEPT !.time = at] ELSE e : e \in @}]
removeFunction(w, id) == [w EXCEPT !.scheduled = {e \in @ : e.id # id}]

(* The deeds: cancelling, delaying and adding functions from within one too.  *)
Do(w, deed) ==
  IF deed = "raise" THEN [w EXCEPT !.error = TRUE]
  ELSE IF deed = "spawn" THEN spawnGroup(w, CHOOSE name \in Names : TRUE, 1)
  ELSE IF deed = "cancelFirst" THEN removeFunction(w, 1)
  ELSE IF deed = "delayFirst" THEN setFunctionTime(w, 1, w.time + 2)
  ELSE IF deed = "schedule" THEN scheduleFunction(w, w.time, "nothing", Nothing)
  ELSE w

Larger(a, b) == IF a > b THEN a ELSE b

(* The next function to run: the earliest one, the first declared of those.   *)
Due(w, target) == {e \in w.scheduled : e.time <= target}
EarliestOf(due) ==
  CHOOSE e \in due : \A f \in due : e.time < f.time \/ (e.time = f.time /\ e.id <= f.id)

(* MISTAKE: functions run in the order they were scheduled. *)
FirstScheduled(due) == CHOOSE e \in due : \A f \in due : e.id <= f.id

NextDue(due) == EarliestOf(due)

(* MISTAKE: a function that failed is scheduled again. *)
KeepsFailing(w, e) ==
  IF e.again = Nothing THEN removeFunction(w, e.id)
  ELSE setFunctionTime(w, e.id, Larger(w.time + e.again - 1, w.time + 1))

(* What becomes of entry e, run at time w.time: it is removed when it failed  *)
(* or returned nil, else it runs again, never in the same instant.            *)
AfterRun(w, e) ==
  IF w.error \/ e.again = Nothing THEN removeFunction(w, e.id)
  ELSE setFunctionTime(w, e.id, Larger(w.time + e.again - 1, w.time + 1))

RunNext(w, target) ==
  LET e == NextDue(Due(w, target))
      at == Larger(w.time, e.time)
      now == [w EXCEPT !.time = at,
                       !.ran = Append(@, [id |-> e.id, due |-> e.time, deed |-> e.deed, at |-> at])]
  IN AfterRun(Do(now, e.deed), e)

Ended(w, target) == w.error \/ Due(w, target) = {}
RunDue(w, target) ==   \* as far as MaxRuns functions
  LET after[n \in 0..MaxRuns] ==
        IF n = 0 THEN w
        ELSE LET v == after[n - 1] IN IF Ended(v, target) THEN v ELSE RunNext(v, target)
  IN after[MaxRuns]

advanceTime(w, ticks) ==
  LET v == RunDue(w, w.time + ticks) IN IF v.error THEN v ELSE [v EXCEPT !.time = w.time + ticks]

(* ---------------------------------------------------------- the script --- *)

(* One call of the script; births and ran are what happened in it, and error  *)
(* says whether the script got one.                                           *)
Begun == [world EXCEPT !.births = <<>>, !.ran = <<>>, !.error = FALSE]
Script(w) ==
  /\ worldSteps < MaxSteps /\ worldSteps' = worldSteps + 1
  /\ Len(w.units) <= MaxUnits
  /\ world' = w

WorldInit ==
  /\ world = [time |-> 0, units |-> <<>>, groups |-> <<>>, handlers |-> <<>>,
              scheduled |-> {}, lastId |-> 0, births |-> <<>>, ran |-> <<>>, error |-> FALSE]
  /\ worldSteps = 0

AddGroup(name, size) == Script(spawnGroup(Begun, name, size))
DestroyGroup(name) ==
  findGroup(world, name) # Nothing /\ Script(destroyGroup(Begun, findGroup(world, name)))
DestroyUnit(u) == world.units[u].exists /\ Script(destroyObject(Begun, u))
AddEventHandler(h) == Script(addEventHandler(Begun, h))
RemoveEventHandler(h) == Script(removeEventHandler(Begun, h))
ScheduleFunction(delay, deed, again) ==
  world.lastId < MaxFunctions /\ Script(scheduleFunction(Begun, world.time + delay, deed, again))
SetFunctionTime(id, delay) == Script(setFunctionTime(Begun, id, world.time + delay))
RemoveFunction(id) == Script(removeFunction(Begun, id))
AdvanceTime(ticks) ==
  LET target == world.time + ticks
  IN Ended(RunDue(Begun, target), target) /\ Script(advanceTime(Begun, ticks))

WorldNext ==
  \/ \E name \in Names : DestroyGroup(name) \/ \E size \in 0..MaxSize : AddGroup(name, size)
  \/ \E u \in Units(world) : DestroyUnit(u)
  \/ \E h \in Handlers : AddEventHandler(h) \/ RemoveEventHandler(h)
  \/ \E delay \in 0..2, deed \in Deeds, again \in 0..2 : ScheduleFunction(delay, deed, again)
  \/ \E id \in 1..world.lastId : RemoveFunction(id) \/ \E delay \in 0..2 : SetFunctionTime(id, delay)
  \/ \E ticks \in 1..MaxAdvance : AdvanceTime(ticks)

WorldSpec == WorldInit /\ [][WorldNext]_worldVars

(* ------------------------------------------------------- properties ------ *)

(* A unit exists exactly while an existing group lists it, and no two groups  *)
(* of one name exist, also when a handler destroys or respawns the group that *)
(* is being spawned, or raises in the middle of it (state.ts: destroyObject,  *)
(* destroyGroup; world.ts: spawnGroup).                                       *)
GroupsMatchUnits ==
  LET alive == {g \in Groups(world) : world.groups[g].exists}
  IN /\ \A u \in Units(world) :
          world.units[u].exists <=> \E g \in alive : u \in world.groups[g].unitIds
     /\ \A g, h \in alive : world.groups[g].name = world.groups[h].name => g = h

BirthOnce(w, h, u) ==
  \E i \in DOMAIN w.births : \A j \in DOMAIN w.births :
    w.births[j] = [handler |-> h, unit |-> u] <=> j = i

(* Unless a handler raises, every handler that stays gets the birth of every  *)
(* new unit exactly once, whatever handlers do to the list meanwhile          *)
(* (world.ts: dispatchEvent goes through a copy of it).                       *)
BirthsAreReportedOnce ==
  [][~world'.error =>
       \A h \in ToSet(world.handlers) \intersect ToSet(world'.handlers),
          u \in Units(world') \ Units(world) :
         BirthOnce(world', h, u)]_worldVars

Ran(w) == {w.ran[i].id : i \in DOMAIN w.ran}
Scheduled(w) == {e.id : e \in w.scheduled}

(* No function runs before its time, nor before a function that was scheduled *)
(* for an earlier time when advanceTime was called, even when they delay,     *)
(* cancel and schedule each other, and after an error that left some of them  *)
(* overdue; model time ends where the last one ran or at the target           *)
(* (environment.ts: "running each scheduled function whose time is due in     *)
(* time order").                                                              *)
FunctionsRunInOrder ==
  [][\A i \in DOMAIN world'.ran :
       LET r == world'.ran[i]
           before == IF i = 1 THEN world.time ELSE world'.ran[i - 1].at
       IN /\ r.at = Larger(r.due, before) /\ r.at <= world'.time
          /\ \A e \in world.scheduled :   \* what was earlier has run, or was changed
               e.time < r.due /\ ~(e.id = 1 /\ \E k \in 1..i : world'.ran[k].deed \in {"cancelFirst", "delayFirst"})
                 => \E k \in 1..i : world'.ran[k].id = e.id]_worldVars

(* advanceTime loses no function: without an error nothing due is left, and   *)
(* after one the function that raised is gone, while the others that were     *)
(* scheduled when it was called and did not run still are (environment.ts:    *)
(* "An error removes the function").                                          *)
NoFunctionIsLost ==
  [][world'.ran # <<>> =>
       LET last == Last(world'.ran)
           meddled == \E k \in DOMAIN world'.ran : world'.ran[k].deed = "cancelFirst"
       IN /\ \A id \in Scheduled(world) \ Ran(world') :
               id \in Scheduled(world') \/ (id = 1 /\ meddled)
          /\ IF world'.error THEN last.id \notin Scheduled(world') /\ world'.time = last.at
             ELSE \A e \in world'.scheduled : e.time > world'.time]_worldVars
=============================================================================
