-------------------------- MODULE MissionWorldProofs -------------------------
(***************************************************************************)
(* What the simulated mission of MissionWorld promises, proved for any     *)
(* number of groups, units, handlers and scheduled functions: units and    *)
(* groups agree, births are reported once to the handlers that stay, and   *)
(* advanceTime runs functions in order and loses none.                     *)
(***************************************************************************)
EXTENDS MissionWorld, InductionLemmas, SequenceTheorems

-----------------------------------------------------------------------------
(* The worlds, and what holds of them between the operations.              *)

UnitRecords == [group : Nat, exists : BOOLEAN]
GroupRecords == [name : Names, exists : BOOLEAN, unitIds : SUBSET Nat]
BirthRecords == [handler : Handlers, unit : Nat]
Entries == [id : Nat, time : Nat, deed : Deeds \cup {"nothing"}, again : Nat]
RunRecords == [id : Nat, due : Nat, deed : Deeds \cup {"nothing"}, at : Nat]

Worlds ==
  [time : Nat, units : Seq(UnitRecords), groups : Seq(GroupRecords), handlers : Seq(Handlers),
   scheduled : SUBSET Entries, lastId : Nat, births : Seq(BirthRecords),
   ran : Seq(RunRecords), error : BOOLEAN]

(* A group lists units of its own only, and all those that exist.          *)
Listed(units, groups) ==
  /\ \A u \in DOMAIN units : units[u].group \in DOMAIN groups
  /\ \A g \in DOMAIN groups : \A u \in groups[g].unitIds :
       u \in DOMAIN units /\ units[u].group = g
  /\ \A u \in DOMAIN units :
       units[u].exists <=> /\ groups[units[u].group].exists
                           /\ u \in groups[units[u].group].unitIds

Named(groups) ==
  \A g, h \in DOMAIN groups :
    groups[g].exists /\ groups[h].exists /\ groups[g].name = groups[h].name => g = h

Distinct(list) == \A i, j \in DOMAIN list : list[i] = list[j] => i = j

Consistent(w) ==
  /\ w \in Worlds
  /\ Listed(w.units, w.groups)
  /\ Named(w.groups)
  /\ Distinct(w.handlers)

(* What the operations on groups and handlers leave alone, and how far they *)
(* go: units are never removed, and handlers only are.                      *)
Extends(w, v) ==
  /\ Len(w.units) <= Len(v.units)
  /\ ToSet(v.handlers) \subseteq ToSet(w.handlers)
  /\ v.time = w.time /\ v.scheduled = w.scheduled /\ v.lastId = w.lastId /\ v.ran = w.ran

After(w) == {v \in Worlds : Consistent(v) /\ Extends(w, v)}

LEMMA FieldTypes ==
  ASSUME NEW w \in Worlds
  PROVE  /\ w.time \in Nat /\ w.units \in Seq(UnitRecords) /\ w.groups \in Seq(GroupRecords)
         /\ w.handlers \in Seq(Handlers) /\ w.scheduled \in SUBSET Entries /\ w.lastId \in Nat
         /\ w.births \in Seq(BirthRecords) /\ w.ran \in Seq(RunRecords) /\ w.error \in BOOLEAN
BY DEF Worlds

LEMMA Lists ==
  ASSUME NEW w \in Worlds
  PROVE  /\ Len(w.units) \in Nat /\ Units(w) = 1..Len(w.units)
         /\ Len(w.groups) \in Nat /\ Groups(w) = 1..Len(w.groups)
         /\ Len(w.handlers) \in Nat /\ DOMAIN w.handlers = 1..Len(w.handlers)
         /\ Len(w.births) \in Nat /\ DOMAIN w.births = 1..Len(w.births)
         /\ Len(w.ran) \in Nat /\ DOMAIN w.ran = 1..Len(w.ran)
         /\ \A u \in Units(w) : w.units[u] \in UnitRecords /\ w.units[u].group \in Nat /\ w.units[u].exists \in BOOLEAN
         /\ \A g \in Groups(w) : w.groups[g] \in GroupRecords /\ w.groups[g].name \in Names
              /\ w.groups[g].exists \in BOOLEAN /\ w.groups[g].unitIds \in SUBSET Nat
         /\ \A i \in DOMAIN w.handlers : w.handlers[i] \in Handlers
<1>1. /\ Len(w.units) \in Nat /\ Units(w) = 1..Len(w.units)
      /\ Len(w.groups) \in Nat /\ Groups(w) = 1..Len(w.groups)
      /\ Len(w.handlers) \in Nat /\ DOMAIN w.handlers = 1..Len(w.handlers)
      /\ Len(w.births) \in Nat /\ DOMAIN w.births = 1..Len(w.births)
      /\ Len(w.ran) \in Nat /\ DOMAIN w.ran = 1..Len(w.ran)
  BY FieldTypes DEF Units, Groups
<1>2. \A u \in Units(w) : w.units[u] \in UnitRecords
  BY FieldTypes DEF Units
<1>3. \A g \in Groups(w) : w.groups[g] \in GroupRecords
  BY FieldTypes DEF Groups
<1>4. \A i \in DOMAIN w.handlers : w.handlers[i] \in Handlers
  BY FieldTypes
<1>5. \A r \in UnitRecords : r.group \in Nat /\ r.exists \in BOOLEAN
  BY DEF UnitRecords
<1>6. \A r \in GroupRecords : r.name \in Names /\ r.exists \in BOOLEAN /\ r.unitIds \in SUBSET Nat
  BY DEF GroupRecords
<1> QED BY <1>1, <1>2, <1>3, <1>4, <1>5, <1>6

LEMMA ExtendsTransitive ==
  ASSUME NEW w \in Worlds, NEW v \in Worlds, NEW x \in Worlds, Extends(w, v), Extends(v, x)
  PROVE  Extends(w, x)
BY Lists DEF Extends

LEMMA ExtendsReflexive ==
  ASSUME NEW w \in Worlds
  PROVE  Extends(w, w)
BY Lists DEF Extends

LEMMA ListOf ==
  ASSUME NEW S, NEW n \in Nat, NEW f \in [1..n -> S]
  PROVE  f \in Seq(S) /\ Len(f) = n
OBVIOUS

LEMMA RecordsAre ==
  /\ \A r \in UnitRecords : \A e \in BOOLEAN : [r EXCEPT !.exists = e] = [group |-> r.group, exists |-> e]
  /\ \A r \in GroupRecords : \A S \in SUBSET Nat : \A e \in BOOLEAN :
       [[r EXCEPT !.unitIds = S] EXCEPT !.exists = e] = [name |-> r.name, exists |-> e, unitIds |-> S]
<1>1. \A r \in UnitRecords : \A e \in BOOLEAN : [r EXCEPT !.exists = e] = [group |-> r.group, exists |-> e]
  BY DEF UnitRecords
<1> SUFFICES ASSUME NEW r \in GroupRecords, NEW S \in SUBSET Nat, NEW e \in BOOLEAN
             PROVE  [[r EXCEPT !.unitIds = S] EXCEPT !.exists = e]
                      = [name |-> r.name, exists |-> e, unitIds |-> S]
  BY <1>1
<1>2. r.name \in Names /\ r.exists \in BOOLEAN
  BY DEF GroupRecords
<1> DEFINE q == [r EXCEPT !.unitIds = S]
<1>3. q = [name |-> r.name, exists |-> r.exists, unitIds |-> S]
  BY DEF GroupRecords
<1>4. q \in GroupRecords /\ q.name = r.name /\ q.unitIds = S
  BY <1>2, <1>3 DEF GroupRecords
<1> HIDE DEF q
<1>5. [q EXCEPT !.exists = e] = [name |-> q.name, exists |-> e, unitIds |-> q.unitIds]
  BY <1>4 DEF GroupRecords
<1>6. [q EXCEPT !.exists = e] = [name |-> r.name, exists |-> e, unitIds |-> S]
  BY <1>4, <1>5
<1> QED BY <1>6, Zenon DEF q

(* An operation on groups and units changes nothing else.                   *)
Rebuilt(w, us, gs) == [w EXCEPT !.units = us, !.groups = gs]

OnlyThose(w, us, gs, v) ==
  /\ v \in Worlds /\ v.units = us /\ v.groups = gs
  /\ v.handlers = w.handlers /\ v.births = w.births /\ v.error = w.error
  /\ v.time = w.time /\ v.scheduled = w.scheduled /\ v.lastId = w.lastId /\ v.ran = w.ran

LEMMA WorldIs ==
  ASSUME NEW w \in Worlds, NEW us \in Seq(UnitRecords), NEW gs \in Seq(GroupRecords)
  PROVE  OnlyThose(w, us, gs, Rebuilt(w, us, gs))
BY DEF Worlds, OnlyThose, Rebuilt

LEMMA DestroyGroupIs ==
  ASSUME NEW w \in Worlds, NEW g \in Groups(w)
  PROVE  LET v == destroyGroup(w, g)
             us == [u \in Units(w) |->
                      [group |-> w.units[u].group,
                       exists |-> w.units[u].exists /\ u \notin w.groups[g].unitIds]]
             gs == [h \in Groups(w) |->
                      IF h = g THEN [name |-> w.groups[g].name, exists |-> FALSE, unitIds |-> {}]
                      ELSE w.groups[h]]
         IN v = Rebuilt(w, us, gs) /\ us \in Seq(UnitRecords) /\ gs \in Seq(GroupRecords)
<1> DEFINE us == [u \in Units(w) |->
                      [group |-> w.units[u].group,
                       exists |-> w.units[u].exists /\ u \notin w.groups[g].unitIds]]
           gs == [h \in Groups(w) |->
                      IF h = g THEN [name |-> w.groups[g].name, exists |-> FALSE, unitIds |-> {}]
                      ELSE w.groups[h]]
<1>1. ASSUME NEW u \in Units(w)
      PROVE  us[u] = [w.units[u] EXCEPT !.exists = @ /\ u \notin w.groups[g].unitIds]
  <2>1. w.units[u] \in UnitRecords
    BY Lists
  <2>2. \A r \in UnitRecords : \A e \in BOOLEAN : [r EXCEPT !.exists = e] = [group |-> r.group, exists |-> e]
    BY RecordsAre
  <2> DEFINE e == w.units[u].exists /\ u \notin w.groups[g].unitIds
  <2>3. e \in BOOLEAN
    OBVIOUS
  <2>4. us[u] = [group |-> w.units[u].group, exists |-> e]
    OBVIOUS
  <2> HIDE DEF e
  <2>5. us[u] = [w.units[u] EXCEPT !.exists = e]
    BY <2>1, <2>2, <2>3, <2>4
  <2> QED BY <2>5, Zenon DEF e
<1>2. us \in Seq(UnitRecords)
  <2>1. \A u \in Units(w) : us[u] \in UnitRecords
    BY Lists DEF UnitRecords
  <2>2. us \in [1..Len(w.units) -> UnitRecords]
    BY <2>1, Lists
  <2> HIDE DEF us
  <2> QED BY <2>2, Lists, ListOf
<1>3. gs \in Seq(GroupRecords)
  <2>1. \A h \in Groups(w) : gs[h] \in GroupRecords
    BY Lists DEF GroupRecords
  <2>2. gs \in [1..Len(w.groups) -> GroupRecords]
    BY <2>1, Lists
  <2> HIDE DEF gs
  <2> QED BY <2>2, Lists, ListOf
<1>4. us = [u \in Units(w) |-> [w.units[u] EXCEPT !.exists = @ /\ u \notin w.groups[g].unitIds]]
  BY <1>1
<1>5. gs = [w.groups EXCEPT ![g].unitIds = {}, ![g].exists = FALSE]
  BY Lists, FieldTypes DEF GroupRecords, Groups
<1>6. destroyGroup(w, g) = Rebuilt(w, us, gs)
  BY <1>4, <1>5 DEF destroyGroup, Worlds, Rebuilt
<1> QED BY <1>2, <1>3, <1>6

-----------------------------------------------------------------------------
(* Groups and units.                                                        *)

(* What an operation on groups leaves as it was, besides what Extends says. *)
SameTalk(w, v) ==
  v.handlers = w.handlers /\ v.births = w.births /\ v.error = w.error /\ Extends(w, v)

LEMMA SmallestOf ==
  ASSUME NEW S, S \subseteq Nat, S # {}
  PROVE  \E n \in S : \A m \in S : n <= m
<1>1. PICK n \in S : \A m \in S : ~ (<<m, n>> \in OpToRel(<, Nat))
  BY WFMin, NatLessThanWellFounded, Zenon
<1>2. \A m \in S : ~ (m < n)
  BY <1>1 DEF OpToRel
<1> QED BY <1>2

LEMMA WithUnitsAndGroups ==
  ASSUME NEW w, Consistent(w), NEW us \in Seq(UnitRecords), NEW gs \in Seq(GroupRecords),
         Len(w.units) <= Len(us), Listed(us, gs), Named(gs),
         NEW v, v = Rebuilt(w, us, gs)
  PROVE  Consistent(v) /\ SameTalk(w, v) /\ v.units = us /\ v.groups = gs
<1>1. w \in Worlds /\ Distinct(w.handlers)
  BY DEF Consistent
<1>2. /\ v \in Worlds /\ v.units = us /\ v.groups = gs
      /\ v.handlers = w.handlers /\ v.births = w.births /\ v.error = w.error
      /\ v.time = w.time /\ v.scheduled = w.scheduled /\ v.lastId = w.lastId /\ v.ran = w.ran
  BY <1>1, WorldIs DEF OnlyThose
<1>3. Consistent(v)
  BY <1>1, <1>2, Zenon DEF Consistent
<1>4. SameTalk(w, v)
  BY <1>2 DEF SameTalk, Extends
<1> QED BY <1>2, <1>3, <1>4

LEMMA DestroyGroupOk ==
  ASSUME NEW w, Consistent(w), NEW g \in Groups(w)
  PROVE  LET v == destroyGroup(w, g)
         IN /\ Consistent(v) /\ SameTalk(w, v) /\ Units(v) = Units(w) /\ Groups(v) = Groups(w)
            /\ ~v.groups[g].exists
            /\ \A h \in Groups(w) : h # g => v.groups[h] = w.groups[h]
<1> DEFINE us == [u \in Units(w) |->
                      [group |-> w.units[u].group,
                       exists |-> w.units[u].exists /\ u \notin w.groups[g].unitIds]]
           gs == [h \in Groups(w) |->
                      IF h = g THEN [name |-> w.groups[g].name, exists |-> FALSE, unitIds |-> {}]
                      ELSE w.groups[h]]
           v == destroyGroup(w, g)
<1>1. w \in Worlds /\ Listed(w.units, w.groups) /\ Named(w.groups)
  BY DEF Consistent
<1>2. v = Rebuilt(w, us, gs) /\ us \in Seq(UnitRecords) /\ gs \in Seq(GroupRecords)
  BY <1>1, DestroyGroupIs
<1>3. DOMAIN us = Units(w) /\ DOMAIN gs = Groups(w)
  OBVIOUS
<1>4. \A u \in Units(w) : us[u].group = w.units[u].group
                       /\ (us[u].exists <=> w.units[u].exists /\ u \notin w.groups[g].unitIds)
  OBVIOUS
<1>5. gs[g] = [name |-> w.groups[g].name, exists |-> FALSE, unitIds |-> {}]
  OBVIOUS
<1>6. \A h \in Groups(w) : h # g => gs[h] = w.groups[h]
  OBVIOUS
<1> HIDE DEF us, gs, v
<1>7. ~gs[g].exists /\ gs[g].unitIds = {}
  BY <1>5
<1>8. Listed(us, gs)
  <2>1. \A u \in Units(w) : us[u].group \in Groups(w)
    BY <1>1, <1>4 DEF Listed, Units, Groups
  <2>2. ASSUME NEW h \in Groups(w), NEW u \in gs[h].unitIds PROVE u \in Units(w) /\ us[u].group = h
    <3>1. h # g
      BY <1>7
    <3>2. u \in w.groups[h].unitIds
      BY <1>6, <3>1
    <3> QED BY <1>1, <1>4, <3>2 DEF Listed, Units, Groups
  <2>3. ASSUME NEW u \in Units(w)
        PROVE  us[u].exists <=> gs[us[u].group].exists /\ u \in gs[us[u].group].unitIds
    <3>1. w.units[u].exists <=> /\ w.groups[w.units[u].group].exists
                                /\ u \in w.groups[w.units[u].group].unitIds
      BY <1>1 DEF Listed, Units
    <3>2. w.units[u].group \in Groups(w)
      BY <1>1 DEF Listed, Units, Groups
    <3>3. CASE w.units[u].group = g
      BY <1>4, <1>7, <3>1, <3>3
    <3>4. CASE w.units[u].group # g
      <4>1. u \notin w.groups[g].unitIds
        BY <1>1, <3>4 DEF Listed, Units, Groups
      <4> QED BY <1>4, <1>6, <3>1, <3>2, <3>4, <4>1
    <3> QED BY <3>3, <3>4
  <2> QED BY <1>3, <2>1, <2>2, <2>3 DEF Listed
<1>9. Named(gs)
  BY <1>1, <1>3, <1>6, <1>7 DEF Named, Groups
<1>10. Len(us) = Len(w.units)
  BY <1>1, <1>2, <1>3, Lists
<1>11. Len(w.units) <= Len(us)
  BY <1>1, <1>10, Lists
<1>12. Consistent(v) /\ SameTalk(w, v) /\ v.units = us /\ v.groups = gs
  BY <1>2, <1>8, <1>9, <1>11, WithUnitsAndGroups
<1>13. Units(v) = Units(w) /\ Groups(v) = Groups(w)
  BY <1>3, <1>12 DEF Units, Groups
<1> QED BY <1>6, <1>7, <1>12, <1>13 DEF v

LEMMA FindGroupIs ==
  ASSUME NEW w \in Worlds, NEW name
  PROVE  LET g == findGroup(w, name)
         IN IF g = Nothing
            THEN \A h \in Groups(w) : ~(w.groups[h].exists /\ w.groups[h].name = name)
            ELSE g \in Groups(w) /\ w.groups[g].exists /\ w.groups[g].name = name
<1> DEFINE found == {g \in Groups(w) : w.groups[g].exists /\ w.groups[g].name = name}
           g == CHOOSE n \in found : \A m \in found : n <= m
<1>1. findGroup(w, name) = IF found = {} THEN Nothing ELSE g
  BY DEF findGroup
<1>2. found \subseteq Nat /\ \A n \in found : n # Nothing
  BY Lists DEF Nothing
<1>3. ASSUME found # {} PROVE g \in found
  <2> HIDE DEF found
  <2>1. \E n \in found : \A m \in found : n <= m
    BY <1>2, <1>3, SmallestOf
  <2> QED BY <2>1
<1> QED BY <1>1, <1>2, <1>3

LEMMA AddGroupOk ==
  ASSUME NEW w, Consistent(w), NEW name \in Names, NEW size \in Nat,
         \A h \in Groups(w) : ~(w.groups[h].exists /\ w.groups[h].name = name)
  PROVE  LET v == addGroup(w, name, size)
         IN Consistent(v) /\ SameTalk(w, v) /\ Len(v.units) = Len(w.units) + size
<1> DEFINE g == Len(w.groups) + 1
           n == Len(w.units)
           more == [i \in 1..size |-> [group |-> g, exists |-> TRUE]]
           new == [name |-> name, exists |-> TRUE, unitIds |-> (n + 1)..(n + size)]
           us == w.units \o more
           gs == Append(w.groups, new)
           v == addGroup(w, name, size)
<1>1. w \in Worlds /\ Listed(w.units, w.groups) /\ Named(w.groups)
  BY DEF Consistent
<1>2. n \in Nat /\ g \in Nat /\ Units(w) = 1..n /\ Groups(w) = 1..(g - 1)
  BY <1>1, Lists
<1>3. more \in Seq(UnitRecords) /\ Len(more) = size
  <2>1. [group |-> g, exists |-> TRUE] \in UnitRecords
    BY <1>2 DEF UnitRecords
  <2>2. more \in [1..size -> UnitRecords]
    BY <2>1
  <2> HIDE DEF more
  <2> QED BY <2>2, ListOf
<1>4. new \in GroupRecords
  BY <1>2 DEF GroupRecords
<1>5. \A i \in 1..size : more[i].group = g /\ more[i].exists = TRUE
  OBVIOUS
<1>6. new.name = name /\ new.exists /\ new.unitIds = (n + 1)..(n + size)
  OBVIOUS
<1>7. v = Rebuilt(w, us, gs)
  BY DEF addGroup, Rebuilt
<1> HIDE DEF more, new, v
<1>8. us \in Seq(UnitRecords) /\ Len(us) = n + size
  <2>1. w.units \in Seq(UnitRecords) /\ Len(w.units) = n
    BY <1>1, FieldTypes
  <2> HIDE DEF n
  <2> QED BY <1>3, <2>1, ConcatProperties
<1>9. gs \in Seq(GroupRecords) /\ Len(gs) = g
  BY <1>1, <1>4, FieldTypes
<1>10. DOMAIN us = 1..(n + size) /\ DOMAIN gs = 1..g
  BY <1>8, <1>9
<1>11. (\A u \in 1..n : us[u] = w.units[u]) /\ \A i \in 1..size : us[n + i] = more[i]
  BY <1>1, <1>2, <1>3, FieldTypes
<1>12. (\A h \in 1..(g - 1) : gs[h] = w.groups[h]) /\ gs[g] = new
  BY <1>1, <1>2, <1>4, FieldTypes
<1>13. \A u \in 1..(n + size) : u \in 1..n \/ (u - n \in 1..size /\ n + (u - n) = u)
  BY <1>2
<1>14. \A u \in 1..(n + size) : u \notin 1..n => us[u].group = g /\ us[u].exists /\ u \in new.unitIds
  <2> SUFFICES ASSUME NEW u \in 1..(n + size), u \notin 1..n
               PROVE  us[u].group = g /\ us[u].exists /\ u \in new.unitIds
    OBVIOUS
  <2> DEFINE i == u - n
  <2>1. i \in 1..size /\ n + i = u
    BY <1>13
  <2>2. u \in (n + 1)..(n + size)
    BY <1>2
  <2> HIDE DEF i, n, us, g
  <2>3. us[u] = more[i]
    BY <1>11, <2>1
  <2> QED BY <1>5, <1>6, <2>1, <2>2, <2>3
<1>15. \A h \in 1..g : h = g \/ h \in 1..(g - 1)
  BY <1>2
<1>16. g \in 1..g /\ g \notin 1..(g - 1) /\ 1..(g - 1) \subseteq 1..g /\ 1..n \subseteq 1..(n + size)
  BY <1>2
<1>17. \A u \in new.unitIds : u \in 1..(n + size) /\ u \notin 1..n
  BY <1>2, <1>6
<1> HIDE DEF us, gs, n, g
<1>18. Listed(us, gs)
  <2>1. \A u \in 1..n : w.units[u].group \in 1..(g - 1)
    BY <1>1, <1>2 DEF Listed, Units, Groups
  <2>2. \A u \in 1..(n + size) : us[u].group \in 1..g
    BY <1>11, <1>14, <1>16, <2>1
  <2>3. ASSUME NEW h \in 1..g, NEW u \in gs[h].unitIds PROVE u \in 1..(n + size) /\ us[u].group = h
    <3>1. CASE h = g
      BY <1>12, <1>14, <1>17, <3>1
    <3>2. CASE h \in 1..(g - 1)
      <4>1. u \in 1..n /\ w.units[u].group = h
        BY <1>1, <1>2, <1>12, <3>2 DEF Listed, Units, Groups
      <4> QED BY <1>11, <1>16, <4>1
    <3> QED BY <1>15, <3>1, <3>2
  <2>4. ASSUME NEW u \in 1..(n + size)
        PROVE  us[u].exists <=> gs[us[u].group].exists /\ u \in gs[us[u].group].unitIds
    <3>1. CASE u \in 1..n
      <4>1. w.units[u].exists <=> /\ w.groups[w.units[u].group].exists
                                  /\ u \in w.groups[w.units[u].group].unitIds
        BY <1>1, <1>2, <3>1 DEF Listed, Units
      <4> QED BY <1>11, <1>12, <2>1, <3>1, <4>1
    <3>2. CASE u \notin 1..n
      BY <1>6, <1>12, <1>14, <3>2
    <3> QED BY <3>1, <3>2
  <2> QED BY <1>10, <2>2, <2>3, <2>4 DEF Listed
<1>19. Named(gs)
  <2> SUFFICES ASSUME NEW h \in 1..g, NEW k \in 1..g,
                      gs[h].exists, gs[k].exists, gs[h].name = gs[k].name
               PROVE  h = k
    BY <1>10 DEF Named
  <2>1. \A j \in 1..(g - 1) : gs[j].exists => gs[j].name # name
    BY <1>2, <1>12
  <2>2. \A i, j \in 1..(g - 1) : gs[i].exists /\ gs[j].exists /\ gs[i].name = gs[j].name => i = j
    BY <1>1, <1>2, <1>12 DEF Named, Groups
  <2> QED BY <1>6, <1>12, <1>15, <2>1, <2>2
<1>20. Len(w.units) <= Len(us)
  BY <1>2, <1>8 DEF n
<1>21. Consistent(v) /\ SameTalk(w, v) /\ v.units = us
  BY <1>7, <1>8, <1>9, <1>18, <1>19, <1>20, WithUnitsAndGroups
<1> QED BY <1>8, <1>21 DEF v, n

LEMMA DestroyObjectOk ==
  ASSUME NEW w, Consistent(w), NEW u \in Units(w)
  PROVE  LET v == destroyObject(w, u)
         IN Consistent(v) /\ SameTalk(w, v) /\ Units(v) = Units(w)
<1> DEFINE g == w.units[u].group
           left == w.groups[g].unitIds \ {u}
           stays == w.groups[g].exists /\ left # {}
           us == [x \in Units(w) |-> IF x = u THEN [group |-> g, exists |-> FALSE] ELSE w.units[x]]
           gs == [h \in Groups(w) |->
                    IF h = g THEN [name |-> w.groups[g].name, exists |-> stays, unitIds |-> left]
                    ELSE w.groups[h]]
           v == destroyObject(w, u)
<1>1. w \in Worlds /\ Listed(w.units, w.groups) /\ Named(w.groups)
  BY DEF Consistent
<1>2. g \in Groups(w) /\ stays \in BOOLEAN /\ left \in SUBSET Nat
  BY <1>1, Lists DEF Listed, Units, Groups
<1>3. us = [w.units EXCEPT ![u].exists = FALSE]
  <2>1. \A r \in UnitRecords : \A e \in BOOLEAN : [r EXCEPT !.exists = e] = [group |-> r.group, exists |-> e]
    BY RecordsAre
  <2>2. w.units[u] \in UnitRecords
    BY <1>1, Lists
  <2>3. [w.units[u] EXCEPT !.exists = FALSE] = [group |-> g, exists |-> FALSE]
    BY <2>1, <2>2
  <2>4. w.units = [x \in Units(w) |-> w.units[x]]
    BY <1>1, FieldTypes DEF Units
  <2> HIDE DEF g
  <2> QED BY <2>3, <2>4
<1>4. gs = [w.groups EXCEPT ![g].unitIds = left, ![g].exists = stays]
  <2>2. w.groups[g] \in GroupRecords
    BY <1>1, <1>2, Lists
  <2> HIDE DEF left, stays, g
  <2>3. [[w.groups[g] EXCEPT !.unitIds = left] EXCEPT !.exists = stays]
          = [name |-> w.groups[g].name, exists |-> stays, unitIds |-> left]
    BY <1>2, <2>2, RecordsAre
  <2>4. w.groups = [h \in Groups(w) |-> w.groups[h]]
    BY <1>1, FieldTypes DEF Groups
  <2> QED BY <1>2, <2>3, <2>4
<1>5. v = Rebuilt(w, us, gs)
  <2>1. v = [w EXCEPT !.units[u].exists = FALSE, !.groups[g].unitIds = left,
                      !.groups[g].exists = stays]
    BY <1>1, <1>2 DEF destroyObject, Worlds, Groups, GroupRecords
  <2> HIDE DEF us, gs, left, stays, g, v
  <2>2. v = [w EXCEPT !.units = [w.units EXCEPT ![u].exists = FALSE],
                      !.groups = [w.groups EXCEPT ![g].unitIds = left, ![g].exists = stays]]
    BY <1>1, <2>1 DEF Worlds
  <2> QED BY <1>3, <1>4, <2>2 DEF Rebuilt
<1>6. us \in Seq(UnitRecords)
  <2>1. \A x \in Units(w) : us[x] \in UnitRecords
    BY <1>1, <1>2, Lists DEF UnitRecords
  <2>2. us \in [1..Len(w.units) -> UnitRecords]
    BY <1>1, <2>1, Lists
  <2> HIDE DEF us
  <2> QED BY <1>1, <2>2, Lists, ListOf
<1>7. gs \in Seq(GroupRecords)
  <2>1. \A h \in Groups(w) : gs[h] \in GroupRecords
    BY <1>1, <1>2, Lists DEF GroupRecords
  <2>2. gs \in [1..Len(w.groups) -> GroupRecords]
    BY <1>1, <2>1, Lists
  <2> HIDE DEF gs
  <2> QED BY <1>1, <2>2, Lists, ListOf
<1>8. DOMAIN us = Units(w) /\ DOMAIN gs = Groups(w)
  OBVIOUS
<1>9. \A x \in Units(w) : us[x].group = w.units[x].group /\ (us[x].exists <=> w.units[x].exists /\ x # u)
  BY <1>1, Lists
<1>10. gs[g].name = w.groups[g].name /\ (gs[g].exists <=> stays) /\ gs[g].unitIds = left
  BY <1>2
<1>11. \A h \in Groups(w) : h # g => gs[h] = w.groups[h]
  OBVIOUS
<1>12. Len(us) = Len(w.units)
  BY <1>1, <1>6, <1>8, Lists
<1> HIDE DEF us, gs, v
<1>13. Listed(us, gs)
  <2>1. \A x \in Units(w) : us[x].group \in Groups(w)
    BY <1>1, <1>9 DEF Listed, Units, Groups
  <2>2. ASSUME NEW h \in Groups(w), NEW x \in gs[h].unitIds PROVE x \in Units(w) /\ us[x].group = h
    <3>1. x \in w.groups[h].unitIds
      BY <1>10, <1>11
    <3> QED BY <1>1, <1>9, <3>1 DEF Listed, Units, Groups
  <2>3. ASSUME NEW x \in Units(w)
        PROVE  us[x].exists <=> gs[us[x].group].exists /\ x \in gs[us[x].group].unitIds
    <3>1. w.units[x].exists <=> /\ w.groups[w.units[x].group].exists
                                /\ x \in w.groups[w.units[x].group].unitIds
      BY <1>1 DEF Listed, Units
    <3>2. w.units[x].group \in Groups(w)
      BY <1>1 DEF Listed, Units, Groups
    <3>3. CASE w.units[x].group = g
      <4> HIDE DEF g
      <4> QED BY <1>9, <1>10, <3>1, <3>3
    <3>4. CASE w.units[x].group # g
      <4>1. x # u
        BY <3>4
      <4> HIDE DEF g, left, stays
      <4> QED BY <1>9, <1>11, <3>1, <3>2, <3>4, <4>1
    <3> QED BY <3>3, <3>4
  <2> QED BY <1>8, <2>1, <2>2, <2>3 DEF Listed
<1>14. Named(gs)
  <2>1. \A h \in Groups(w) : gs[h].name = w.groups[h].name /\ (gs[h].exists => w.groups[h].exists)
    BY <1>10, <1>11
  <2> QED BY <1>1, <1>8, <2>1 DEF Named, Groups
<1>15. Len(w.units) <= Len(us)
  BY <1>1, <1>12, Lists
<1>16. Consistent(v) /\ SameTalk(w, v) /\ v.units = us
  BY <1>5, <1>6, <1>7, <1>13, <1>14, <1>15, WithUnitsAndGroups
<1>17. Units(v) = Units(w)
  BY <1>8, <1>16 DEF Units
<1> QED BY <1>16, <1>17 DEF v

-----------------------------------------------------------------------------
(* The event handlers.                                                      *)

(* filter keeps the order, so it keeps a list without repetitions one.      *)
Kept(list, x, i, out, S) ==
  /\ out \in Seq(S) /\ Distinct(out)
  /\ \A h : h \in ToSet(out) <=> h # x /\ \E j \in 1..i : list[j] = h

LEMMA KeptNext ==
  ASSUME NEW S, NEW list \in Seq(S), Distinct(list), NEW x, NEW i \in 1..Len(list), NEW out,
         Kept(list, x, i - 1, out, S)
  PROVE  Kept(list, x, i, out \o (IF list[i] = x THEN <<>> ELSE <<list[i]>>), S)
<1>1. list[i] \in S /\ DOMAIN list = 1..Len(list) /\ i \in Nat
  OBVIOUS
<1>2. \A j : j \in 1..i <=> j \in 1..(i - 1) \/ j = i
  BY <1>1
<1>3. out \in Seq(S) /\ Distinct(out)
  BY DEF Kept
<1>4. \A h : h \in ToSet(out) <=> h # x /\ \E j \in 1..(i - 1) : list[j] = h
  BY DEF Kept
<1>5. CASE list[i] = x
  <2>1. out \o <<>> = out
    BY <1>3
  <2>2. \A h : h \in ToSet(out) <=> h # x /\ \E j \in 1..i : list[j] = h
    BY <1>2, <1>4, <1>5
  <2>3. Kept(list, x, i, out, S)
    BY <1>3, <2>2 DEF Kept
  <2> QED BY <1>5, <2>1, <2>3
<1>6. CASE list[i] # x
  <2> DEFINE more == Append(out, list[i])
  <2>1. out \o <<list[i]>> = more
    BY <1>1, <1>3
  <2>2. more \in Seq(S) /\ DOMAIN more = 1..(Len(out) + 1) /\ DOMAIN out = 1..Len(out) /\ Len(out) \in Nat
    BY <1>1, <1>3
  <2>3. (\A j \in 1..Len(out) : more[j] = out[j]) /\ more[Len(out) + 1] = list[i]
    BY <1>1, <1>3
  <2> HIDE DEF more
  <2>4. \A j : j \in 1..(Len(out) + 1) <=> j \in 1..Len(out) \/ j = Len(out) + 1
    BY <2>2
  <2>5. \A h : h \in ToSet(more) <=> h \in ToSet(out) \/ h = list[i]
    BY <2>2, <2>3, <2>4 DEF ToSet
  <2>6. list[i] \notin ToSet(out)
    <3> SUFFICES ASSUME NEW j \in 1..(i - 1), list[j] = list[i] PROVE FALSE
      BY <1>4
    <3>1. j \in DOMAIN list /\ i \in DOMAIN list /\ j # i
      BY <1>1
    <3> QED BY <3>1 DEF Distinct
  <2>7. \A j \in 1..Len(out) : out[j] # list[i]
    BY <2>2, <2>6 DEF ToSet
  <2>8. Distinct(more)
    BY <1>3, <2>2, <2>3, <2>4, <2>7 DEF Distinct
  <2>9. \A h : h \in ToSet(more) <=> h # x /\ \E j \in 1..i : list[j] = h
    BY <1>2, <1>4, <1>6, <2>5
  <2>10. Kept(list, x, i, more, S)
    BY <2>2, <2>8, <2>9 DEF Kept
  <2> QED BY <1>6, <2>1, <2>10
<1> QED BY <1>5, <1>6

LEMMA WithoutIs ==
  ASSUME NEW S, NEW list \in Seq(S), Distinct(list), NEW x
  PROVE  Without(list, x) \in Seq(S) /\ Distinct(Without(list, x))
         /\ ToSet(Without(list, x)) = ToSet(list) \ {x}
<1> DEFINE m == Len(list)
           V == Seq(S)
           at(i, out) == out \o (IF list[i] = x THEN <<>> ELSE <<list[i]>>)
           step == [i \in 1..m |-> [out \in V |-> at(i, out)]]
           Filter(g) == g = [i \in 0..m |-> IF i = 0 THEN <<>> ELSE at(i, g[i - 1])]
           kept == CHOOSE g : Filter(g)
<1>1. m \in Nat
  OBVIOUS
<1>2. <<>> \in V
  OBVIOUS
<1>3. \A i \in 1..m : \A out \in V : at(i, out) \in V
  OBVIOUS
<1>4. step \in [1..m -> [V -> V]] /\ \A i \in 1..m : \A out \in V : step[i][out] = at(i, out)
  BY <1>3
<1>5. Without(list, x) = kept[m]
  BY Zenon DEF Without
<1> HIDE DEF step, V, at, m
<1>6. PICK g \in [0..m -> V] : Recursion(m, <<>>, step, g)
  BY <1>1, <1>2, <1>4, RecursionExists
<1>7. \A i \in 1..m : i \in 0..m /\ i - 1 \in 0..m /\ i # 0 /\ i \in Nat
  BY <1>1, Predecessors
<1>8. g = [i \in 0..m |-> IF i = 0 THEN <<>> ELSE step[i][g[i - 1]]]
  BY <1>6 DEF Recursion
<1>9. ASSUME NEW i \in 0..m PROVE g[i] = IF i = 0 THEN <<>> ELSE at(i, g[i - 1])
  <2>1. i # 0 => i \in 1..m
    BY <1>1
  <2> QED BY <1>4, <1>7, <1>8, <2>1
<1>10. Filter(g)
  BY <1>6, <1>9
<1>11. Filter(kept)
  BY <1>10
<1> HIDE DEF kept
<1>12. 0 \in 0..m /\ m \in 0..m
  BY <1>1
<1>13. kept[0] = <<>> /\ \A i \in 1..m : kept[i] = at(i, kept[i - 1])
  BY <1>7, <1>11, <1>12
<1> DEFINE T == {n \in Nat : n \in 0..m => Kept(list, x, n, kept[n], S)}
<1>14. 0 \in T
  <2>1. Distinct(<<>>) /\ ToSet(<<>>) = {} /\ <<>> \in Seq(S)
    BY DEF Distinct, ToSet
  <2>2. \A h : ~(h \in ToSet(<<>>)) /\ ~\E j \in 1..0 : list[j] = h
    BY <2>1
  <2>3. Kept(list, x, 0, <<>>, S)
    BY <2>1, <2>2 DEF Kept
  <2> QED BY <1>13, <2>3
<1>15. ASSUME NEW n \in Nat, n \in T PROVE n + 1 \in T
  <2> SUFFICES ASSUME n + 1 \in 0..m PROVE Kept(list, x, n + 1, kept[n + 1], S)
    OBVIOUS
  <2>1. n \in 0..m /\ n + 1 \in 1..m /\ (n + 1) - 1 = n
    BY <1>1
  <2>2. Kept(list, x, n, kept[n], S)
    BY <1>15, <2>1
  <2>3. Kept(list, x, n + 1, at(n + 1, kept[n]), S)
    BY <2>1, <2>2, KeptNext DEF at, m
  <2> QED BY <1>13, <2>1, <2>3
<1> HIDE DEF T
<1>16. Nat \subseteq T
  BY <1>14, <1>15, NatSetInduction
<1>17. Kept(list, x, m, kept[m], S)
  BY <1>1, <1>12, <1>16 DEF T
<1>18. \A h : h \in ToSet(list) <=> \E j \in 1..m : list[j] = h
  BY DEF ToSet, m
<1> HIDE DEF m
<1> QED BY <1>5, <1>17, <1>18 DEF Kept

(* The births, the handlers or the error changed, the rest as it is.        *)
Talked(w, hs, births, error) ==
  [w EXCEPT !.handlers = hs, !.births = births, !.error = error]

LEMMA WithTalk ==
  ASSUME NEW w, Consistent(w), NEW hs \in Seq(Handlers), Distinct(hs),
         NEW births \in Seq(BirthRecords), NEW error \in BOOLEAN, NEW v,
         v = Talked(w, hs, births, error)
  PROVE  /\ Consistent(v) /\ v.units = w.units /\ v.groups = w.groups
         /\ v.handlers = hs /\ v.births = births /\ v.error = error
         /\ v.time = w.time /\ v.scheduled = w.scheduled /\ v.lastId = w.lastId /\ v.ran = w.ran
<1>1. w \in Worlds
  BY DEF Consistent
<1>2. /\ v \in Worlds /\ v.units = w.units /\ v.groups = w.groups
      /\ v.handlers = hs /\ v.births = births /\ v.error = error
      /\ v.time = w.time /\ v.scheduled = w.scheduled /\ v.lastId = w.lastId /\ v.ran = w.ran
  BY <1>1 DEF Worlds, Talked
<1> QED BY <1>2, Zenon DEF Consistent

Birth(h, u) == [handler |-> h, unit |-> u]

LEMMA RemoveHandlerOk ==
  ASSUME NEW w, Consistent(w), NEW h
  PROVE  LET v == removeEventHandler(w, h)
         IN /\ Consistent(v) /\ Extends(w, v) /\ v.units = w.units /\ v.groups = w.groups
            /\ ToSet(v.handlers) = ToSet(w.handlers) \ {h}
            /\ v.births = w.births /\ v.error = w.error
<1> DEFINE v == removeEventHandler(w, h)
           hs == Without(w.handlers, h)
<1>1. w \in Worlds /\ Distinct(w.handlers)
  BY DEF Consistent
<1>2. hs \in Seq(Handlers) /\ Distinct(hs) /\ ToSet(hs) = ToSet(w.handlers) \ {h}
  BY <1>1, FieldTypes, WithoutIs
<1>3. w.births \in Seq(BirthRecords) /\ w.error \in BOOLEAN
  BY <1>1, FieldTypes
<1> HIDE DEF hs
<1>4. v = Talked(w, hs, w.births, w.error)
  BY <1>1 DEF removeEventHandler, Worlds, hs, Talked
<1> HIDE DEF v
<1>5. /\ Consistent(v) /\ v.units = w.units /\ v.groups = w.groups
      /\ v.handlers = hs /\ v.births = w.births /\ v.error = w.error
      /\ v.time = w.time /\ v.scheduled = w.scheduled /\ v.lastId = w.lastId /\ v.ran = w.ran
  BY <1>2, <1>3, <1>4, WithTalk
<1>6. Extends(w, v)
  BY <1>1, <1>2, <1>5, Lists DEF Extends
<1> QED BY <1>2, <1>5, <1>6 DEF v

LEMMA ReactsOk ==
  ASSUME NEW w, Consistent(w), NEW h \in Handlers, NEW u \in Units(w)
  PROVE  LET v == Reacts(w, h, u)
         IN /\ Consistent(v) /\ Extends(w, v) /\ Units(v) = Units(w)
            /\ v.births = Append(w.births, Birth(h, u))
            /\ h = "respawn" => v.error = w.error
<1> DEFINE seen == [w EXCEPT !.births = Append(@, Birth(h, u))]
           g == seen.units[u].group
           v == Reacts(w, h, u)
           told == Append(w.births, Birth(h, u))
<1>1. w \in Worlds /\ Distinct(w.handlers) /\ w.handlers \in Seq(Handlers) /\ w.error \in BOOLEAN
  BY FieldTypes DEF Consistent
<1>2. told \in Seq(BirthRecords)
  <2>1. Birth(h, u) \in BirthRecords
    BY <1>1, Lists DEF Birth, BirthRecords
  <2> QED BY <1>1, <2>1, FieldTypes
<1>3. v = IF h \in {"leave", "respawn"} THEN removeEventHandler(seen, h)
          ELSE IF h = "destroy" /\ seen.groups[g].exists THEN destroyGroup(seen, g)
          ELSE [seen EXCEPT !.error = (h = "raise")]
  BY DEF Reacts, Birth
<1>4. seen = [w EXCEPT !.births = told]
  OBVIOUS
<1> HIDE DEF told
<1>5. seen = Talked(w, w.handlers, told, w.error)
  BY <1>1, <1>4 DEF Worlds, Talked
<1> HIDE DEF seen, v
<1>6. /\ Consistent(seen) /\ seen.units = w.units /\ seen.groups = w.groups
      /\ seen.handlers = w.handlers /\ seen.births = told /\ seen.error = w.error
      /\ seen.time = w.time /\ seen.scheduled = w.scheduled /\ seen.lastId = w.lastId /\ seen.ran = w.ran
  BY <1>1, <1>2, <1>5, WithTalk
<1>7. seen \in Worlds /\ Units(seen) = Units(w)
  BY <1>6 DEF Consistent, Units
<1>8. Extends(w, seen)
  BY <1>1, <1>6, Lists DEF Extends
<1>9. CASE h \in {"leave", "respawn"}
  <2>1. v = removeEventHandler(seen, h)
    BY <1>3, <1>9
  <2>2. Consistent(v) /\ Extends(seen, v) /\ v.units = seen.units /\ v.births = seen.births /\ v.error = seen.error
    BY <1>6, <2>1, RemoveHandlerOk
  <2>3. Extends(w, v)
    BY <1>1, <1>7, <1>8, <2>2, ExtendsTransitive DEF Consistent
  <2> QED BY <1>6, <2>2, <2>3 DEF v, told, Units
<1>10. CASE h \notin {"leave", "respawn"} /\ h = "destroy" /\ seen.groups[g].exists
  <2>1. v = destroyGroup(seen, g)
    BY <1>3, <1>10
  <2>2. g \in Groups(seen)
    BY <1>6, <1>7 DEF Consistent, Listed, Units, Groups
  <2>3. Consistent(v) /\ SameTalk(seen, v) /\ Units(v) = Units(seen)
    BY <1>6, <2>1, <2>2, DestroyGroupOk
  <2>4. Extends(w, v)
    BY <1>1, <1>7, <1>8, <2>3, ExtendsTransitive DEF Consistent, SameTalk
  <2> QED BY <1>6, <1>7, <1>10, <2>3, <2>4 DEF v, told, SameTalk
<1>11. CASE h \notin {"leave", "respawn"} /\ ~(h = "destroy" /\ seen.groups[g].exists)
  <2> DEFINE e == h = "raise"
  <2>1. e \in BOOLEAN
    OBVIOUS
  <2>2. v = [seen EXCEPT !.error = e]
    BY <1>3, <1>11
  <2> HIDE DEF e
  <2>3. v = Talked(seen, seen.handlers, seen.births, e)
    BY <1>7, <2>2 DEF Worlds, Talked
  <2>4. /\ Consistent(v) /\ v.units = seen.units /\ v.handlers = seen.handlers /\ v.births = seen.births
        /\ v.time = seen.time /\ v.scheduled = seen.scheduled /\ v.lastId = seen.lastId /\ v.ran = seen.ran
    <3>1. seen.handlers \in Seq(Handlers) /\ Distinct(seen.handlers) /\ seen.births \in Seq(BirthRecords)
      BY <1>1, <1>2, <1>6
    <3> QED BY <1>6, <2>1, <2>3, <3>1, WithTalk
  <2>5. Extends(w, v)
    BY <1>1, <1>6, <2>4, Lists DEF Extends
  <2> QED BY <1>6, <1>11, <2>4, <2>5 DEF v, told, Units
<1> QED BY <1>9, <1>10, <1>11

-----------------------------------------------------------------------------
(* The births, reported to one handler after the other.                     *)

LEMMA AfterIs ==
  ASSUME NEW w, Consistent(w)
  PROVE  /\ w \in After(w)
         /\ \A v \in After(w) : Consistent(v) /\ v \in Worlds /\ Extends(w, v) /\ Units(w) \subseteq Units(v)
         /\ \A v \in After(w) : After(v) \subseteq After(w)
<1>1. w \in Worlds
  BY DEF Consistent
<1>2. w \in After(w)
  BY <1>1, ExtendsReflexive DEF After
<1>3. ASSUME NEW v \in After(w)
      PROVE  Consistent(v) /\ v \in Worlds /\ Extends(w, v) /\ Units(w) \subseteq Units(v)
  <2>1. Consistent(v) /\ v \in Worlds /\ Extends(w, v)
    BY DEF After
  <2>2. Len(w.units) <= Len(v.units)
    BY <2>1 DEF Extends
  <2> QED BY <1>1, <2>1, <2>2, Lists
<1>4. ASSUME NEW v \in After(w), NEW x \in After(v) PROVE x \in After(w)
  <2>1. Extends(w, v) /\ Extends(v, x) /\ v \in Worlds /\ x \in Worlds /\ Consistent(x)
    BY DEF After
  <2> QED BY <1>1, <2>1, ExtendsTransitive DEF After
<1> QED BY <1>2, <1>3, <1>4

(* The worlds that one loop over handlers goes through.                     *)
ToldInside(w, u, told) ==
  /\ told \in [0..Len(w.handlers) -> {v \in After(w) : Units(v) = Units(w)}]
  /\ told[0] = w
  /\ \A i \in 1..Len(w.handlers) :
       told[i] = IF told[i - 1].error THEN told[i - 1] ELSE Reacts(told[i - 1], w.handlers[i], u)

LEMMA ReportInsideIs ==
  ASSUME NEW w, Consistent(w), NEW u \in Units(w)
  PROVE  \E told : ToldInside(w, u, told) /\ ReportInside(w, u) = told[Len(w.handlers)]
<1> DEFINE m == Len(w.handlers)
           V == {v \in After(w) : Units(v) = Units(w)}
           at(i, v) == IF v.error THEN v ELSE Reacts(v, w.handlers[i], u)
           step == [i \in 1..m |-> [v \in V |-> at(i, v)]]
           Loop(g) == g = [i \in 0..m |-> IF i = 0 THEN w ELSE at(i, g[i - 1])]
           told == CHOOSE g : Loop(g)
<1>1. m \in Nat /\ \A i \in 1..m : w.handlers[i] \in Handlers
  BY Lists DEF Consistent
<1>2. w \in V
  BY AfterIs
<1>3. ASSUME NEW i \in 1..m, NEW v \in V PROVE at(i, v) \in V
  <2>1. Consistent(v) /\ Units(v) = Units(w) /\ v \in After(w)
    BY AfterIs
  <2> DEFINE h == w.handlers[i]
             x == Reacts(v, h, u)
  <2>2. h \in Handlers
    BY <1>1
  <2> HIDE DEF h, V
  <2>3. Consistent(x) /\ Extends(v, x) /\ Units(x) = Units(v)
    BY <2>1, <2>2, ReactsOk
  <2> HIDE DEF x
  <2>4. x \in After(v)
    BY <2>3 DEF After, Consistent
  <2>5. x \in After(w)
    BY <2>1, <2>4, AfterIs
  <2>6. x \in V
    BY <2>1, <2>3, <2>5 DEF V
  <2> QED BY <2>6 DEF x, h
<1>4. step \in [1..m -> [V -> V]] /\ \A i \in 1..m : \A v \in V : step[i][v] = at(i, v)
  BY <1>3
<1>5. ReportInside(w, u) = told[m]
  BY Zenon DEF ReportInside, Dispatch
<1> HIDE DEF step, V, at, m
<1>6. PICK g \in [0..m -> V] : Recursion(m, w, step, g)
  BY <1>1, <1>2, <1>4, RecursionExists
<1>7. \A i \in 1..m : i \in 0..m /\ i - 1 \in 0..m /\ i # 0 /\ i \in Nat
  BY <1>1, Predecessors
<1>8. g = [i \in 0..m |-> IF i = 0 THEN w ELSE step[i][g[i - 1]]]
  BY <1>6 DEF Recursion
<1>9. ASSUME NEW i \in 0..m PROVE g[i] = IF i = 0 THEN w ELSE at(i, g[i - 1])
  <2>1. i # 0 => i \in 1..m
    BY <1>1
  <2> QED BY <1>4, <1>7, <1>8, <2>1
<1>10. Loop(g)
  BY <1>6, <1>9
<1>11. Loop(told)
  BY <1>10
<1> HIDE DEF told
<1>12. told[0] = w /\ \A i \in 1..m : told[i] = at(i, told[i - 1])
  BY <1>1, <1>7, <1>11
<1>13. \A i \in 0..m : told[i] \in V
  <2>1. \A i \in 1..m : told[i - 1] \in V => told[i] = step[i][told[i - 1]]
    BY <1>4, <1>12
  <2> QED BY <1>1, <1>2, <1>4, <1>12, <2>1, RecursionStays
<1>14. told \in [0..m -> V]
  BY <1>11, <1>13
<1>15. ToldInside(w, u, told)
  BY <1>12, <1>14 DEF ToldInside, V, at, m
<1> QED BY <1>5, <1>15 DEF m

LEMMA ReportInsideOk ==
  ASSUME NEW w, Consistent(w), NEW u \in Units(w)
  PROVE  ReportInside(w, u) \in After(w) /\ Units(ReportInside(w, u)) = Units(w)
<1>1. PICK told : ToldInside(w, u, told) /\ ReportInside(w, u) = told[Len(w.handlers)]
  BY ReportInsideIs
<1>2. Len(w.handlers) \in 0..Len(w.handlers)
  BY Lists DEF Consistent
<1> QED BY <1>1, <1>2 DEF ToldInside

(* The group replaced, before its births are reported.                      *)
Added(w, name, size) ==
  addGroup(IF findGroup(w, name) = Nothing THEN w ELSE destroyGroup(w, findGroup(w, name)),
           name, size)

LEMMA AddedOk ==
  ASSUME NEW w, Consistent(w), NEW name \in Names, NEW size \in Nat
  PROVE  LET v == Added(w, name, size)
         IN /\ Consistent(v) /\ SameTalk(w, v) /\ Len(v.units) = Len(w.units) + size
            /\ \A i \in 1..size : Len(w.units) + i \in Units(v)
<1> DEFINE old == findGroup(w, name)
           x == IF old = Nothing THEN w ELSE destroyGroup(w, old)
           v == Added(w, name, size)
<1>1. w \in Worlds /\ Named(w.groups)
  BY DEF Consistent
<1>2. v = addGroup(x, name, size)
  BY DEF Added
<1>3. /\ Consistent(x) /\ SameTalk(w, x) /\ Units(x) = Units(w) /\ Groups(x) = Groups(w)
      /\ \A h \in Groups(x) : ~(x.groups[h].exists /\ x.groups[h].name = name)
  <2>1. CASE old = Nothing
    <3>1. \A h \in Groups(w) : ~(w.groups[h].exists /\ w.groups[h].name = name)
      BY <1>1, <2>1, FindGroupIs
    <3>2. SameTalk(w, w)
      BY <1>1, ExtendsReflexive DEF SameTalk
    <3> QED BY <2>1, <3>1, <3>2
  <2>2. CASE old # Nothing
    <3>1. old \in Groups(w) /\ w.groups[old].exists /\ w.groups[old].name = name
      BY <1>1, <2>2, FindGroupIs
    <3> HIDE DEF old
    <3>2. x = destroyGroup(w, old)
      BY <2>2
    <3> HIDE DEF x
    <3>3. /\ Consistent(x) /\ SameTalk(w, x) /\ Units(x) = Units(w) /\ Groups(x) = Groups(w)
          /\ ~x.groups[old].exists
          /\ \A h \in Groups(w) : h # old => x.groups[h] = w.groups[h]
      BY <3>1, <3>2, DestroyGroupOk
    <3>4. \A h \in Groups(w) : w.groups[h].exists /\ w.groups[h].name = name => h = old
      BY <1>1, <3>1 DEF Named, Groups
    <3> QED BY <3>3, <3>4
  <2> QED BY <2>1, <2>2
<1> HIDE DEF x, v
<1>4. Consistent(v) /\ SameTalk(x, v) /\ Len(v.units) = Len(x.units) + size
  BY <1>2, <1>3, AddGroupOk
<1>5. x \in Worlds /\ v \in Worlds
  BY <1>3, <1>4 DEF Consistent
<1>6. Len(x.units) = Len(w.units)
  BY <1>1, <1>3, <1>5, Lists
<1>7. SameTalk(w, v)
  BY <1>1, <1>3, <1>4, <1>5, ExtendsTransitive DEF SameTalk
<1>8. \A i \in 1..size : Len(w.units) + i \in Units(v)
  BY <1>1, <1>4, <1>5, <1>6, Lists
<1> QED BY <1>4, <1>6, <1>7, <1>8 DEF v

(* A group that a handler respawns.                                         *)
SpawnInside(w, name, size) == Spawn(w, name, size, ReportInside)

(* The worlds that the births of one group, spawned from inside a handler, go through. *)
BornInside(w, name, size, born) ==
  /\ born \in [0..size -> After(Added(w, name, size))]
  /\ born[0] = Added(w, name, size)
  /\ \A i \in 1..size :
       born[i] = IF born[i - 1].error THEN born[i - 1]
                 ELSE ReportInside(born[i - 1], Len(w.units) + i)

LEMMA SpawnInsideIs ==
  ASSUME NEW w, Consistent(w), NEW name \in Names, NEW size \in Nat
  PROVE  \E born : BornInside(w, name, size, born) /\ SpawnInside(w, name, size) = born[size]
<1> DEFINE n == Len(w.units)
           first == Added(w, name, size)
           V == After(first)
           at(i, v) == IF v.error THEN v ELSE ReportInside(v, n + i)
           step == [i \in 1..size |-> [v \in V |-> at(i, v)]]
           Loop(g) == g = [i \in 0..size |-> IF i = 0 THEN first ELSE at(i, g[i - 1])]
           born == CHOOSE g : Loop(g)
<1>1. Consistent(first) /\ \A i \in 1..size : n + i \in Units(first)
  BY AddedOk
<1> HIDE DEF first
<1>2. first \in V
  BY <1>1, AfterIs
<1>3. ASSUME NEW i \in 1..size, NEW v \in V PROVE at(i, v) \in V
  <2>1. Consistent(v) /\ v \in After(first) /\ n + i \in Units(v)
    BY <1>1, AfterIs
  <2> DEFINE x == ReportInside(v, n + i)
  <2> HIDE DEF V
  <2>2. x \in After(v)
    BY <2>1, ReportInsideOk
  <2> HIDE DEF x
  <2>3. x \in V
    BY <1>1, <2>1, <2>2, AfterIs DEF V
  <2> QED BY <2>3 DEF x
<1>4. step \in [1..size -> [V -> V]] /\ \A i \in 1..size : \A v \in V : step[i][v] = at(i, v)
  BY <1>3
<1>5. SpawnInside(w, name, size) = born[size]
  BY Zenon DEF SpawnInside, Spawn, first, Added
<1> HIDE DEF step, V, at
<1>6. PICK g \in [0..size -> V] : Recursion(size, first, step, g)
  BY <1>2, <1>4, RecursionExists
<1>7. \A i \in 1..size : i \in 0..size /\ i - 1 \in 0..size /\ i # 0 /\ i \in Nat
  BY Predecessors
<1>8. g = [i \in 0..size |-> IF i = 0 THEN first ELSE step[i][g[i - 1]]]
  BY <1>6 DEF Recursion
<1>9. ASSUME NEW i \in 0..size PROVE g[i] = IF i = 0 THEN first ELSE at(i, g[i - 1])
  <2>1. i # 0 => i \in 1..size
    OBVIOUS
  <2> QED BY <1>4, <1>7, <1>8, <2>1
<1>10. Loop(g)
  BY <1>6, <1>9
<1>11. Loop(born)
  BY <1>10
<1> HIDE DEF born
<1>12. born[0] = first /\ \A i \in 1..size : born[i] = at(i, born[i - 1])
  BY <1>7, <1>11
<1>13. \A i \in 0..size : born[i] \in V
  <2>1. \A i \in 1..size : born[i - 1] \in V => born[i] = step[i][born[i - 1]]
    BY <1>4, <1>12
  <2> QED BY <1>2, <1>4, <1>12, <2>1, RecursionStays
<1>14. born \in [0..size -> V]
  BY <1>11, <1>13
<1>15. BornInside(w, name, size, born)
  BY <1>12, <1>14 DEF BornInside, first, V, at, n
<1> QED BY <1>5, <1>15

LEMMA SpawnInsideOk ==
  ASSUME NEW w, Consistent(w), NEW name \in Names, NEW size \in Nat
  PROVE  SpawnInside(w, name, size) \in After(w)
<1> DEFINE v == SpawnInside(w, name, size)
           first == Added(w, name, size)
<1>1. PICK born : BornInside(w, name, size, born) /\ v = born[size]
  BY SpawnInsideIs
<1>2. v \in After(first)
  BY <1>1 DEF BornInside
<1>3. first \in After(w)
  BY AddedOk DEF After, SameTalk, Consistent
<1> HIDE DEF v, first
<1>4. v \in After(w)
  BY <1>2, <1>3, AfterIs
<1> QED BY <1>4 DEF v

LEMMA OnEventIs ==
  ASSUME NEW w, Consistent(w), NEW h \in Handlers, NEW u \in Units(w)
  PROVE  LET v == Reacts(w, h, u)
             name == v.groups[v.units[u].group].name
         IN /\ Consistent(v) /\ v \in After(w) /\ name \in Names
            /\ onEvent(w, h, u) = IF h # "respawn" THEN v ELSE SpawnInside(v, name, 1)
            /\ onEvent(w, h, u) \in After(w)
<1> DEFINE v == Reacts(w, h, u)
           name == v.groups[v.units[u].group].name
<1>1. Consistent(v) /\ Extends(w, v) /\ Units(v) = Units(w)
  BY ReactsOk
<1>2. onEvent(w, h, u) = IF h # "respawn" THEN v ELSE SpawnInside(v, name, 1)
  BY Zenon DEF onEvent, SpawnInside
<1> HIDE DEF v
<1>3. v \in Worlds /\ v \in After(w)
  BY <1>1 DEF After, Consistent
<1>4. v.units[u].group \in Groups(v)
  BY <1>1 DEF Consistent, Listed, Units, Groups
<1>5. name \in Names
  BY <1>3, <1>4, Lists
<1> HIDE DEF name
<1>6. SpawnInside(v, name, 1) \in After(v)
  BY <1>1, <1>5, SpawnInsideOk
<1>7. onEvent(w, h, u) \in After(w)
  BY <1>2, <1>3, <1>6, AfterIs
<1> QED BY <1>1, <1>2, <1>3, <1>5, <1>7 DEF v, name

(* The worlds that the report of one birth goes through.                    *)
Told(w, u, told) ==
  /\ told \in [0..Len(w.handlers) -> After(w)]
  /\ told[0] = w
  /\ \A i \in 1..Len(w.handlers) :
       told[i] = IF told[i - 1].error THEN told[i - 1] ELSE onEvent(told[i - 1], w.handlers[i], u)

LEMMA DispatchIs ==
  ASSUME NEW w, Consistent(w), NEW u \in Units(w)
  PROVE  \E told : Told(w, u, told) /\ dispatchEvent(w, u) = told[Len(w.handlers)]
<1> DEFINE m == Len(w.handlers)
           V == After(w)
           at(i, v) == IF v.error THEN v ELSE onEvent(v, w.handlers[i], u)
           step == [i \in 1..m |-> [v \in V |-> at(i, v)]]
           Loop(g) == g = [i \in 0..m |-> IF i = 0 THEN w ELSE at(i, g[i - 1])]
           told == CHOOSE g : Loop(g)
<1>1. m \in Nat /\ \A i \in 1..m : w.handlers[i] \in Handlers
  BY Lists DEF Consistent
<1>2. w \in V
  BY AfterIs
<1>3. ASSUME NEW i \in 1..m, NEW v \in V PROVE at(i, v) \in V
  <2>1. Consistent(v) /\ u \in Units(v) /\ v \in After(w)
    BY AfterIs
  <2> DEFINE h == w.handlers[i]
             x == onEvent(v, h, u)
  <2>2. h \in Handlers
    BY <1>1
  <2> HIDE DEF h, V
  <2>3. x \in After(v)
    BY <2>1, <2>2, OnEventIs
  <2> HIDE DEF x
  <2>4. x \in V
    BY <2>1, <2>3, AfterIs DEF V
  <2> QED BY <2>4 DEF x, h
<1>4. step \in [1..m -> [V -> V]] /\ \A i \in 1..m : \A v \in V : step[i][v] = at(i, v)
  BY <1>3
<1>5. dispatchEvent(w, u) = told[m]
  BY Zenon DEF dispatchEvent, Dispatch
<1> HIDE DEF step, V, at, m
<1>6. PICK g \in [0..m -> V] : Recursion(m, w, step, g)
  BY <1>1, <1>2, <1>4, RecursionExists
<1>7. \A i \in 1..m : i \in 0..m /\ i - 1 \in 0..m /\ i # 0 /\ i \in Nat
  BY <1>1, Predecessors
<1>8. g = [i \in 0..m |-> IF i = 0 THEN w ELSE step[i][g[i - 1]]]
  BY <1>6 DEF Recursion
<1>9. ASSUME NEW i \in 0..m PROVE g[i] = IF i = 0 THEN w ELSE at(i, g[i - 1])
  <2>1. i # 0 => i \in 1..m
    BY <1>1
  <2> QED BY <1>4, <1>7, <1>8, <2>1
<1>10. Loop(g)
  BY <1>6, <1>9
<1>11. Loop(told)
  BY <1>10
<1> HIDE DEF told
<1>12. told[0] = w /\ \A i \in 1..m : told[i] = at(i, told[i - 1])
  BY <1>1, <1>7, <1>11
<1>13. \A i \in 0..m : told[i] \in V
  <2>1. \A i \in 1..m : told[i - 1] \in V => told[i] = step[i][told[i - 1]]
    BY <1>4, <1>12
  <2> QED BY <1>1, <1>2, <1>4, <1>12, <2>1, RecursionStays
<1>14. told \in [0..m -> V]
  BY <1>11, <1>13
<1>15. Told(w, u, told)
  BY <1>12, <1>14 DEF Told, V, at, m
<1> QED BY <1>5, <1>15 DEF m

LEMMA DispatchOk ==
  ASSUME NEW w, Consistent(w), NEW u \in Units(w)
  PROVE  dispatchEvent(w, u) \in After(w)
<1>1. PICK told : Told(w, u, told) /\ dispatchEvent(w, u) = told[Len(w.handlers)]
  BY DispatchIs
<1>2. Len(w.handlers) \in 0..Len(w.handlers)
  BY Lists DEF Consistent
<1> QED BY <1>1, <1>2 DEF Told

(* The worlds that the births of one group, spawned by the script or a function, go through. *)
BornGroup(w, name, size, born) ==
  /\ born \in [0..size -> After(Added(w, name, size))]
  /\ born[0] = Added(w, name, size)
  /\ \A i \in 1..size :
       born[i] = IF born[i - 1].error THEN born[i - 1]
                 ELSE dispatchEvent(born[i - 1], Len(w.units) + i)

LEMMA SpawnGroupIs ==
  ASSUME NEW w, Consistent(w), NEW name \in Names, NEW size \in Nat
  PROVE  \E born : BornGroup(w, name, size, born) /\ spawnGroup(w, name, size) = born[size]
<1> DEFINE n == Len(w.units)
           first == Added(w, name, size)
           V == After(first)
           at(i, v) == IF v.error THEN v ELSE dispatchEvent(v, n + i)
           step == [i \in 1..size |-> [v \in V |-> at(i, v)]]
           Loop(g) == g = [i \in 0..size |-> IF i = 0 THEN first ELSE at(i, g[i - 1])]
           born == CHOOSE g : Loop(g)
<1>1. Consistent(first) /\ \A i \in 1..size : n + i \in Units(first)
  BY AddedOk
<1> HIDE DEF first
<1>2. first \in V
  BY <1>1, AfterIs
<1>3. ASSUME NEW i \in 1..size, NEW v \in V PROVE at(i, v) \in V
  <2>1. Consistent(v) /\ v \in After(first) /\ n + i \in Units(v)
    BY <1>1, AfterIs
  <2> DEFINE x == dispatchEvent(v, n + i)
  <2> HIDE DEF V
  <2>2. x \in After(v)
    BY <2>1, DispatchOk
  <2> HIDE DEF x
  <2>3. x \in V
    BY <1>1, <2>1, <2>2, AfterIs DEF V
  <2> QED BY <2>3 DEF x
<1>4. step \in [1..size -> [V -> V]] /\ \A i \in 1..size : \A v \in V : step[i][v] = at(i, v)
  BY <1>3
<1>5. spawnGroup(w, name, size) = born[size]
  BY Zenon DEF spawnGroup, Spawn, first, Added
<1> HIDE DEF step, V, at
<1>6. PICK g \in [0..size -> V] : Recursion(size, first, step, g)
  BY <1>2, <1>4, RecursionExists
<1>7. \A i \in 1..size : i \in 0..size /\ i - 1 \in 0..size /\ i # 0 /\ i \in Nat
  BY Predecessors
<1>8. g = [i \in 0..size |-> IF i = 0 THEN first ELSE step[i][g[i - 1]]]
  BY <1>6 DEF Recursion
<1>9. ASSUME NEW i \in 0..size PROVE g[i] = IF i = 0 THEN first ELSE at(i, g[i - 1])
  <2>1. i # 0 => i \in 1..size
    OBVIOUS
  <2> QED BY <1>4, <1>7, <1>8, <2>1
<1>10. Loop(g)
  BY <1>6, <1>9
<1>11. Loop(born)
  BY <1>10
<1> HIDE DEF born
<1>12. born[0] = first /\ \A i \in 1..size : born[i] = at(i, born[i - 1])
  BY <1>7, <1>11
<1>13. \A i \in 0..size : born[i] \in V
  <2>1. \A i \in 1..size : born[i - 1] \in V => born[i] = step[i][born[i - 1]]
    BY <1>4, <1>12
  <2> QED BY <1>2, <1>4, <1>12, <2>1, RecursionStays
<1>14. born \in [0..size -> V]
  BY <1>11, <1>13
<1>15. BornGroup(w, name, size, born)
  BY <1>12, <1>14 DEF BornGroup, first, V, at, n
<1> QED BY <1>5, <1>15

LEMMA SpawnGroupOk ==
  ASSUME NEW w, Consistent(w), NEW name \in Names, NEW size \in Nat
  PROVE  spawnGroup(w, name, size) \in After(w)
<1> DEFINE v == spawnGroup(w, name, size)
           first == Added(w, name, size)
<1>1. PICK born : BornGroup(w, name, size, born) /\ v = born[size]
  BY SpawnGroupIs
<1>2. v \in After(first)
  BY <1>1 DEF BornGroup
<1>3. first \in After(w)
  BY AddedOk DEF After, SameTalk, Consistent
<1> HIDE DEF v, first
<1>4. v \in After(w)
  BY <1>2, <1>3, AfterIs
<1> QED BY <1>4 DEF v

-----------------------------------------------------------------------------
(* The scheduled functions.                                                 *)

(* The functions changed, the rest as it is.                                *)
Rescheduled(w, entries, last) == [w EXCEPT !.scheduled = entries, !.lastId = last]

(* Groups, units and handlers, the births and the error are as they were.   *)
SameMission(w, v) ==
  /\ v.units = w.units /\ v.groups = w.groups /\ v.handlers = w.handlers
  /\ v.births = w.births /\ v.error = w.error

LEMMA RescheduledOk ==
  ASSUME NEW w, Consistent(w), NEW entries \in SUBSET Entries, NEW last \in Nat, NEW v,
         v = Rescheduled(w, entries, last)
  PROVE  /\ Consistent(v) /\ SameMission(w, v) /\ v.time = w.time /\ v.ran = w.ran
         /\ v.scheduled = entries /\ v.lastId = last
<1>1. w \in Worlds
  BY DEF Consistent
<1>2. /\ v \in Worlds /\ SameMission(w, v) /\ v.time = w.time /\ v.ran = w.ran
      /\ v.scheduled = entries /\ v.lastId = last
  BY <1>1 DEF Worlds, Rescheduled, SameMission
<1>3. Consistent(v)
  BY <1>2 DEF Consistent, SameMission
<1> QED BY <1>2, <1>3

LEMMA ScheduleOk ==
  ASSUME NEW w, Consistent(w), NEW at \in Nat, NEW deed \in Deeds \cup {"nothing"}, NEW again \in Nat
  PROVE  LET v == scheduleFunction(w, at, deed, again)
         IN /\ Consistent(v) /\ SameMission(w, v) /\ v.time = w.time /\ v.ran = w.ran
            /\ w.scheduled \subseteq v.scheduled
<1> DEFINE v == scheduleFunction(w, at, deed, again)
           new == [id |-> w.lastId + 1, time |-> at, deed |-> deed, again |-> again]
           entries == w.scheduled \cup {new}
           last == w.lastId + 1
<1>1. w \in Worlds /\ w.scheduled \in SUBSET Entries /\ last \in Nat
  BY FieldTypes DEF Consistent
<1>2. entries \in SUBSET Entries
  BY <1>1 DEF Entries
<1>3. v = Rescheduled(w, entries, last)
  BY <1>1 DEF scheduleFunction, Rescheduled, Worlds
<1>4. w.scheduled \subseteq entries
  OBVIOUS
<1> HIDE DEF entries, last, v
<1>5. /\ Consistent(v) /\ SameMission(w, v) /\ v.time = w.time /\ v.ran = w.ran
      /\ v.scheduled = entries
  BY <1>1, <1>2, <1>3, RescheduledOk
<1> QED BY <1>4, <1>5 DEF v

LEMMA SetTimeOk ==
  ASSUME NEW w, Consistent(w), NEW id, NEW at \in Nat
  PROVE  LET v == setFunctionTime(w, id, at)
         IN /\ Consistent(v) /\ SameMission(w, v) /\ v.time = w.time /\ v.ran = w.ran
            /\ \A e \in w.scheduled : e.id # id => e \in v.scheduled
            /\ Scheduled(v) = Scheduled(w)
<1> DEFINE v == setFunctionTime(w, id, at)
           at2(e) == IF e.id = id THEN [e EXCEPT !.time = at] ELSE e
           entries == {at2(e) : e \in w.scheduled}
<1>1. w \in Worlds /\ w.scheduled \in SUBSET Entries /\ w.lastId \in Nat
  BY FieldTypes DEF Consistent
<1>2. \A e \in Entries : at2(e) \in Entries /\ at2(e).id = e.id /\ (e.id # id => at2(e) = e)
  BY DEF Entries
<1>3. v = [w EXCEPT !.scheduled = entries]
  BY DEF setFunctionTime
<1> HIDE DEF at2
<1>4. entries \in SUBSET Entries /\ \A e \in w.scheduled : at2(e) \in entries
  BY <1>1, <1>2
<1>5. \A f \in entries : \E e \in w.scheduled : f = at2(e)
  OBVIOUS
<1> HIDE DEF entries, v
<1>6. v = Rescheduled(w, entries, w.lastId)
  BY <1>1, <1>3 DEF Rescheduled, Worlds
<1>7. /\ Consistent(v) /\ SameMission(w, v) /\ v.time = w.time /\ v.ran = w.ran
      /\ v.scheduled = entries
  BY <1>1, <1>4, <1>6, RescheduledOk
<1>8. \A e \in w.scheduled : e.id # id => e \in entries
  BY <1>1, <1>2, <1>4
<1>9. Scheduled(v) = Scheduled(w)
  <2>1. \A e \in w.scheduled : \E f \in entries : f.id = e.id
    BY <1>1, <1>2, <1>4
  <2>2. \A f \in entries : \E e \in w.scheduled : f.id = e.id
    BY <1>1, <1>2, <1>5
  <2> QED BY <1>7, <2>1, <2>2 DEF Scheduled
<1> QED BY <1>7, <1>8, <1>9 DEF v

LEMMA RemoveOk ==
  ASSUME NEW w, Consistent(w), NEW id
  PROVE  LET v == removeFunction(w, id)
         IN /\ Consistent(v) /\ SameMission(w, v) /\ v.time = w.time /\ v.ran = w.ran
            /\ \A e \in w.scheduled : e.id # id => e \in v.scheduled
            /\ Scheduled(v) = Scheduled(w) \ {id}
<1> DEFINE v == removeFunction(w, id)
           entries == {e \in w.scheduled : e.id # id}
<1>1. w \in Worlds /\ w.scheduled \in SUBSET Entries /\ w.lastId \in Nat
  BY FieldTypes DEF Consistent
<1>2. entries \in SUBSET Entries
  BY <1>1
<1>3. v = [w EXCEPT !.scheduled = entries]
  BY DEF removeFunction
<1>4. \A e : e \in entries <=> e \in w.scheduled /\ e.id # id
  OBVIOUS
<1> HIDE DEF entries, v
<1>5. v = Rescheduled(w, entries, w.lastId)
  BY <1>1, <1>3 DEF Rescheduled, Worlds
<1>6. /\ Consistent(v) /\ SameMission(w, v) /\ v.time = w.time /\ v.ran = w.ran
      /\ v.scheduled = entries
  BY <1>1, <1>2, <1>5, RescheduledOk
<1>7. Scheduled(v) = Scheduled(w) \ {id}
  BY <1>4, <1>6 DEF Scheduled
<1> QED BY <1>4, <1>6, <1>7 DEF v

(* What a deed may do to the world.                                         *)
Meddles(deed) == deed \in {"cancelFirst", "delayFirst"}
Done(w, deed, v) ==
  /\ Consistent(v) /\ v.time = w.time /\ v.ran = w.ran
  /\ Len(w.units) <= Len(v.units) /\ ToSet(v.handlers) \subseteq ToSet(w.handlers)
  /\ \A e \in w.scheduled : e \in v.scheduled \/ (e.id = 1 /\ Meddles(deed))
  /\ \A id \in Scheduled(w) : id \in Scheduled(v) \/ (id = 1 /\ deed = "cancelFirst")

LEMMA DoneBy ==
  ASSUME NEW w, Consistent(w), NEW deed, NEW v, Consistent(v), SameMission(w, v),
         v.time = w.time, v.ran = w.ran,
         \A e \in w.scheduled : e \in v.scheduled \/ (e.id = 1 /\ Meddles(deed)),
         \A id \in Scheduled(w) : id \in Scheduled(v) \/ (id = 1 /\ deed = "cancelFirst")
  PROVE  Done(w, deed, v)
<1>1. w \in Worlds
  BY DEF Consistent
<1>2. Len(w.units) <= Len(v.units)
  BY <1>1, Lists DEF SameMission
<1> QED BY <1>2 DEF Done, SameMission

LEMMA DoOk ==
  ASSUME NEW w, Consistent(w), NEW deed
  PROVE  Done(w, deed, Do(w, deed))
<1>1. w \in Worlds /\ w.time \in Nat
  BY FieldTypes DEF Consistent
<1>2. CASE deed = "raise"
  <2> DEFINE v == [w EXCEPT !.error = TRUE]
  <2>1. Do(w, deed) = v
    BY <1>2 DEF Do
  <2> DEFINE yes == TRUE
  <2>2. v = Talked(w, w.handlers, w.births, yes) /\ yes \in BOOLEAN
    BY <1>1 DEF Worlds, Talked
  <2>3. w.handlers \in Seq(Handlers) /\ Distinct(w.handlers) /\ w.births \in Seq(BirthRecords)
    BY <1>1, FieldTypes DEF Consistent
  <2> HIDE DEF v, yes
  <2>4. /\ Consistent(v) /\ v.units = w.units /\ v.handlers = w.handlers
        /\ v.time = w.time /\ v.scheduled = w.scheduled /\ v.ran = w.ran
    BY <2>2, <2>3, WithTalk
  <2>5. Len(w.units) <= Len(v.units)
    BY <1>1, <2>4, Lists
  <2> QED BY <2>1, <2>4, <2>5 DEF Done, Scheduled
<1>3. CASE deed = "spawn"
  <2> DEFINE name == CHOOSE name \in Names : TRUE
             v == spawnGroup(w, name, 1)
  <2>1. Do(w, deed) = v
    BY <1>3 DEF Do
  <2>2. name \in Names
    BY NamesAssumption
  <2> HIDE DEF name
  <2>3. v \in After(w)
    BY <2>2, SpawnGroupOk
  <2> HIDE DEF v
  <2>4. Consistent(v) /\ Extends(w, v)
    BY <2>3, AfterIs
  <2> QED BY <2>1, <2>4 DEF Done, Extends, Scheduled
<1>4. CASE deed = "cancelFirst"
  <2> DEFINE v == removeFunction(w, 1)
  <2>1. Do(w, deed) = v
    BY <1>4 DEF Do
  <2>2. /\ Consistent(v) /\ SameMission(w, v) /\ v.time = w.time /\ v.ran = w.ran
        /\ \A e \in w.scheduled : e.id # 1 => e \in v.scheduled
        /\ Scheduled(v) = Scheduled(w) \ {1}
    BY RemoveOk
  <2> HIDE DEF v
  <2>3. Done(w, deed, v)
    BY <1>4, <2>2, DoneBy DEF Meddles
  <2> QED BY <2>1, <2>3
<1>5. CASE deed = "delayFirst"
  <2> DEFINE at == w.time + 2
             v == setFunctionTime(w, 1, at)
  <2>1. Do(w, deed) = v /\ at \in Nat
    BY <1>1, <1>5 DEF Do
  <2> HIDE DEF at
  <2>2. /\ Consistent(v) /\ SameMission(w, v) /\ v.time = w.time /\ v.ran = w.ran
        /\ \A e \in w.scheduled : e.id # 1 => e \in v.scheduled
        /\ Scheduled(v) = Scheduled(w)
    BY <2>1, SetTimeOk
  <2> HIDE DEF v
  <2>3. Done(w, deed, v)
    BY <1>5, <2>2, DoneBy DEF Meddles
  <2> QED BY <2>1, <2>3
<1>6. CASE deed = "schedule"
  <2> DEFINE v == scheduleFunction(w, w.time, "nothing", Nothing)
  <2>1. Do(w, deed) = v
    BY <1>6 DEF Do
  <2>2. Nothing \in Nat /\ "nothing" \in Deeds \cup {"nothing"}
    BY DEF Nothing
  <2>3. /\ Consistent(v) /\ SameMission(w, v) /\ v.time = w.time /\ v.ran = w.ran
        /\ w.scheduled \subseteq v.scheduled
    BY <1>1, <2>2, ScheduleOk
  <2> HIDE DEF v
  <2>4. Scheduled(w) \subseteq Scheduled(v)
    BY <2>3 DEF Scheduled
  <2>5. Done(w, deed, v)
    BY <2>3, <2>4, DoneBy
  <2> QED BY <2>1, <2>5
<1>7. CASE deed \notin {"raise", "spawn", "cancelFirst", "delayFirst", "schedule"}
  <2>1. Do(w, deed) = w
    BY <1>7 DEF Do
  <2>2. SameMission(w, w)
    BY DEF SameMission
  <2> QED BY <2>1, <2>2, DoneBy
<1> QED BY <1>2, <1>3, <1>4, <1>5, <1>6, <1>7

LEMMA AfterRunOk ==
  ASSUME NEW w, Consistent(w), NEW e \in Entries
  PROVE  LET v == AfterRun(w, e)
         IN /\ Consistent(v) /\ SameMission(w, v) /\ v.time = w.time /\ v.ran = w.ran
            /\ \A f \in w.scheduled : f.id # e.id => f \in v.scheduled
            /\ \A id \in Scheduled(w) : id # e.id => id \in Scheduled(v)
            /\ w.error => e.id \notin Scheduled(v)
<1> DEFINE at == Larger(w.time + e.again - 1, w.time + 1)
<1>1. w.time \in Nat /\ e.again \in Nat
  BY FieldTypes DEF Consistent, Entries
<1>2. CASE w.error \/ e.again = Nothing
  <2>1. AfterRun(w, e) = removeFunction(w, e.id)
    BY <1>2 DEF AfterRun
  <2> QED BY <2>1, RemoveOk
<1>3. CASE ~(w.error \/ e.again = Nothing)
  <2>1. AfterRun(w, e) = setFunctionTime(w, e.id, at)
    BY <1>3 DEF AfterRun
  <2>2. at \in Nat
    BY <1>1, <1>3 DEF Nothing, Larger
  <2> HIDE DEF at
  <2> QED BY <1>3, <2>1, <2>2, SetTimeOk
<1> QED BY <1>2, <1>3

-----------------------------------------------------------------------------
(* advanceTime.                                                             *)

LEMMA NextDueIs ==
  ASSUME NEW due, due \subseteq Entries, due # {}
  PROVE  NextDue(due) \in due /\ \A f \in due : NextDue(due).time <= f.time
<1> DEFINE times == {e.time : e \in due}
<1>1. times \subseteq Nat /\ times # {}
  BY DEF Entries
<1>2. \A n \in times : \E e \in due : e.time = n
  OBVIOUS
<1>3. \A e \in due : e.time \in times
  OBVIOUS
<1> HIDE DEF times
<1>4. PICK n \in times : \A m \in times : n <= m
  BY <1>1, SmallestOf
<1> DEFINE first == {e \in due : e.time = n}
           ids == {e.id : e \in first}
<1>5. ids \subseteq Nat /\ ids # {}
  BY <1>2 DEF Entries
<1>6. \A i \in ids : \E e \in first : e.id = i
  OBVIOUS
<1>7. \A e \in first : e.id \in ids
  OBVIOUS
<1> HIDE DEF ids
<1>8. PICK i \in ids : \A j \in ids : i <= j
  BY <1>5, SmallestOf
<1>9. PICK e \in due : e.time = n /\ e.id = i
  BY <1>6
<1>10. \A f \in due : f.time = n => i <= f.id
  BY <1>7, <1>8
<1>11. ASSUME NEW f \in due PROVE e.time < f.time \/ (e.time = f.time /\ e.id <= f.id)
  <2>1. n <= f.time /\ n \in Nat /\ f.time \in Nat
    BY <1>1, <1>3, <1>4
  <2> QED BY <1>9, <1>10, <2>1
<1> DEFINE Earliest(x) == \A f \in due : x.time < f.time \/ (x.time = f.time /\ x.id <= f.id)
           least == CHOOSE x \in due : Earliest(x)
<1>12. least \in due /\ Earliest(least)
  BY <1>9, <1>11
<1>13. NextDue(due) = least
  BY DEF NextDue, EarliestOf
<1>14. \A x \in due : x.time \in Nat
  BY DEF Entries
<1> HIDE DEF least
<1>15. \A f \in due : least.time <= f.time
  BY <1>12, <1>14
<1> QED BY <1>12, <1>13, <1>15

(* One round of the loop: e is the function that runs.                      *)
RunOf(w, e) == [id |-> e.id, due |-> e.time, deed |-> e.deed, at |-> Larger(w.time, e.time)]
Runs(w, target, e, v) ==
  /\ e \in w.scheduled /\ e \in Entries /\ e.time <= target
  /\ \A f \in w.scheduled : f.time <= target => e.time <= f.time
  /\ Consistent(v) /\ v.time = Larger(w.time, e.time) /\ v.ran = Append(w.ran, RunOf(w, e))
  /\ Len(w.units) <= Len(v.units) /\ ToSet(v.handlers) \subseteq ToSet(w.handlers)
  /\ \A f \in w.scheduled : f \in v.scheduled \/ f.id = e.id \/ (f.id = 1 /\ Meddles(e.deed))
  /\ \A id \in Scheduled(w) : id \in Scheduled(v) \/ id = e.id \/ (id = 1 /\ e.deed = "cancelFirst")
  /\ v.error => e.id \notin Scheduled(v)

(* A run is noted before the function is called.                            *)
Noted(w, at, ran) == [w EXCEPT !.time = at, !.ran = ran]

LEMMA ThenRun ==
  ASSUME NEW w, Consistent(w), NEW at \in Nat, NEW ran \in Seq(RunRecords), NEW v,
         v = Noted(w, at, ran)
  PROVE  /\ Consistent(v) /\ SameMission(w, v) /\ v.scheduled = w.scheduled
         /\ v.lastId = w.lastId /\ v.time = at /\ v.ran = ran
<1>1. w \in Worlds
  BY DEF Consistent
<1>2. /\ v \in Worlds /\ SameMission(w, v) /\ v.scheduled = w.scheduled
      /\ v.lastId = w.lastId /\ v.time = at /\ v.ran = ran
  BY <1>1 DEF Worlds, SameMission, Noted
<1>3. Consistent(v)
  BY <1>2 DEF Consistent, SameMission
<1> QED BY <1>2, <1>3

LEMMA RunNextIs ==
  ASSUME NEW w, Consistent(w), NEW target \in Nat, Due(w, target) # {}
  PROVE  \E e : Runs(w, target, e, RunNext(w, target))
<1> DEFINE e == NextDue(Due(w, target))
           at == Larger(w.time, e.time)
           ran == Append(w.ran, RunOf(w, e))
           now == [w EXCEPT !.time = at, !.ran = ran]
           did == Do(now, e.deed)
           v == AfterRun(did, e)
<1>1. w \in Worlds /\ w.time \in Nat /\ w.scheduled \subseteq Entries /\ w.ran \in Seq(RunRecords)
  BY FieldTypes DEF Consistent
<1>2. v = RunNext(w, target)
  BY DEF RunNext, RunOf
<1>3. \A f : f \in Due(w, target) <=> f \in w.scheduled /\ f.time <= target
  BY DEF Due
<1>4. e \in w.scheduled /\ e \in Entries /\ e.time <= target
      /\ \A f \in w.scheduled : f.time <= target => e.time <= f.time
  <2>1. Due(w, target) \subseteq Entries
    BY <1>1, <1>3
  <2>2. e \in Due(w, target) /\ \A f \in Due(w, target) : e.time <= f.time
    BY <2>1, NextDueIs
  <2> HIDE DEF e
  <2> QED BY <1>1, <1>3, <2>2
<1> HIDE DEF e
<1>5. at \in Nat /\ RunOf(w, e) \in RunRecords
  BY <1>1, <1>4 DEF Larger, Entries, RunRecords, RunOf
<1>6. ran \in Seq(RunRecords)
  BY <1>1, <1>5
<1> HIDE DEF ran, at
<1>7. /\ Consistent(now) /\ SameMission(w, now) /\ now.scheduled = w.scheduled
      /\ now.time = at /\ now.ran = ran
  <2>1. now = Noted(w, at, ran)
    BY DEF Noted
  <2> HIDE DEF now
  <2> QED BY <1>5, <1>6, <2>1, ThenRun
<1> HIDE DEF now
<1>8. Done(now, e.deed, did)
  BY <1>7, DoOk
<1> HIDE DEF did
<1>9. Consistent(did) /\ did.time = at /\ did.ran = ran
  BY <1>7, <1>8 DEF Done
<1>10. /\ Consistent(v) /\ SameMission(did, v) /\ v.time = did.time /\ v.ran = did.ran
       /\ \A f \in did.scheduled : f.id # e.id => f \in v.scheduled
       /\ \A id \in Scheduled(did) : id # e.id => id \in Scheduled(v)
       /\ did.error => e.id \notin Scheduled(v)
  BY <1>4, <1>9, AfterRunOk
<1> HIDE DEF v
<1>11. Consistent(v) /\ v.time = at /\ v.ran = ran
  BY <1>9, <1>10
<1>12. Len(w.units) <= Len(v.units) /\ ToSet(v.handlers) \subseteq ToSet(w.handlers)
  <2>1. Len(now.units) <= Len(did.units) /\ ToSet(did.handlers) \subseteq ToSet(now.handlers)
    BY <1>8 DEF Done
  <2> QED BY <1>7, <1>10, <2>1 DEF SameMission
<1>13. \A f \in w.scheduled : f \in v.scheduled \/ f.id = e.id \/ (f.id = 1 /\ Meddles(e.deed))
  <2>1. \A f \in w.scheduled : f \in did.scheduled \/ (f.id = 1 /\ Meddles(e.deed))
    BY <1>7, <1>8 DEF Done
  <2> QED BY <1>10, <2>1
<1>14. \A id \in Scheduled(w) : id \in Scheduled(v) \/ id = e.id \/ (id = 1 /\ e.deed = "cancelFirst")
  <2>1. Scheduled(now) = Scheduled(w)
    BY <1>7 DEF Scheduled
  <2>2. \A id \in Scheduled(w) : id \in Scheduled(did) \/ (id = 1 /\ e.deed = "cancelFirst")
    BY <1>8, <2>1 DEF Done
  <2> QED BY <1>10, <2>2
<1>15. v.error => e.id \notin Scheduled(v)
  BY <1>10 DEF SameMission
<1>16. Runs(w, target, e, v)
  BY <1>4, <1>11, <1>12, <1>13, <1>14, <1>15 DEF Runs, at, ran
<1> QED BY <1>2, <1>16

(* What holds of world v, target being the time to advance to, when b was   *)
(* the world at the beginning.                                              *)
LastAt(b, v) == IF v.ran = <<>> THEN b.time ELSE v.ran[Len(v.ran)].at
Before(b, ran, i) == IF i = 1 THEN b.time ELSE ran[i - 1].at

InOrder(b, ran, i) ==
  /\ ran[i].at = Larger(ran[i].due, Before(b, ran, i))
  /\ \A e \in b.scheduled :
       e.time < ran[i].due /\ ~(e.id = 1 /\ \E k \in 1..i : Meddles(ran[k].deed))
         => \E k \in 1..i : ran[k].id = e.id

Advancing(b, target, v) ==
  /\ Consistent(v)
  /\ v.time = LastAt(b, v) /\ v.time <= target
  /\ \A i \in DOMAIN v.ran : InOrder(b, v.ran, i) /\ v.ran[i].at <= v.time
  /\ \A e \in b.scheduled : \/ e \in v.scheduled
                            \/ \E k \in DOMAIN v.ran : v.ran[k].id = e.id
                            \/ e.id = 1 /\ \E k \in DOMAIN v.ran : Meddles(v.ran[k].deed)
  /\ \A id \in Scheduled(b) : \/ id \in Scheduled(v) \/ id \in Ran(v)
                              \/ id = 1 /\ \E k \in DOMAIN v.ran : v.ran[k].deed = "cancelFirst"
  /\ v.error => v.ran # <<>> /\ v.ran[Len(v.ran)].id \notin Scheduled(v)
  /\ Len(b.units) <= Len(v.units) /\ ToSet(v.handlers) \subseteq ToSet(b.handlers)

LEMMA AdvancingFirst ==
  ASSUME NEW b, Consistent(b), b.ran = <<>>, ~b.error, NEW target \in Nat, b.time <= target
  PROVE  Advancing(b, target, b)
<1>1. b \in Worlds
  BY DEF Consistent
<1>2. b.time = LastAt(b, b)
  BY DEF LastAt
<1>3. DOMAIN b.ran = {}
  OBVIOUS
<1>4. Len(b.units) <= Len(b.units)
  BY <1>1, Lists
<1> QED BY <1>2, <1>3, <1>4 DEF Advancing

LEMMA AdvancingNext ==
  ASSUME NEW b, Consistent(b), NEW target \in Nat, NEW w, Advancing(b, target, w), ~w.error,
         NEW e, NEW v, Runs(w, target, e, v)
  PROVE  Advancing(b, target, v)
<1> DEFINE n == Len(w.ran)
<1>1. /\ w \in Worlds /\ v \in Worlds /\ b \in Worlds /\ Consistent(v)
      /\ w.time \in Nat /\ e.time \in Nat /\ b.time \in Nat
  BY FieldTypes DEF Advancing, Runs, Consistent, Entries
<1>2. n \in Nat /\ w.ran \in Seq(RunRecords) /\ v.ran = Append(w.ran, RunOf(w, e))
      /\ RunOf(w, e) \in RunRecords
  <2>1. RunOf(w, e) \in RunRecords
    BY <1>1 DEF Runs, RunOf, RunRecords, Entries, Larger
  <2> QED BY <1>1, <2>1, FieldTypes DEF Runs
<1>3. Len(v.ran) = n + 1 /\ DOMAIN v.ran = 1..(n + 1) /\ DOMAIN w.ran = 1..n /\ v.ran # <<>>
  BY <1>2
<1>4. (\A i \in 1..n : v.ran[i] = w.ran[i]) /\ v.ran[n + 1] = RunOf(w, e)
  BY <1>2
<1>5. \A i : i \in 1..(n + 1) <=> i \in 1..n \/ i = n + 1
  BY <1>2
<1>6. n = 0 <=> w.ran = <<>>
  BY <1>2
<1> HIDE DEF n
<1>7. RunOf(w, e).id = e.id /\ RunOf(w, e).due = e.time /\ RunOf(w, e).deed = e.deed
      /\ RunOf(w, e).at = v.time
  BY DEF RunOf, Runs
<1>8. v.time = Larger(w.time, e.time) /\ e.time <= target /\ w.time <= target
  BY DEF Runs, Advancing
<1>9. v.time <= target /\ w.time <= v.time /\ v.time \in Nat
  BY <1>1, <1>8 DEF Larger
<1>10. v.time = LastAt(b, v)
  BY <1>3, <1>4, <1>7 DEF LastAt
<1>11. ASSUME NEW i \in 1..n PROVE InOrder(b, v.ran, i) /\ v.ran[i].at <= v.time
  <2>1. InOrder(b, w.ran, i) /\ w.ran[i].at <= w.time
    BY <1>3 DEF Advancing
  <2>2. \A k \in 1..i : k \in 1..n
    BY <1>2
  <2>3. Before(b, v.ran, i) = Before(b, w.ran, i)
    <3>1. CASE i = 1
      BY <3>1 DEF Before
    <3>2. CASE i # 1
      <4>1. i - 1 \in 1..n
        BY <1>2, <3>2
      <4> QED BY <1>4, <3>2, <4>1 DEF Before
    <3> QED BY <3>1, <3>2
  <2>4. v.ran[i] = w.ran[i] /\ \A k \in 1..i : v.ran[k] = w.ran[k]
    BY <1>4, <2>2
  <2>5. InOrder(b, v.ran, i)
    BY <2>1, <2>3, <2>4 DEF InOrder
  <2>6. w.ran[i].at \in Nat
    <3>1. w.ran[i] \in RunRecords
      BY <1>2, <1>3
    <3> QED BY <3>1 DEF RunRecords
  <2> QED BY <1>1, <1>9, <2>1, <2>4, <2>5, <2>6
<1>12. InOrder(b, v.ran, n + 1) /\ v.ran[n + 1].at <= v.time
  <2>1. Before(b, v.ran, n + 1) = w.time
    <3>1. w.time = LastAt(b, w)
      BY DEF Advancing
    <3>2. CASE n = 0
      BY <1>6, <3>1, <3>2 DEF Before, LastAt
    <3>3. CASE n # 0
      <4>1. n \in 1..n /\ n + 1 # 1 /\ (n + 1) - 1 = n
        BY <1>2, <3>3
      <4>2. w.time = w.ran[n].at
        BY <1>6, <3>1, <3>3 DEF LastAt, n
      <4> QED BY <1>4, <4>1, <4>2 DEF Before
    <3> QED BY <3>2, <3>3
  <2>2. v.time = Larger(e.time, w.time)
    BY <1>1, <1>8 DEF Larger
  <2>3. ASSUME NEW f \in b.scheduled, f.time < e.time,
               ~(f.id = 1 /\ \E k \in 1..(n + 1) : Meddles(v.ran[k].deed))
        PROVE  \E k \in 1..(n + 1) : v.ran[k].id = f.id
    <3>1. CASE f \in w.scheduled
      <4>1. f.time \in Nat
        BY <1>1, <3>1, FieldTypes DEF Entries
      <4>2. f.time <= target
        BY <1>1, <1>8, <2>3, <4>1
      <4>3. e.time <= f.time
        BY <3>1, <4>2 DEF Runs
      <4> QED BY <1>1, <2>3, <4>1, <4>3
    <3>2. CASE \E k \in 1..n : w.ran[k].id = f.id
      BY <1>4, <1>5, <3>2
    <3>3. CASE f.id = 1 /\ \E k \in 1..n : Meddles(w.ran[k].deed)
      BY <1>4, <1>5, <2>3, <3>3
    <3> QED BY <1>3, <3>1, <3>2, <3>3 DEF Advancing
  <2> QED BY <1>4, <1>7, <1>9, <2>1, <2>2, <2>3 DEF InOrder
<1>13. \A i \in DOMAIN v.ran : InOrder(b, v.ran, i) /\ v.ran[i].at <= v.time
  BY <1>3, <1>5, <1>11, <1>12
<1>14. ASSUME NEW f \in b.scheduled
       PROVE  \/ f \in v.scheduled
              \/ \E k \in DOMAIN v.ran : v.ran[k].id = f.id
              \/ f.id = 1 /\ \E k \in DOMAIN v.ran : Meddles(v.ran[k].deed)
  <2>1. CASE f \in w.scheduled
    <3>1. f \in v.scheduled \/ f.id = e.id \/ (f.id = 1 /\ Meddles(e.deed))
      BY <2>1 DEF Runs
    <3> QED BY <1>3, <1>4, <1>5, <1>7, <3>1
  <2>2. CASE \E k \in 1..n : w.ran[k].id = f.id
    BY <1>3, <1>4, <1>5, <2>2
  <2>3. CASE f.id = 1 /\ \E k \in 1..n : Meddles(w.ran[k].deed)
    BY <1>3, <1>4, <1>5, <2>3
  <2> QED BY <1>3, <2>1, <2>2, <2>3 DEF Advancing
<1>15. ASSUME NEW id \in Scheduled(b)
       PROVE  \/ id \in Scheduled(v) \/ id \in Ran(v)
              \/ id = 1 /\ \E k \in DOMAIN v.ran : v.ran[k].deed = "cancelFirst"
  <2>1. Ran(w) \subseteq Ran(v) /\ e.id \in Ran(v)
    BY <1>3, <1>4, <1>5, <1>7 DEF Ran
  <2>2. CASE id \in Scheduled(w)
    <3>1. id \in Scheduled(v) \/ id = e.id \/ (id = 1 /\ e.deed = "cancelFirst")
      BY <2>2 DEF Runs
    <3> QED BY <1>3, <1>4, <1>5, <1>7, <2>1, <3>1
  <2>3. CASE id \in Ran(w)
    BY <2>1, <2>3
  <2>4. CASE id = 1 /\ \E k \in 1..n : w.ran[k].deed = "cancelFirst"
    BY <1>3, <1>4, <1>5, <2>4
  <2> QED BY <1>3, <2>2, <2>3, <2>4 DEF Advancing
<1>16. v.error => v.ran # <<>> /\ v.ran[Len(v.ran)].id \notin Scheduled(v)
  BY <1>3, <1>4, <1>7 DEF Runs
<1>17. Len(b.units) <= Len(v.units) /\ ToSet(v.handlers) \subseteq ToSet(b.handlers)
  <2>1. Len(b.units) \in Nat /\ Len(w.units) \in Nat /\ Len(v.units) \in Nat
    BY <1>1, Lists
  <2>2. /\ Len(b.units) <= Len(w.units) /\ ToSet(w.handlers) \subseteq ToSet(b.handlers)
        /\ Len(w.units) <= Len(v.units) /\ ToSet(v.handlers) \subseteq ToSet(w.handlers)
    BY DEF Advancing, Runs
  <2> QED BY <2>1, <2>2
<1> QED BY <1>1, <1>9, <1>10, <1>13, <1>14, <1>15, <1>16, <1>17 DEF Advancing

(* The worlds that advanceTime goes through.                                *)
Rounds(w, target, after) ==
  /\ after \in [0..MaxRuns -> {v \in Worlds : Consistent(v)}]
  /\ after[0] = w
  /\ \A n \in 1..MaxRuns :
       after[n] = IF Ended(after[n - 1], target) THEN after[n - 1] ELSE RunNext(after[n - 1], target)

LEMMA RunDueIs ==
  ASSUME NEW w, Consistent(w), NEW target \in Nat
  PROVE  \E after : Rounds(w, target, after) /\ RunDue(w, target) = after[MaxRuns]
<1> DEFINE m == MaxRuns
           V == {v \in Worlds : Consistent(v)}
           at(v) == IF Ended(v, target) THEN v ELSE RunNext(v, target)
           step == [i \in 1..m |-> [v \in V |-> at(v)]]
           Loop(g) == g = [n \in 0..m |-> IF n = 0 THEN w ELSE at(g[n - 1])]
           after == CHOOSE g : Loop(g)
<1>1. m \in Nat
  BY BoundsAssumption
<1>2. w \in V
  BY DEF Consistent
<1>3. ASSUME NEW v \in V PROVE at(v) \in V
  <2>1. CASE Ended(v, target)
    BY <2>1
  <2>2. CASE ~Ended(v, target)
    <3> DEFINE x == RunNext(v, target)
    <3>1. Due(v, target) # {} /\ Consistent(v)
      BY <2>2 DEF Ended
    <3>2. \E e : Runs(v, target, e, x)
      BY <3>1, RunNextIs
    <3> HIDE DEF x
    <3>3. x \in V
      BY <3>2 DEF Runs, Consistent
    <3> QED BY <2>2, <3>3 DEF x
  <2> QED BY <2>1, <2>2
<1>4. step \in [1..m -> [V -> V]] /\ \A i \in 1..m : \A v \in V : step[i][v] = at(v)
  BY <1>3
<1>5. RunDue(w, target) = after[m]
  BY Zenon DEF RunDue
<1> HIDE DEF step, V, at, m
<1>6. PICK g \in [0..m -> V] : Recursion(m, w, step, g)
  BY <1>1, <1>2, <1>4, RecursionExists
<1>7. \A i \in 1..m : i \in 0..m /\ i - 1 \in 0..m /\ i # 0 /\ i \in Nat
  BY <1>1, Predecessors
<1>8. g = [i \in 0..m |-> IF i = 0 THEN w ELSE step[i][g[i - 1]]]
  BY <1>6 DEF Recursion
<1>9. ASSUME NEW i \in 0..m PROVE g[i] = IF i = 0 THEN w ELSE at(g[i - 1])
  <2>1. i # 0 => i \in 1..m
    BY <1>1
  <2> QED BY <1>4, <1>7, <1>8, <2>1
<1>10. Loop(g)
  BY <1>6, <1>9
<1>11. Loop(after)
  BY <1>10
<1> HIDE DEF after
<1>12. after[0] = w /\ \A i \in 1..m : after[i] = at(after[i - 1])
  BY <1>1, <1>7, <1>11
<1>13. \A i \in 0..m : after[i] \in V
  <2>1. \A i \in 1..m : after[i - 1] \in V => after[i] = step[i][after[i - 1]]
    BY <1>4, <1>12
  <2> QED BY <1>1, <1>2, <1>4, <1>12, <2>1, RecursionStays
<1>14. after \in [0..m -> V]
  BY <1>11, <1>13
<1>15. Rounds(w, target, after)
  BY <1>12, <1>14 DEF Rounds, V, at, m
<1> QED BY <1>5, <1>15 DEF m

LEMMA RunDueOk ==
  ASSUME NEW b, Consistent(b), b.ran = <<>>, ~b.error, NEW target \in Nat, b.time <= target
  PROVE  Advancing(b, target, RunDue(b, target))
<1>1. PICK after : Rounds(b, target, after) /\ RunDue(b, target) = after[MaxRuns]
  BY RunDueIs
<1>2. MaxRuns \in Nat
  BY BoundsAssumption
<1> DEFINE T == {n \in Nat : n \in 0..MaxRuns => Advancing(b, target, after[n])}
<1>3. 0 \in T
  BY <1>1, AdvancingFirst DEF Rounds
<1>4. ASSUME NEW n \in Nat, n \in T PROVE n + 1 \in T
  <2> SUFFICES ASSUME n + 1 \in 0..MaxRuns PROVE Advancing(b, target, after[n + 1])
    OBVIOUS
  <2> DEFINE w == after[n]
  <2>1. n \in 0..MaxRuns /\ n + 1 \in 1..MaxRuns /\ (n + 1) - 1 = n
    BY <1>2
  <2>2. Advancing(b, target, w)
    BY <1>4, <2>1
  <2>3. after[n + 1] = IF Ended(w, target) THEN w ELSE RunNext(w, target)
    BY <1>1, <2>1 DEF Rounds
  <2> HIDE DEF w
  <2>4. CASE Ended(w, target)
    BY <2>2, <2>3, <2>4
  <2>5. CASE ~Ended(w, target)
    <3>1. Due(w, target) # {} /\ ~w.error /\ Consistent(w)
      BY <2>2, <2>5 DEF Ended, Advancing
    <3>2. PICK e : Runs(w, target, e, RunNext(w, target))
      BY <3>1, RunNextIs
    <3>3. Advancing(b, target, RunNext(w, target))
      BY <2>2, <3>1, <3>2, AdvancingNext
    <3> QED BY <2>3, <2>5, <3>3
  <2> QED BY <2>4, <2>5
<1> HIDE DEF T
<1>5. MaxRuns \in T
  BY <1>2, <1>3, <1>4, NatSetInduction
<1> QED BY <1>1, <1>2, <1>5 DEF T

(* What one call of advanceTime has done.                                   *)
Advanced(b, x) ==
  /\ Consistent(x)
  /\ \A i \in DOMAIN x.ran : InOrder(b, x.ran, i) /\ x.ran[i].at <= x.time
  /\ \A id \in Scheduled(b) : \/ id \in Scheduled(x) \/ id \in Ran(x)
                              \/ id = 1 /\ \E k \in DOMAIN x.ran : x.ran[k].deed = "cancelFirst"
  /\ x.error => /\ x.ran # <<>> /\ x.ran[Len(x.ran)].id \notin Scheduled(x)
                /\ x.time = x.ran[Len(x.ran)].at
  /\ ~x.error => \A e \in x.scheduled : e.time > x.time

LEMMA AdvanceOk ==
  ASSUME NEW b, Consistent(b), b.ran = <<>>, ~b.error, NEW ticks \in Nat,
         Ended(RunDue(b, b.time + ticks), b.time + ticks)
  PROVE  Advanced(b, advanceTime(b, ticks))
<1> DEFINE target == b.time + ticks
           v == RunDue(b, target)
           x == advanceTime(b, ticks)
<1>1. b.time \in Nat /\ target \in Nat /\ b.time <= target
  BY FieldTypes DEF Consistent
<1>2. x = IF v.error THEN v ELSE [v EXCEPT !.time = target]
  BY DEF advanceTime
<1>3. Ended(v, target)
  OBVIOUS
<1> HIDE DEF target
<1>4. Advancing(b, target, v)
  BY <1>1, RunDueOk
<1> HIDE DEF v, x
<1>5. /\ Consistent(v) /\ v \in Worlds /\ v.time \in Nat /\ v.time <= target
      /\ v.ran \in Seq(RunRecords) /\ v.scheduled \in SUBSET Entries
  BY <1>4, FieldTypes DEF Advancing, Consistent
<1>6. CASE v.error
  <2>1. x = v
    BY <1>2, <1>6
  <2>2. v.ran # <<>> /\ v.time = LastAt(b, v)
    BY <1>4, <1>6 DEF Advancing
  <2>3. v.time = v.ran[Len(v.ran)].at
    BY <2>2 DEF LastAt
  <2> QED BY <1>4, <1>6, <2>1, <2>2, <2>3 DEF Advanced, Advancing, x
<1>7. CASE ~v.error
  <2> DEFINE ran == v.ran
  <2>1. x = Noted(v, target, ran) /\ ran \in Seq(RunRecords) /\ ran = v.ran
    BY <1>2, <1>5, <1>7 DEF Noted, Worlds
  <2> HIDE DEF ran
  <2>2. /\ Consistent(x) /\ SameMission(v, x) /\ x.scheduled = v.scheduled
        /\ x.time = target /\ x.ran = v.ran
    <3>1. Consistent(v) /\ target \in Nat
      BY <1>1, <1>5
    <3>2. /\ Consistent(x) /\ SameMission(v, x) /\ x.scheduled = v.scheduled
          /\ x.time = target /\ x.ran = ran
      BY <2>1, <3>1, ThenRun
    <3> QED BY <2>1, <3>2
  <2>3. ~x.error
    BY <1>7, <2>2 DEF SameMission
  <2>4. \A e \in x.scheduled : e.time > x.time
    <3>1. \A e \in v.scheduled : ~(e.time <= target) /\ e.time \in Nat
      BY <1>3, <1>5, <1>7 DEF Ended, Due, Entries
    <3> QED BY <1>1, <2>2, <3>1
  <2>5. \A i \in DOMAIN x.ran : InOrder(b, x.ran, i) /\ x.ran[i].at <= x.time
    <3> SUFFICES ASSUME NEW i \in DOMAIN v.ran PROVE InOrder(b, v.ran, i) /\ v.ran[i].at <= target
      BY <2>2
    <3>1. InOrder(b, v.ran, i) /\ v.ran[i].at <= v.time
      BY <1>4 DEF Advancing
    <3>2. v.ran[i] \in RunRecords
      BY <1>5
    <3>3. v.ran[i].at \in Nat
      BY <3>2 DEF RunRecords
    <3> QED BY <1>1, <1>5, <3>1, <3>3
  <2>6. Scheduled(x) = Scheduled(v) /\ Ran(x) = Ran(v)
    BY <2>2 DEF Scheduled, Ran
  <2>7. \A id \in Scheduled(b) : \/ id \in Scheduled(x) \/ id \in Ran(x)
                                 \/ id = 1 /\ \E k \in DOMAIN x.ran : x.ran[k].deed = "cancelFirst"
    BY <1>4, <2>2, <2>6 DEF Advancing
  <2> QED BY <2>2, <2>3, <2>4, <2>5, <2>7 DEF Advanced, x
<1> QED BY <1>6, <1>7

-----------------------------------------------------------------------------
(* The steps of the script.                                                 *)

Fresh(w) == [w EXCEPT !.births = <<>>, !.ran = <<>>, !.error = FALSE]

LEMMA FreshIs ==
  ASSUME NEW w, Consistent(w)
  PROVE  LET b == Fresh(w)
         IN /\ Consistent(b) /\ b.units = w.units /\ b.groups = w.groups /\ b.handlers = w.handlers
            /\ b.time = w.time /\ b.scheduled = w.scheduled /\ b.lastId = w.lastId
            /\ b.births = <<>> /\ b.ran = <<>> /\ ~b.error
<1> DEFINE b == Fresh(w)
<1>1. w \in Worlds
  BY DEF Consistent
<1>2. <<>> \in Seq(BirthRecords) /\ <<>> \in Seq(RunRecords)
  OBVIOUS
<1>3. /\ b \in Worlds /\ b.units = w.units /\ b.groups = w.groups /\ b.handlers = w.handlers
      /\ b.time = w.time /\ b.scheduled = w.scheduled /\ b.lastId = w.lastId
      /\ b.births = <<>> /\ b.ran = <<>> /\ ~b.error
  BY <1>1, <1>2 DEF Worlds, Fresh
<1> HIDE DEF b
<1>4. Consistent(b)
  BY <1>3 DEF Consistent
<1> QED BY <1>3, <1>4 DEF b

LEMMA AddHandlerOk ==
  ASSUME NEW w, Consistent(w), NEW h \in Handlers
  PROVE  LET v == addEventHandler(w, h)
         IN Consistent(v) /\ Units(v) = Units(w) /\ v.ran = w.ran
<1>1. w \in Worlds /\ w.handlers \in Seq(Handlers) /\ Distinct(w.handlers)
      /\ w.births \in Seq(BirthRecords) /\ w.error \in BOOLEAN
  BY FieldTypes DEF Consistent
<1>2. CASE h \in ToSet(w.handlers)
  BY <1>2 DEF addEventHandler
<1>3. CASE h \notin ToSet(w.handlers)
  <2> DEFINE hs == Append(w.handlers, h)
             v == addEventHandler(w, h)
             n == Len(w.handlers)
  <2>1. hs \in Seq(Handlers) /\ DOMAIN hs = 1..(n + 1) /\ n \in Nat /\ DOMAIN w.handlers = 1..n
    BY <1>1
  <2>2. (\A i \in 1..n : hs[i] = w.handlers[i]) /\ hs[n + 1] = h
    BY <1>1
  <2>3. v = [w EXCEPT !.handlers = hs]
    BY <1>3 DEF addEventHandler
  <2> HIDE DEF hs, v, n
  <2>4. \A i \in 1..n : w.handlers[i] # h
    BY <1>3, <2>1 DEF ToSet
  <2>5. \A i : i \in 1..(n + 1) <=> i \in 1..n \/ i = n + 1
    BY <2>1
  <2>6. Distinct(hs)
    BY <1>1, <2>1, <2>2, <2>4, <2>5 DEF Distinct
  <2>7. v = Talked(w, hs, w.births, w.error)
    BY <1>1, <2>3 DEF Talked, Worlds
  <2>8. Consistent(v) /\ v.units = w.units /\ v.ran = w.ran
    BY <1>1, <2>1, <2>6, <2>7, WithTalk
  <2> QED BY <2>8 DEF v, Units
<1> QED BY <1>2, <1>3

(* A call that spawns nothing and runs nothing.                             *)
Quiet(w, x) == Consistent(x) /\ x.ran = <<>> /\ Units(x) = Units(w)

WorldInv == Consistent(world)

LEMMA StepIs ==
  ASSUME WorldInv, [WorldNext]_worldVars
  PROVE  \/ UNCHANGED worldVars
         \/ Quiet(world, world')
         \/ \E name \in Names, size \in Nat : world' = spawnGroup(Fresh(world), name, size)
         \/ \E ticks \in Nat : /\ world' = advanceTime(Fresh(world), ticks)
                               /\ Ended(RunDue(Fresh(world), world.time + ticks), world.time + ticks)
<1> DEFINE b == Fresh(world)
<1>1. Consistent(world) /\ world \in Worlds
  BY DEF WorldInv, Consistent
<1>2. /\ Consistent(b) /\ b.units = world.units /\ b.groups = world.groups
      /\ b.time = world.time /\ b.scheduled = world.scheduled /\ b.lastId = world.lastId
      /\ b.ran = <<>>
  BY <1>1, FreshIs
<1>3. Begun = b
  BY DEF Begun, Fresh
<1>4. b \in Worlds /\ b.time \in Nat
  BY <1>2, FieldTypes DEF Consistent
<1> HIDE DEF b
<1>5. Units(b) = Units(world) /\ Groups(b) = Groups(world)
  BY <1>2 DEF Units, Groups
<1>6. ASSUME NEW x, SameTalk(b, x) PROVE x.ran = <<>>
  BY <1>2, <1>6 DEF SameTalk, Extends
<1>7. ASSUME NEW x, SameMission(b, x) PROVE Units(x) = Units(world)
  BY <1>2, <1>7 DEF SameMission, Units
<1>8. ASSUME NEW name \in Names, DestroyGroup(name) PROVE Quiet(world, world')
  <2> DEFINE g == findGroup(world, name)
             x == destroyGroup(b, g)
  <2>1. world' = x /\ g # Nothing
    BY <1>3, <1>8 DEF DestroyGroup, Script
  <2>2. g \in Groups(b)
    BY <1>1, <1>5, <2>1, FindGroupIs
  <2> HIDE DEF g
  <2>3. Consistent(x) /\ SameTalk(b, x) /\ Units(x) = Units(b)
    BY <1>2, <2>2, DestroyGroupOk
  <2> HIDE DEF x
  <2> QED BY <1>5, <1>6, <2>1, <2>3 DEF Quiet
<1>9. ASSUME NEW name \in Names, NEW size \in 0..MaxSize, AddGroup(name, size)
      PROVE  \E nm \in Names, sz \in Nat : world' = spawnGroup(b, nm, sz)
  <2>1. world' = spawnGroup(b, name, size)
    BY <1>3, <1>9 DEF AddGroup, Script
  <2>2. size \in Nat
    BY BoundsAssumption
  <2> QED BY <2>1, <2>2
<1>10. ASSUME NEW u \in Units(world), DestroyUnit(u) PROVE Quiet(world, world')
  <2> DEFINE x == destroyObject(b, u)
  <2>1. world' = x
    BY <1>3, <1>10 DEF DestroyUnit, Script
  <2>2. Consistent(x) /\ SameTalk(b, x) /\ Units(x) = Units(b)
    BY <1>2, <1>5, DestroyObjectOk
  <2> HIDE DEF x
  <2> QED BY <1>5, <1>6, <2>1, <2>2 DEF Quiet
<1>11. ASSUME NEW h \in Handlers, AddEventHandler(h) PROVE Quiet(world, world')
  <2> DEFINE x == addEventHandler(b, h)
  <2>1. world' = x
    BY <1>3, <1>11 DEF AddEventHandler, Script
  <2>2. Consistent(x) /\ Units(x) = Units(b) /\ x.ran = b.ran
    BY <1>2, AddHandlerOk
  <2> HIDE DEF x
  <2> QED BY <1>2, <1>5, <2>1, <2>2 DEF Quiet
<1>12. ASSUME NEW h \in Handlers, RemoveEventHandler(h) PROVE Quiet(world, world')
  <2> DEFINE x == removeEventHandler(b, h)
  <2>1. world' = x
    BY <1>3, <1>12 DEF RemoveEventHandler, Script
  <2>2. Consistent(x) /\ Extends(b, x) /\ x.units = b.units
    BY <1>2, RemoveHandlerOk
  <2> HIDE DEF x
  <2> QED BY <1>2, <2>1, <2>2 DEF Quiet, Units, Extends
<1>13. ASSUME NEW delay \in 0..2, NEW deed \in Deeds, NEW again \in 0..2,
              ScheduleFunction(delay, deed, again)
       PROVE  Quiet(world, world')
  <2> DEFINE at == world.time + delay
             x == scheduleFunction(b, at, deed, again)
  <2>1. world' = x
    BY <1>3, <1>13 DEF ScheduleFunction, Script
  <2>2. at \in Nat /\ again \in Nat /\ deed \in Deeds \cup {"nothing"}
    BY <1>2, <1>4
  <2> HIDE DEF at
  <2>3. Consistent(x) /\ SameMission(b, x) /\ x.ran = b.ran
    BY <1>2, <2>2, ScheduleOk
  <2> HIDE DEF x
  <2> QED BY <1>2, <1>7, <2>1, <2>3 DEF Quiet
<1>14. ASSUME NEW id, NEW delay \in 0..2, SetFunctionTime(id, delay)
       PROVE  Quiet(world, world')
  <2> DEFINE at == world.time + delay
             x == setFunctionTime(b, id, at)
  <2>1. world' = x
    BY <1>3, <1>14 DEF SetFunctionTime, Script
  <2>2. at \in Nat
    BY <1>2, <1>4
  <2> HIDE DEF at
  <2>3. Consistent(x) /\ SameMission(b, x) /\ x.ran = b.ran
    BY <1>2, <2>2, SetTimeOk
  <2> HIDE DEF x
  <2> QED BY <1>2, <1>7, <2>1, <2>3 DEF Quiet
<1>15. ASSUME NEW id, RemoveFunction(id) PROVE Quiet(world, world')
  <2> DEFINE x == removeFunction(b, id)
  <2>1. world' = x
    BY <1>3, <1>15 DEF RemoveFunction, Script
  <2>2. Consistent(x) /\ SameMission(b, x) /\ x.ran = b.ran
    BY <1>2, RemoveOk
  <2> HIDE DEF x
  <2> QED BY <1>2, <1>7, <2>1, <2>2 DEF Quiet
<1>16. ASSUME NEW ticks \in 1..MaxAdvance, AdvanceTime(ticks)
       PROVE  \E t \in Nat : /\ world' = advanceTime(b, t)
                             /\ Ended(RunDue(b, world.time + t), world.time + t)
  <2>1. world' = advanceTime(b, ticks) /\ Ended(RunDue(b, world.time + ticks), world.time + ticks)
    BY <1>3, <1>16 DEF AdvanceTime, Script
  <2>2. ticks \in Nat
    BY BoundsAssumption
  <2> QED BY <2>1, <2>2
<1>17. CASE UNCHANGED worldVars
  BY <1>17
<1>18. CASE WorldNext
  BY <1>8, <1>9, <1>10, <1>11, <1>12, <1>13, <1>14, <1>15, <1>16, <1>18 DEF WorldNext, b
<1> QED BY <1>17, <1>18

LEMMA InitWorldInv == WorldInit => WorldInv
<1> SUFFICES ASSUME WorldInit PROVE Consistent(world)
  BY DEF WorldInv
<1>1. /\ world.units = <<>> /\ world.groups = <<>> /\ world.handlers = <<>>
  BY DEF WorldInit
<1>2. world \in Worlds
  <2>1. /\ <<>> \in Seq(UnitRecords) /\ <<>> \in Seq(GroupRecords) /\ <<>> \in Seq(Handlers)
        /\ <<>> \in Seq(BirthRecords) /\ <<>> \in Seq(RunRecords)
    OBVIOUS
  <2> QED BY <2>1 DEF WorldInit, Worlds
<1>3. Listed(world.units, world.groups) /\ Named(world.groups) /\ Distinct(world.handlers)
  BY <1>1 DEF Listed, Named, Distinct
<1> QED BY <1>2, <1>3 DEF Consistent

LEMMA NextWorldInv == WorldInv /\ [WorldNext]_worldVars => WorldInv'
<1> SUFFICES ASSUME WorldInv, [WorldNext]_worldVars PROVE Consistent(world')
  BY DEF WorldInv
<1> DEFINE b == Fresh(world)
<1>1. Consistent(world) /\ Consistent(b) /\ b.ran = <<>> /\ ~b.error /\ b.time = world.time
  BY FreshIs DEF WorldInv
<1> HIDE DEF b
<1>2. CASE UNCHANGED worldVars
  BY <1>1, <1>2 DEF worldVars
<1>3. CASE Quiet(world, world')
  BY <1>3 DEF Quiet
<1>4. ASSUME NEW name \in Names, NEW size \in Nat, world' = spawnGroup(b, name, size)
      PROVE  Consistent(world')
  BY <1>1, <1>4, SpawnGroupOk, AfterIs
<1>5. ASSUME NEW ticks \in Nat, world' = advanceTime(b, ticks),
             Ended(RunDue(b, b.time + ticks), b.time + ticks)
      PROVE  Consistent(world')
  BY <1>1, <1>5, AdvanceOk DEF Advanced
<1> QED BY <1>1, <1>2, <1>3, <1>4, <1>5, StepIs DEF b

(* SpecWorldInv.  Whatever handlers and scheduled functions do to each other *)
(* and to the groups, the mission is consistent after every call: units and  *)
(* groups agree, names of existing groups are unique, no handler is          *)
(* registered twice (state.ts, world.ts, environment.ts).                    *)
THEOREM SpecWorldInv == WorldSpec => []WorldInv
BY InitWorldInv, NextWorldInv, PTL DEF WorldSpec

(* SpecGroupsMatchUnits.  A unit exists exactly while an existing group lists *)
(* it, and no two existing groups have one name, also when a handler destroys *)
(* or respawns the group whose births are being reported (state.ts:           *)
(* destroyObject, destroyGroup; world.ts: spawnGroup).                        *)
THEOREM SpecGroupsMatchUnits == WorldSpec => []GroupsMatchUnits
<1>1. WorldInv => GroupsMatchUnits
  <2> SUFFICES ASSUME WorldInv PROVE GroupsMatchUnits
    OBVIOUS
  <2> DEFINE alive == {g \in Groups(world) : world.groups[g].exists}
  <2>1. Listed(world.units, world.groups) /\ Named(world.groups)
    BY DEF WorldInv, Consistent
  <2>2. \A u \in Units(world) : world.units[u].exists <=> \E g \in alive : u \in world.groups[g].unitIds
    BY <2>1 DEF Listed, Units, Groups
  <2>3. \A g, h \in alive : world.groups[g].name = world.groups[h].name => g = h
    BY <2>1 DEF Named, Groups
  <2> QED BY <2>2, <2>3 DEF GroupsMatchUnits
<1> QED BY <1>1, SpecWorldInv, PTL

(* SpecFunctionsRunInOrder.  advanceTime runs functions in the order of their *)
(* times and none before its time, even when they delay, cancel and schedule  *)
(* each other, and after an error that left some overdue (environment.ts:     *)
(* advanceTime).                                                              *)
THEOREM SpecFunctionsRunInOrder == WorldSpec => FunctionsRunInOrder
<1> DEFINE Order ==
      \A i \in DOMAIN world'.ran :
        LET r == world'.ran[i]
            before == IF i = 1 THEN world.time ELSE world'.ran[i - 1].at
        IN /\ r.at = Larger(r.due, before) /\ r.at <= world'.time
           /\ \A e \in world.scheduled :
                e.time < r.due /\ ~(e.id = 1 /\ \E k \in 1..i : world'.ran[k].deed \in {"cancelFirst", "delayFirst"})
                  => \E k \in 1..i : world'.ran[k].id = e.id
<1>1. WorldInv /\ [WorldNext]_worldVars => [Order]_worldVars
  <2> SUFFICES ASSUME WorldInv, [WorldNext]_worldVars PROVE [Order]_worldVars
    OBVIOUS
  <2> DEFINE b == Fresh(world)
  <2>1. /\ Consistent(b) /\ b.units = world.units /\ b.ran = <<>> /\ ~b.error
        /\ b.time = world.time /\ b.scheduled = world.scheduled
    BY FreshIs DEF WorldInv
  <2> HIDE DEF b
  <2>2. ASSUME world'.ran = <<>> PROVE Order
    BY <2>2
  <2>3. CASE UNCHANGED worldVars
    BY <2>3
  <2>4. CASE Quiet(world, world')
    BY <2>2, <2>4 DEF Quiet
  <2>5. ASSUME NEW name \in Names, NEW size \in Nat, world' = spawnGroup(b, name, size) PROVE Order
    <3>1. world' \in After(b)
      BY <2>1, <2>5, SpawnGroupOk
    <3>2. world'.ran = <<>>
      BY <2>1, <3>1, AfterIs DEF Extends
    <3> QED BY <2>2, <3>2
  <2>6. ASSUME NEW ticks \in Nat, world' = advanceTime(b, ticks),
               Ended(RunDue(b, b.time + ticks), b.time + ticks)
        PROVE  Order
    <3>1. Advanced(b, world')
      BY <2>1, <2>6, AdvanceOk
    <3> SUFFICES ASSUME NEW i \in DOMAIN world'.ran
                 PROVE  /\ world'.ran[i].at = Larger(world'.ran[i].due,
                             IF i = 1 THEN world.time ELSE world'.ran[i - 1].at)
                        /\ world'.ran[i].at <= world'.time
                        /\ \A e \in world.scheduled :
                             e.time < world'.ran[i].due
                             /\ ~(e.id = 1 /\ \E k \in 1..i : world'.ran[k].deed \in {"cancelFirst", "delayFirst"})
                               => \E k \in 1..i : world'.ran[k].id = e.id
      BY Zenon
    <3>2. InOrder(b, world'.ran, i) /\ world'.ran[i].at <= world'.time
      BY <3>1 DEF Advanced
    <3> QED BY <2>1, <3>2 DEF InOrder, Before, Meddles
  <2> QED BY <2>1, <2>3, <2>4, <2>5, <2>6, StepIs DEF b
<1> QED BY <1>1, SpecWorldInv, PTL DEF WorldSpec, FunctionsRunInOrder

(* SpecNoFunctionIsLost.  Without an error nothing due is left when          *)
(* advanceTime returns; after one the function that raised is gone, and the   *)
(* others that did not run are still scheduled (environment.ts: advanceTime,  *)
(* "An error removes the function").                                          *)
THEOREM SpecNoFunctionIsLost == WorldSpec => NoFunctionIsLost
<1> DEFINE KeepsAll ==
      world'.ran # <<>> =>
        LET last == Last(world'.ran)
            meddled == \E k \in DOMAIN world'.ran : world'.ran[k].deed = "cancelFirst"
        IN /\ \A id \in Scheduled(world) \ Ran(world') :
                id \in Scheduled(world') \/ (id = 1 /\ meddled)
           /\ IF world'.error THEN last.id \notin Scheduled(world') /\ world'.time = last.at
              ELSE \A e \in world'.scheduled : e.time > world'.time
<1>1. WorldInv /\ [WorldNext]_worldVars => [KeepsAll]_worldVars
  <2> SUFFICES ASSUME WorldInv, [WorldNext]_worldVars PROVE [KeepsAll]_worldVars
    OBVIOUS
  <2> DEFINE b == Fresh(world)
  <2>1. /\ Consistent(b) /\ b.ran = <<>> /\ ~b.error
        /\ b.time = world.time /\ b.scheduled = world.scheduled
    BY FreshIs DEF WorldInv
  <2> HIDE DEF b
  <2>2. ASSUME world'.ran = <<>> PROVE KeepsAll
    BY <2>2
  <2>3. CASE UNCHANGED worldVars
    BY <2>3
  <2>4. CASE Quiet(world, world')
    BY <2>2, <2>4 DEF Quiet
  <2>5. ASSUME NEW name \in Names, NEW size \in Nat, world' = spawnGroup(b, name, size) PROVE KeepsAll
    <3>1. world' \in After(b)
      BY <2>1, <2>5, SpawnGroupOk
    <3>2. world'.ran = <<>>
      BY <2>1, <3>1, AfterIs DEF Extends
    <3> QED BY <2>2, <3>2
  <2>6. ASSUME NEW ticks \in Nat, world' = advanceTime(b, ticks),
               Ended(RunDue(b, b.time + ticks), b.time + ticks)
        PROVE  KeepsAll
    <3>1. Advanced(b, world')
      BY <2>1, <2>6, AdvanceOk
    <3>2. Scheduled(b) = Scheduled(world)
      BY <2>1 DEF Scheduled
    <3>3. \A id \in Scheduled(world) :
            \/ id \in Scheduled(world') \/ id \in Ran(world')
            \/ id = 1 /\ \E k \in DOMAIN world'.ran : world'.ran[k].deed = "cancelFirst"
      BY <3>1, <3>2 DEF Advanced
    <3>4. world'.error => /\ Last(world'.ran).id \notin Scheduled(world')
                          /\ world'.time = Last(world'.ran).at
      BY <3>1 DEF Advanced, Last
    <3>5. ~world'.error => \A e \in world'.scheduled : e.time > world'.time
      BY <3>1 DEF Advanced
    <3> QED BY <3>3, <3>4, <3>5, Zenon
  <2> QED BY <2>1, <2>3, <2>4, <2>5, <2>6, StepIs DEF b
<1> QED BY <1>1, SpecWorldInv, PTL DEF WorldSpec, NoFunctionIsLost

-----------------------------------------------------------------------------
(* Which births handler h has been told of, between two worlds.             *)

Untold(w, h, u) == \A j \in DOMAIN w.births : w.births[j] # Birth(h, u)
Tells(w, v, h, u) == Untold(w, h, u) => BirthOnce(v, h, u)
Keeps(w, v, h, u) ==
  (Untold(w, h, u) => Untold(v, h, u)) /\ (BirthOnce(w, h, u) => BirthOnce(v, h, u))

(* From w to v handler h, if it stays and none raises, is told of the units *)
(* of S and of those that are new, of each once.                            *)
Reported(h, w, v, S) ==
  ~v.error /\ h \in ToSet(v.handlers) =>
    \A u \in Nat : IF u \in S \/ (u \in Units(v) /\ u \notin Units(w)) THEN Tells(w, v, h, u)
                   ELSE Keeps(w, v, h, u)

(* Units are never removed, and handlers only are.                          *)
Onward(w, v) == Len(w.units) <= Len(v.units) /\ ToSet(v.handlers) \subseteq ToSet(w.handlers)

LEMMA ReportedThen ==
  ASSUME NEW h, NEW w \in Worlds, NEW v \in Worlds, NEW x \in Worlds,
         Onward(w, v), Onward(v, x), ~v.error,
         NEW S, NEW R, S \subseteq Units(w), R \subseteq Units(w), S \cap R = {},
         Reported(h, w, v, S), Reported(h, v, x, R),
         NEW Q, \A u : u \in Q <=> u \in S \/ u \in R
  PROVE  Reported(h, w, x, Q)
<1> SUFFICES ASSUME ~x.error, h \in ToSet(x.handlers), NEW u \in Nat
             PROVE  IF u \in Q \/ (u \in Units(x) /\ u \notin Units(w)) THEN Tells(w, x, h, u)
                    ELSE Keeps(w, x, h, u)
  BY DEF Reported
<1>1. Units(w) \subseteq Units(v) /\ Units(v) \subseteq Units(x)
  BY Lists DEF Onward
<1>2. h \in ToSet(v.handlers)
  BY DEF Onward
<1>3. IF u \in S \/ (u \in Units(v) /\ u \notin Units(w)) THEN Tells(w, v, h, u)
      ELSE Keeps(w, v, h, u)
  BY <1>2 DEF Reported
<1>4. IF u \in R \/ (u \in Units(x) /\ u \notin Units(v)) THEN Tells(v, x, h, u)
      ELSE Keeps(v, x, h, u)
  BY DEF Reported
<1>5. CASE u \in S
  <2>1. Tells(w, v, h, u) /\ Keeps(v, x, h, u)
    BY <1>1, <1>3, <1>4, <1>5
  <2> QED BY <1>5, <2>1 DEF Tells, Keeps
<1>6. CASE u \notin S /\ u \in R
  <2>1. Keeps(w, v, h, u) /\ Tells(v, x, h, u)
    BY <1>1, <1>3, <1>4, <1>6
  <2> QED BY <1>6, <2>1 DEF Tells, Keeps
<1>7. CASE u \notin S /\ u \notin R /\ u \in Units(x) /\ u \notin Units(w)
  <2>1. CASE u \in Units(v)
    <3>1. Tells(w, v, h, u) /\ Keeps(v, x, h, u)
      BY <1>3, <1>4, <1>7, <2>1
    <3> QED BY <1>7, <3>1 DEF Tells, Keeps
  <2>2. CASE u \notin Units(v)
    <3>1. Keeps(w, v, h, u) /\ Tells(v, x, h, u)
      BY <1>3, <1>4, <1>7, <2>2
    <3> QED BY <1>7, <3>1 DEF Tells, Keeps
  <2> QED BY <2>1, <2>2
<1>8. CASE u \notin S /\ u \notin R /\ ~(u \in Units(x) /\ u \notin Units(w))
  <2>1. Keeps(w, v, h, u) /\ Keeps(v, x, h, u)
    BY <1>1, <1>3, <1>4, <1>8
  <2> QED BY <1>8, <2>1 DEF Keeps
<1> QED BY <1>5, <1>6, <1>7, <1>8

LEMMA ReportedNone ==
  ASSUME NEW h, NEW w, NEW v, v.births = w.births, Units(v) = Units(w), NEW S, S = {}
  PROVE  Reported(h, w, v, S)
<1>1. \A u : Keeps(w, v, h, u)
  BY DEF Keeps, Untold, BirthOnce
<1> QED BY <1>1 DEF Reported

LEMMA ReportedOne ==
  ASSUME NEW h, NEW w \in Worlds, NEW v \in Worlds, NEW by \in Handlers, NEW n \in Nat,
         v.births = Append(w.births, Birth(by, n)), Units(v) = Units(w),
         NEW S, \A u : u \in S <=> by = h /\ u = n
  PROVE  Reported(h, w, v, S)
<1> SUFFICES ASSUME NEW u \in Nat
             PROVE  IF u \in S THEN Tells(w, v, h, u) ELSE Keeps(w, v, h, u)
  BY DEF Reported
<1> DEFINE m == Len(w.births)
           new == Birth(by, n)
<1>1. w.births \in Seq(BirthRecords) /\ m \in Nat /\ new \in BirthRecords
  <2>1. w.births \in Seq(BirthRecords)
    BY FieldTypes
  <2>2. new \in BirthRecords
    BY DEF Birth, BirthRecords
  <2> HIDE DEF new
  <2> QED BY <2>1, <2>2
<1>2. new = Birth(h, u) <=> by = h /\ u = n
  BY DEF Birth
<1> HIDE DEF new
<1>3. /\ DOMAIN w.births = 1..m /\ DOMAIN v.births = 1..(m + 1)
      /\ (\A j \in 1..m : v.births[j] = w.births[j]) /\ v.births[m + 1] = new
  BY <1>1 DEF new
<1> HIDE DEF m
<1>4. /\ \A j : j \in 1..(m + 1) <=> j \in 1..m \/ j = m + 1
      /\ m + 1 \notin 1..m
  BY <1>1
<1>5. CASE u \in S
  <2>1. v.births[m + 1] = Birth(h, u)
    BY <1>2, <1>3, <1>5
  <2>2. ASSUME Untold(w, h, u) PROVE BirthOnce(v, h, u)
    <3>1. \A j \in DOMAIN v.births : v.births[j] = Birth(h, u) <=> j = m + 1
      BY <1>3, <1>4, <2>1, <2>2 DEF Untold
    <3>2. m + 1 \in DOMAIN v.births
      BY <1>3, <1>4
    <3> QED BY <3>1, <3>2 DEF BirthOnce, Birth
  <2> QED BY <1>5, <2>2 DEF Tells
<1>6. CASE u \notin S
  <2>1. v.births[m + 1] # Birth(h, u)
    BY <1>2, <1>3, <1>6
  <2>2. ASSUME Untold(w, h, u) PROVE Untold(v, h, u)
    BY <1>3, <1>4, <2>1, <2>2 DEF Untold
  <2>3. ASSUME BirthOnce(w, h, u) PROVE BirthOnce(v, h, u)
    <3>0. \E i \in DOMAIN w.births : \A j \in DOMAIN w.births :
            w.births[j] = Birth(h, u) <=> j = i
      BY <2>3, Zenon DEF BirthOnce, Birth
    <3>1. PICK i \in 1..m : \A j \in 1..m : w.births[j] = Birth(h, u) <=> j = i
      BY <1>3, <3>0
    <3>2. i \in DOMAIN v.births /\ \A j \in DOMAIN v.births : v.births[j] = Birth(h, u) <=> j = i
      BY <1>3, <1>4, <2>1, <3>1
    <3> QED BY <3>2 DEF BirthOnce, Birth
  <2> QED BY <1>6, <2>2, <2>3 DEF Keeps
<1> QED BY <1>5, <1>6

LEMMA ReportedRaised ==
  ASSUME NEW h, NEW w, NEW v, v.error, NEW S
  PROVE  Reported(h, w, v, S)
BY DEF Reported

LEMMA ReactsReported ==
  ASSUME NEW w, Consistent(w), NEW by \in Handlers, NEW n \in Units(w), NEW h,
         NEW S, \A u : u \in S <=> by = h /\ u = n
  PROVE  Reported(h, w, Reacts(w, by, n), S)
<1> DEFINE v == Reacts(w, by, n)
<1>1. Consistent(v) /\ Units(v) = Units(w) /\ v.births = Append(w.births, Birth(by, n))
  BY ReactsOk
<1> HIDE DEF v
<1>2. w \in Worlds /\ v \in Worlds /\ n \in Nat
  BY <1>1, Lists DEF Consistent
<1>3. Reported(h, w, v, S)
  BY <1>1, <1>2, ReportedOne
<1> QED BY <1>3 DEF v

(* Those of the handlers before position i that are h, told of unit n.      *)
ToldBy(w, n, h, i) == {u \in {n} : \E j \in 1..i : w.handlers[j] = h}

OneMoreToldBy(w, n, h) ==
  /\ ToldBy(w, n, h, 0) = {}
  /\ \A i \in 1..Len(w.handlers) :
       /\ \A u : u \in ToldBy(w, n, h, i) <=>
                   u \in ToldBy(w, n, h, i - 1) \/ (w.handlers[i] = h /\ u = n)
       /\ w.handlers[i] = h => ToldBy(w, n, h, i - 1) = {}
  /\ \A i \in 0..Len(w.handlers) : ToldBy(w, n, h, i) \subseteq Units(w)

LEMMA ToldByIs ==
  ASSUME NEW w, Consistent(w), NEW n \in Units(w), NEW h
  PROVE  OneMoreToldBy(w, n, h)
<1>1. DOMAIN w.handlers = 1..Len(w.handlers) /\ Len(w.handlers) \in Nat /\ Distinct(w.handlers)
  BY Lists DEF Consistent
<1>2. ToldBy(w, n, h, 0) = {}
  BY DEF ToldBy
<1>3. ASSUME NEW i \in 1..Len(w.handlers)
      PROVE  /\ \A u : u \in ToldBy(w, n, h, i) <=>
                         u \in ToldBy(w, n, h, i - 1) \/ (w.handlers[i] = h /\ u = n)
             /\ w.handlers[i] = h => ToldBy(w, n, h, i - 1) = {}
  <2>1. \A j : j \in 1..i <=> j \in 1..(i - 1) \/ j = i
    BY <1>1
  <2>2. \A j \in 1..(i - 1) : j \in DOMAIN w.handlers /\ i \in DOMAIN w.handlers /\ j # i
    BY <1>1
  <2>3. \A j \in 1..(i - 1) : w.handlers[j] # w.handlers[i]
    BY <1>1, <2>2 DEF Distinct
  <2> QED BY <2>1, <2>3 DEF ToldBy
<1>4. \A i \in 0..Len(w.handlers) : ToldBy(w, n, h, i) \subseteq Units(w)
  BY DEF ToldBy
<1> QED BY <1>2, <1>3, <1>4 DEF OneMoreToldBy

(* The report ends with every handler that stays told.                      *)
LEMMA ReportedAll ==
  ASSUME NEW w, Consistent(w), NEW n \in Units(w), NEW h, NEW v, Extends(w, v),
         NEW S, \A u : u \in S <=> u = n,
         Reported(h, w, v, ToldBy(w, n, h, Len(w.handlers)))
  PROVE  Reported(h, w, v, S)
<1> DEFINE R == ToldBy(w, n, h, Len(w.handlers))
<1>1. ASSUME h \in ToSet(v.handlers) PROVE \A u : u \in R <=> u \in S
  <2>1. h \in ToSet(w.handlers)
    BY <1>1 DEF Extends
  <2>2. ToldBy(w, n, h, Len(w.handlers)) = {n}
    BY <2>1, Lists DEF ToldBy, ToSet, Consistent
  <2>3. R = {n}
    BY <2>2
  <2> HIDE DEF R
  <2> QED BY <2>3
<1> HIDE DEF R
<1>2. Reported(h, w, v, R)
  BY DEF R
<1> QED BY <1>1, <1>2 DEF Reported

(* Over the worlds of a loop, whose step i tells h of the units of R[i].    *)
LEMMA ReportedAlong ==
  ASSUME NEW w, Consistent(w), NEW h, NEW m \in Nat, NEW path,
         path[0] = w, \A i \in 0..m : path[i] \in After(w),
         NEW Q, NEW R, \A u : u \notin Q[0],
         \A i \in 0..m : Q[i] \subseteq Units(w),
         \A i \in 1..m :
           /\ \A u : u \in Q[i] <=> u \in Q[i - 1] \/ u \in R[i]
           /\ Q[i - 1] \cap R[i] = {}
           /\ path[i - 1].error => path[i] = path[i - 1]
           /\ ~path[i - 1].error => /\ path[i] \in After(path[i - 1])
                                    /\ Reported(h, path[i - 1], path[i], R[i])
  PROVE  Reported(h, w, path[m], Q[m])
<1> DEFINE good == {i \in Nat : i \in 0..m => Reported(h, w, path[i], Q[i])}
<1>1. 0 \in good
  <2>1. Reported(h, w, w, Q[0])
    BY ReportedNone
  <2> QED BY <2>1
<1>2. ASSUME NEW i \in Nat, i \in good PROVE i + 1 \in good
  <2> SUFFICES ASSUME i + 1 \in 0..m PROVE Reported(h, w, path[i + 1], Q[i + 1])
    OBVIOUS
  <2> DEFINE j == i + 1
             v == path[i]
             x == path[j]
  <2>1. i \in 0..m /\ j \in 1..m /\ j - 1 = i /\ Reported(h, w, v, Q[i])
    BY <1>2
  <2>2. Consistent(v) /\ v \in After(w) /\ v \in Worlds /\ Extends(w, v) /\ w \in Worlds
    BY <2>1, AfterIs DEF Consistent
  <2>3. /\ \A u : u \in Q[j] <=> u \in Q[i] \/ u \in R[j]
        /\ Q[i] \cap R[j] = {} /\ Q[i] \subseteq Units(w) /\ R[j] \subseteq Units(w)
        /\ v.error => x = v
        /\ ~v.error => x \in After(v) /\ Reported(h, v, x, R[j])
    BY <2>1
  <2> HIDE DEF v, x, j
  <2>4. CASE v.error
    <3>1. Reported(h, w, x, Q[j])
      BY <2>3, <2>4, ReportedRaised
    <3> QED BY <2>1, <3>1 DEF x, j
  <2>5. CASE ~v.error
    <3>1. x \in Worlds /\ Onward(w, v) /\ Onward(v, x)
      BY <2>2, <2>3, <2>5, AfterIs DEF Onward, Extends
    <3>2. Reported(h, w, x, Q[j])
      BY <2>1, <2>2, <2>3, <2>5, <3>1, ReportedThen
    <3> QED BY <2>1, <3>2 DEF x, j
  <2> QED BY <2>4, <2>5
<1>3. Nat \subseteq good
  <2> HIDE DEF good
  <2> QED BY <1>1, <1>2, NatSetInduction
<1>4. m \in good
  BY <1>3
<1> QED BY <1>4

(* A loop over the handlers, of which each is told of unit n, once.         *)
LEMMA ToldReported ==
  ASSUME NEW w, Consistent(w), NEW n \in Units(w), NEW h, NEW told,
         told[0] = w, \A i \in 0..Len(w.handlers) : told[i] \in After(w),
         \A i \in 1..Len(w.handlers) :
           /\ told[i - 1].error => told[i] = told[i - 1]
           /\ ~told[i - 1].error =>
                /\ told[i] \in After(told[i - 1])
                /\ \A S : (\A u : u \in S <=> w.handlers[i] = h /\ u = n) =>
                     Reported(h, told[i - 1], told[i], S)
  PROVE  \A S : (\A u : u \in S <=> u = n) => Reported(h, w, told[Len(w.handlers)], S)
<1> DEFINE m == Len(w.handlers)
           Q == [i \in 0..m |-> ToldBy(w, n, h, i)]
           R == [i \in 1..m |-> {u \in {n} : w.handlers[i] = h}]
<1>1. m \in Nat /\ m \in 0..m
  BY Lists DEF Consistent
<1>2. \A i \in 1..m : \A u : u \in R[i] <=> w.handlers[i] = h /\ u = n
  OBVIOUS
<1>3. \A i \in 0..m : Q[i] = ToldBy(w, n, h, i)
  OBVIOUS
<1>4. /\ ToldBy(w, n, h, 0) = {}
      /\ \A i \in 1..m :
           /\ \A u : u \in ToldBy(w, n, h, i) <=>
                       u \in ToldBy(w, n, h, i - 1) \/ (w.handlers[i] = h /\ u = n)
           /\ w.handlers[i] = h => ToldBy(w, n, h, i - 1) = {}
      /\ \A i \in 0..m : ToldBy(w, n, h, i) \subseteq Units(w)
  <2>1. OneMoreToldBy(w, n, h)
    BY ToldByIs
  <2> QED BY <2>1 DEF OneMoreToldBy
<1>5. \A i \in 1..m : i \in 0..m /\ i - 1 \in 0..m
  BY <1>1, Predecessors
<1>6. \A i \in 0..m : told[i] \in After(w)
  OBVIOUS
<1>7. \A i \in 1..m :
        /\ told[i - 1].error => told[i] = told[i - 1]
        /\ ~told[i - 1].error => /\ told[i] \in After(told[i - 1])
                                 /\ Reported(h, told[i - 1], told[i], R[i])
  <2> HIDE DEF R
  <2> QED BY <1>2
<1> HIDE DEF Q, R
<1>8. \A u : u \notin Q[0]
  BY <1>1, <1>3, <1>4
<1>9. \A i \in 0..m : Q[i] \subseteq Units(w)
  BY <1>3, <1>4
<1>10. \A i \in 1..m : /\ \A u : u \in Q[i] <=> u \in Q[i - 1] \/ u \in R[i]
                       /\ Q[i - 1] \cap R[i] = {}
  BY <1>2, <1>3, <1>4, <1>5
<1> HIDE DEF m
<1>11. Reported(h, w, told[m], Q[m])
  BY <1>1, <1>6, <1>7, <1>8, <1>9, <1>10, ReportedAlong
<1>12. told[m] \in After(w)
  BY <1>1, <1>6
<1> SUFFICES ASSUME NEW S, \A u : u \in S <=> u = n PROVE Reported(h, w, told[m], S)
  BY DEF m
<1> DEFINE v == told[m]
<1>13. Extends(w, v)
  BY <1>12, AfterIs
<1>14. Reported(h, w, v, ToldBy(w, n, h, Len(w.handlers)))
  BY <1>1, <1>3, <1>11 DEF m
<1> HIDE DEF v
<1>15. Reported(h, w, v, S)
  BY <1>13, <1>14, ReportedAll
<1> QED BY <1>15 DEF v

LEMMA ReportInsideReported ==
  ASSUME NEW w, Consistent(w), NEW n \in Units(w), NEW h,
         NEW S, \A u : u \in S <=> u = n
  PROVE  Reported(h, w, ReportInside(w, n), S)
<1>1. PICK told : ToldInside(w, n, told) /\ ReportInside(w, n) = told[Len(w.handlers)]
  BY ReportInsideIs
<1>2. told[0] = w /\ \A i \in 0..Len(w.handlers) : told[i] \in After(w) /\ Units(told[i]) = Units(w)
  BY <1>1 DEF ToldInside
<1>3. ASSUME NEW i \in 1..Len(w.handlers)
      PROVE  /\ told[i - 1].error => told[i] = told[i - 1]
             /\ ~told[i - 1].error =>
                  /\ told[i] \in After(told[i - 1])
                  /\ \A R : (\A u : u \in R <=> w.handlers[i] = h /\ u = n) =>
                       Reported(h, told[i - 1], told[i], R)
  <2> DEFINE v == told[i - 1]
             x == told[i]
             by == w.handlers[i]
  <2>1. i - 1 \in 0..Len(w.handlers) /\ by \in Handlers
    BY Lists DEF Consistent
  <2>2. Consistent(v) /\ n \in Units(v)
    BY <1>2, <2>1, AfterIs
  <2>3. x = IF v.error THEN v ELSE Reacts(v, by, n)
    BY <1>1 DEF ToldInside
  <2> HIDE DEF v, x, by
  <2>4. CASE v.error
    BY <2>3, <2>4 DEF v, x
  <2>5. CASE ~v.error
    <3>1. x = Reacts(v, by, n)
      BY <2>3, <2>5
    <3>2. Consistent(x) /\ Extends(v, x)
      BY <2>1, <2>2, <3>1, ReactsOk
    <3>3. x \in After(v)
      BY <3>2 DEF After, Consistent
    <3>4. ASSUME NEW R, \A u : u \in R <=> by = h /\ u = n PROVE Reported(h, v, x, R)
      BY <2>1, <2>2, <3>1, <3>4, ReactsReported
    <3> QED BY <2>5, <3>3, <3>4 DEF v, x, by
  <2> QED BY <2>4, <2>5
<1>4. Reported(h, w, told[Len(w.handlers)], S)
  <2>1. \A i \in 0..Len(w.handlers) : told[i] \in After(w)
    BY <1>2
  <2>2. \A R : (\A u : u \in R <=> u = n) => Reported(h, w, told[Len(w.handlers)], R)
    BY <1>2, <1>3, <2>1, ToldReported
  <2> QED BY <2>2
<1> QED BY <1>1, <1>4

(* From w on, of all new units, when what is added to w is reported.        *)
LEMMA ReportedNew ==
  ASSUME NEW w \in Worlds, NEW first \in Worlds, NEW v \in Worlds, NEW h, NEW Q,
         first.births = w.births, Units(w) \subseteq Units(first), Extends(first, v),
         \A u : u \in Q <=> u \in Units(first) /\ u \notin Units(w),
         Reported(h, first, v, Q), NEW S, S = {}
  PROVE  Reported(h, w, v, S)
<1> SUFFICES ASSUME ~v.error, h \in ToSet(v.handlers), NEW u \in Nat
             PROVE  IF u \in S \/ (u \in Units(v) /\ u \notin Units(w)) THEN Tells(w, v, h, u)
                    ELSE Keeps(w, v, h, u)
  BY DEF Reported
<1>1. Units(first) \subseteq Units(v)
  BY Lists DEF Extends
<1>2. IF u \in Q \/ (u \in Units(v) /\ u \notin Units(first)) THEN Tells(first, v, h, u)
      ELSE Keeps(first, v, h, u)
  BY DEF Reported
<1>3. /\ Tells(first, v, h, u) => Tells(w, v, h, u)
      /\ Keeps(first, v, h, u) => Keeps(w, v, h, u)
  BY DEF Tells, Keeps, Untold, BirthOnce
<1> QED BY <1>1, <1>2, <1>3

(* A loop over the units of a spawned group, whose births are reported.     *)
LEMMA BornReported ==
  ASSUME NEW w, Consistent(w), NEW name \in Names, NEW size \in Nat, NEW h, NEW born,
         born[0] = Added(w, name, size),
         \A i \in 0..size : born[i] \in After(Added(w, name, size)),
         \A i \in 1..size :
           /\ born[i - 1].error => born[i] = born[i - 1]
           /\ ~born[i - 1].error =>
                /\ born[i] \in After(born[i - 1])
                /\ \A S : (\A u : u \in S <=> u = Len(w.units) + i) =>
                     Reported(h, born[i - 1], born[i], S)
  PROVE  \A S : S = {} => Reported(h, w, born[size], S)
<1> DEFINE first == Added(w, name, size)
           n == Len(w.units)
           Q == [i \in 0..size |-> (n + 1)..(n + i)]
           R == [i \in 1..size |-> {n + i}]
           v == born[size]
<1>1. /\ Consistent(first) /\ first.births = w.births /\ Len(first.units) = n + size
      /\ \A i \in 1..size : n + i \in Units(first)
  BY AddedOk DEF SameTalk
<1>2. /\ born[0] = first /\ \A i \in 0..size : born[i] \in After(first)
  OBVIOUS
<1> HIDE DEF first
<1>3. w \in Worlds /\ first \in Worlds /\ n \in Nat
  BY <1>1, Lists DEF Consistent
<1>4. Units(w) = 1..n /\ Units(first) = 1..(n + size)
  BY <1>1, <1>3, Lists
<1> HIDE DEF n
<1>5. /\ \A i \in 0..size : Q[i] = (n + 1)..(n + i)
      /\ \A i \in 1..size : \A u : u \in R[i] <=> u = n + i
  OBVIOUS
<1>6. \A i \in 1..size :
        /\ born[i - 1].error => born[i] = born[i - 1]
        /\ ~born[i - 1].error => /\ born[i] \in After(born[i - 1])
                                 /\ Reported(h, born[i - 1], born[i], R[i])
  <2> HIDE DEF R
  <2> QED BY <1>5 DEF n
<1> HIDE DEF Q, R
<1>7. \A u : u \notin Q[0]
  BY <1>3, <1>5
<1>8. \A i \in 0..size : Q[i] \subseteq Units(first)
  BY <1>3, <1>4, <1>5
<1>9. \A i \in 1..size : /\ \A u : u \in Q[i] <=> u \in Q[i - 1] \/ u \in R[i]
                         /\ Q[i - 1] \cap R[i] = {}
  <2> SUFFICES ASSUME NEW i \in 1..size
               PROVE  /\ \A u : u \in Q[i] <=> u \in Q[i - 1] \/ u \in R[i]
                      /\ Q[i - 1] \cap R[i] = {}
    OBVIOUS
  <2>1. Q[i] = (n + 1)..(n + i) /\ Q[i - 1] = (n + 1)..(n + (i - 1)) /\ \A u : u \in R[i] <=> u = n + i
    BY <1>5
  <2> QED BY <1>3, <2>1
<1>10. Reported(h, first, born[size], Q[size])
  BY <1>1, <1>2, <1>6, <1>7, <1>8, <1>9, ReportedAlong
<1>11. born[size] \in After(first)
  BY <1>2
<1>12. v \in Worlds /\ Extends(first, v)
  BY <1>1, <1>11, AfterIs
<1>13. Reported(h, first, v, Q[size])
  BY <1>10
<1>14. \A u : u \in Q[size] <=> u \in Units(first) /\ u \notin Units(w)
  BY <1>3, <1>4, <1>5
<1>15. Units(w) \subseteq Units(first)
  BY <1>3, <1>4
<1> HIDE DEF v
<1> SUFFICES ASSUME NEW S, S = {} PROVE Reported(h, w, v, S)
  BY DEF v
<1> QED BY <1>1, <1>3, <1>12, <1>13, <1>14, <1>15, ReportedNew

LEMMA SpawnInsideReported ==
  ASSUME NEW w, Consistent(w), NEW name \in Names, NEW size \in Nat, NEW h, NEW S, S = {}
  PROVE  Reported(h, w, SpawnInside(w, name, size), S)
<1>1. PICK born : BornInside(w, name, size, born) /\ SpawnInside(w, name, size) = born[size]
  BY SpawnInsideIs
<1> DEFINE first == Added(w, name, size)
           n == Len(w.units)
<1>2. born[0] = first /\ \A i \in 0..size : born[i] \in After(first)
  BY <1>1 DEF BornInside
<1>3. Consistent(first) /\ \A i \in 1..size : n + i \in Units(first)
  BY AddedOk
<1>4. ASSUME NEW i \in 1..size
      PROVE  /\ born[i - 1].error => born[i] = born[i - 1]
             /\ ~born[i - 1].error =>
                  /\ born[i] \in After(born[i - 1])
                  /\ \A R : (\A u : u \in R <=> u = n + i) =>
                       Reported(h, born[i - 1], born[i], R)
  <2> DEFINE v == born[i - 1]
             x == born[i]
             new == n + i
  <2>1. x = IF v.error THEN v ELSE ReportInside(v, new)
    BY <1>1 DEF BornInside
  <2> HIDE DEF first
  <2>2. Consistent(v) /\ new \in Units(v)
    BY <1>2, <1>3, AfterIs, Predecessors
  <2> HIDE DEF v, x, new
  <2>3. CASE v.error
    BY <2>1, <2>3 DEF v, x
  <2>4. CASE ~v.error
    <3>1. x = ReportInside(v, new)
      BY <2>1, <2>4
    <3>2. x \in After(v)
      BY <2>2, <3>1, ReportInsideOk
    <3>3. ASSUME NEW R, \A u : u \in R <=> u = new PROVE Reported(h, v, x, R)
      BY <2>2, <3>1, <3>3, ReportInsideReported
    <3> QED BY <2>4, <3>2, <3>3 DEF v, x, new
  <2> QED BY <2>3, <2>4
<1>5. \A R : R = {} => Reported(h, w, born[size], R)
  <2> HIDE DEF n
  <2>1. \A i \in 0..size : born[i] \in After(Added(w, name, size))
    BY <1>2
  <2>2. born[0] = Added(w, name, size)
    BY <1>2
  <2> HIDE DEF first
  <2> QED BY <1>4, <2>1, <2>2, BornReported DEF n
<1> QED BY <1>1, <1>5

LEMMA OnEventReported ==
  ASSUME NEW w, Consistent(w), ~w.error, NEW by \in Handlers, NEW n \in Units(w), NEW h,
         NEW S, \A u : u \in S <=> by = h /\ u = n
  PROVE  Reported(h, w, onEvent(w, by, n), S)
<1> DEFINE v == Reacts(w, by, n)
           name == v.groups[v.units[n].group].name
           x == onEvent(w, by, n)
           y == SpawnInside(v, name, 1)
           none == {}
<1>1. /\ Consistent(v) /\ v \in After(w) /\ name \in Names
      /\ x = IF by # "respawn" THEN v ELSE y
  BY OnEventIs
<1>2. Reported(h, w, v, S)
  BY ReactsReported
<1>3. by = "respawn" => ~v.error
  BY ReactsOk
<1>4. none = {}
  OBVIOUS
<1> HIDE DEF v, name, x, none
<1>5. CASE by # "respawn"
  <2>1. Reported(h, w, x, S)
    BY <1>1, <1>2, <1>5
  <2> QED BY <2>1 DEF x
<1>6. CASE by = "respawn"
  <2>1. y \in After(v)
    BY <1>1, SpawnInsideOk
  <2>2. Reported(h, v, y, none)
    BY <1>1, <1>4, SpawnInsideReported
  <2> HIDE DEF y
  <2>3. w \in Worlds /\ v \in Worlds /\ y \in Worlds /\ Onward(w, v) /\ Onward(v, y)
    BY <1>1, <2>1, AfterIs DEF Consistent, Extends, Onward
  <2>4. S \subseteq Units(w) /\ none \subseteq Units(w) /\ S \cap none = {}
    BY <1>4
  <2>5. \A u : u \in S <=> u \in S \/ u \in none
    BY <1>4
  <2>6. Reported(h, w, y, S)
    BY <1>2, <1>3, <1>6, <2>2, <2>3, <2>4, <2>5, ReportedThen
  <2> QED BY <1>1, <1>6, <2>6 DEF x
<1> QED BY <1>5, <1>6

LEMMA DispatchReported ==
  ASSUME NEW w, Consistent(w), NEW n \in Units(w), NEW h,
         NEW S, \A u : u \in S <=> u = n
  PROVE  Reported(h, w, dispatchEvent(w, n), S)
<1>1. PICK told : Told(w, n, told) /\ dispatchEvent(w, n) = told[Len(w.handlers)]
  BY DispatchIs
<1>2. told[0] = w /\ \A i \in 0..Len(w.handlers) : told[i] \in After(w)
  BY <1>1 DEF Told
<1>3. ASSUME NEW i \in 1..Len(w.handlers)
      PROVE  /\ told[i - 1].error => told[i] = told[i - 1]
             /\ ~told[i - 1].error =>
                  /\ told[i] \in After(told[i - 1])
                  /\ \A R : (\A u : u \in R <=> w.handlers[i] = h /\ u = n) =>
                       Reported(h, told[i - 1], told[i], R)
  <2> DEFINE v == told[i - 1]
             x == told[i]
             by == w.handlers[i]
  <2>1. i - 1 \in 0..Len(w.handlers) /\ by \in Handlers
    BY Lists DEF Consistent
  <2>2. Consistent(v) /\ n \in Units(v)
    BY <1>2, <2>1, AfterIs
  <2>3. x = IF v.error THEN v ELSE onEvent(v, by, n)
    BY <1>1 DEF Told
  <2> HIDE DEF v, x, by
  <2>4. CASE v.error
    BY <2>3, <2>4 DEF v, x
  <2>5. CASE ~v.error
    <3>1. x = onEvent(v, by, n)
      BY <2>3, <2>5
    <3>2. x \in After(v)
      BY <2>1, <2>2, <3>1, OnEventIs
    <3>3. ASSUME NEW R, \A u : u \in R <=> by = h /\ u = n PROVE Reported(h, v, x, R)
      BY <2>1, <2>2, <2>5, <3>1, <3>3, OnEventReported
    <3> QED BY <2>5, <3>2, <3>3 DEF v, x, by
  <2> QED BY <2>4, <2>5
<1>4. \A R : (\A u : u \in R <=> u = n) => Reported(h, w, told[Len(w.handlers)], R)
  BY <1>2, <1>3, ToldReported
<1> QED BY <1>1, <1>4

LEMMA SpawnGroupReported ==
  ASSUME NEW w, Consistent(w), NEW name \in Names, NEW size \in Nat, NEW h, NEW S, S = {}
  PROVE  Reported(h, w, spawnGroup(w, name, size), S)
<1>1. PICK born : BornGroup(w, name, size, born) /\ spawnGroup(w, name, size) = born[size]
  BY SpawnGroupIs
<1> DEFINE first == Added(w, name, size)
           n == Len(w.units)
<1>2. born[0] = first /\ \A i \in 0..size : born[i] \in After(first)
  BY <1>1 DEF BornGroup
<1>3. Consistent(first) /\ \A i \in 1..size : n + i \in Units(first)
  BY AddedOk
<1>4. ASSUME NEW i \in 1..size
      PROVE  /\ born[i - 1].error => born[i] = born[i - 1]
             /\ ~born[i - 1].error =>
                  /\ born[i] \in After(born[i - 1])
                  /\ \A R : (\A u : u \in R <=> u = n + i) =>
                       Reported(h, born[i - 1], born[i], R)
  <2> DEFINE v == born[i - 1]
             x == born[i]
             new == n + i
  <2>1. x = IF v.error THEN v ELSE dispatchEvent(v, new)
    BY <1>1 DEF BornGroup
  <2> HIDE DEF first
  <2>2. Consistent(v) /\ new \in Units(v)
    BY <1>2, <1>3, AfterIs, Predecessors
  <2> HIDE DEF v, x, new
  <2>3. CASE v.error
    BY <2>1, <2>3 DEF v, x
  <2>4. CASE ~v.error
    <3>1. x = dispatchEvent(v, new)
      BY <2>1, <2>4
    <3>2. x \in After(v)
      BY <2>2, <3>1, DispatchOk
    <3>3. ASSUME NEW R, \A u : u \in R <=> u = new PROVE Reported(h, v, x, R)
      BY <2>2, <3>1, <3>3, DispatchReported
    <3> QED BY <2>4, <3>2, <3>3 DEF v, x, new
  <2> QED BY <2>3, <2>4
<1>5. \A R : R = {} => Reported(h, w, born[size], R)
  <2> HIDE DEF n
  <2>1. \A i \in 0..size : born[i] \in After(Added(w, name, size))
    BY <1>2
  <2>2. born[0] = Added(w, name, size)
    BY <1>2
  <2> HIDE DEF first
  <2> QED BY <1>4, <2>1, <2>2, BornReported DEF n
<1> QED BY <1>1, <1>5

LEMMA ReportedBetween ==
  ASSUME NEW h, NEW w, NEW x, NEW y, NEW v, SameMission(w, x), SameMission(y, v),
         NEW S, Reported(h, x, y, S)
  PROVE  Reported(h, w, v, S)
<1>1. /\ \A u : Tells(w, v, h, u) <=> Tells(x, y, h, u)
      /\ \A u : Keeps(w, v, h, u) <=> Keeps(x, y, h, u)
  BY DEF Tells, Keeps, Untold, BirthOnce, SameMission
<1>2. Units(w) = Units(x) /\ Units(v) = Units(y) /\ v.handlers = y.handlers /\ v.error = y.error
  BY DEF SameMission, Units
<1> QED BY <1>1, <1>2 DEF Reported

LEMMA ReportedSame ==
  ASSUME NEW h, NEW w, NEW v, SameMission(w, v), NEW S, S = {}
  PROVE  Reported(h, w, v, S)
<1>1. v.births = w.births /\ Units(v) = Units(w)
  BY DEF SameMission, Units
<1> QED BY <1>1, ReportedNone

LEMMA DoReported ==
  ASSUME NEW w, Consistent(w), NEW deed, NEW h, NEW S, S = {}
  PROVE  Reported(h, w, Do(w, deed), S)
<1>1. w \in Worlds /\ w.time \in Nat
  BY FieldTypes DEF Consistent
<1>2. CASE deed = "raise"
  <2> DEFINE v == [w EXCEPT !.error = TRUE]
  <2>1. Do(w, deed) = v
    BY <1>2 DEF Do
  <2>2. v.error
    BY <1>1 DEF Worlds
  <2> HIDE DEF v
  <2>3. Reported(h, w, v, S)
    BY <2>2, ReportedRaised
  <2> QED BY <2>1, <2>3
<1>3. CASE deed = "spawn"
  <2> DEFINE name == CHOOSE name \in Names : TRUE
             v == spawnGroup(w, name, 1)
  <2>1. Do(w, deed) = v
    BY <1>3 DEF Do
  <2>2. name \in Names
    BY NamesAssumption
  <2> HIDE DEF name
  <2>3. Reported(h, w, v, S)
    BY <2>2, SpawnGroupReported
  <2> QED BY <2>1, <2>3
<1>4. CASE deed = "cancelFirst"
  <2> DEFINE v == removeFunction(w, 1)
  <2>1. Do(w, deed) = v
    BY <1>4 DEF Do
  <2>2. SameMission(w, v)
    BY RemoveOk
  <2> HIDE DEF v
  <2>3. Reported(h, w, v, S)
    BY <2>2, ReportedSame
  <2> QED BY <2>1, <2>3
<1>5. CASE deed = "delayFirst"
  <2> DEFINE at == w.time + 2
             v == setFunctionTime(w, 1, at)
  <2>1. Do(w, deed) = v /\ at \in Nat
    BY <1>1, <1>5 DEF Do
  <2> HIDE DEF at
  <2>2. SameMission(w, v)
    BY <2>1, SetTimeOk
  <2> HIDE DEF v
  <2>3. Reported(h, w, v, S)
    BY <2>2, ReportedSame
  <2> QED BY <2>1, <2>3
<1>6. CASE deed = "schedule"
  <2> DEFINE v == scheduleFunction(w, w.time, "nothing", Nothing)
  <2>1. Do(w, deed) = v
    BY <1>6 DEF Do
  <2>2. Nothing \in Nat /\ "nothing" \in Deeds \cup {"nothing"}
    BY DEF Nothing
  <2>3. SameMission(w, v)
    BY <1>1, <2>2, ScheduleOk
  <2> HIDE DEF v
  <2>4. Reported(h, w, v, S)
    BY <2>3, ReportedSame
  <2> QED BY <2>1, <2>4
<1>7. CASE deed \notin {"raise", "spawn", "cancelFirst", "delayFirst", "schedule"}
  <2>1. Do(w, deed) = w
    BY <1>7 DEF Do
  <2> QED BY <2>1, ReportedNone
<1> QED BY <1>2, <1>3, <1>4, <1>5, <1>6, <1>7

LEMMA RunNextReported ==
  ASSUME NEW w, Consistent(w), NEW target \in Nat, Due(w, target) # {}, NEW h, NEW S, S = {}
  PROVE  Reported(h, w, RunNext(w, target), S)
<1> DEFINE e == NextDue(Due(w, target))
           at == Larger(w.time, e.time)
           ran == Append(w.ran, RunOf(w, e))
           now == [w EXCEPT !.time = at, !.ran = ran]
           did == Do(now, e.deed)
           v == AfterRun(did, e)
<1>1. w.time \in Nat /\ w.scheduled \subseteq Entries /\ w.ran \in Seq(RunRecords)
  BY FieldTypes DEF Consistent
<1>2. v = RunNext(w, target)
  BY DEF RunNext, RunOf
<1>3. e \in Entries
  <2>1. Due(w, target) \subseteq Entries
    BY <1>1 DEF Due
  <2> QED BY <2>1, NextDueIs
<1> HIDE DEF e
<1>4. at \in Nat /\ RunOf(w, e) \in RunRecords
  BY <1>1, <1>3 DEF Larger, Entries, RunRecords, RunOf
<1>5. ran \in Seq(RunRecords)
  BY <1>1, <1>4
<1> HIDE DEF ran, at
<1>6. Consistent(now) /\ SameMission(w, now)
  <2>1. now = Noted(w, at, ran)
    BY DEF Noted
  <2> HIDE DEF now
  <2> QED BY <1>4, <1>5, <2>1, ThenRun
<1> HIDE DEF now
<1>7. Consistent(did) /\ Reported(h, now, did, S)
  BY <1>6, DoOk, DoReported DEF Done
<1> HIDE DEF did
<1>8. SameMission(did, v)
  BY <1>3, <1>7, AfterRunOk
<1> HIDE DEF v
<1>9. Reported(h, w, v, S)
  BY <1>6, <1>7, <1>8, ReportedBetween
<1> QED BY <1>2, <1>9

LEMMA RunDueReported ==
  ASSUME NEW w, Consistent(w), NEW target \in Nat, NEW h, NEW S, S = {}
  PROVE  Reported(h, w, RunDue(w, target), S)
<1>1. PICK after : Rounds(w, target, after) /\ RunDue(w, target) = after[MaxRuns]
  BY RunDueIs
<1>2. MaxRuns \in Nat /\ w \in Worlds
  BY BoundsAssumption DEF Consistent
<1> DEFINE good(v) == Consistent(v) /\ Onward(w, v) /\ Reported(h, w, v, S)
           T == {n \in Nat : n \in 0..MaxRuns => good(after[n])}
<1>3. 0 \in T
  <2>1. Reported(h, w, w, S)
    BY ReportedNone
  <2>2. Onward(w, w)
    BY <1>2, Lists DEF Onward
  <2> QED BY <1>1, <2>1, <2>2 DEF Rounds
<1>4. ASSUME NEW n \in Nat, n \in T PROVE n + 1 \in T
  <2> SUFFICES ASSUME n + 1 \in 0..MaxRuns PROVE good(after[n + 1])
    OBVIOUS
  <2> DEFINE v == after[n]
             x == RunNext(v, target)
  <2>1. n \in 0..MaxRuns /\ n + 1 \in 1..MaxRuns /\ (n + 1) - 1 = n
    BY <1>2
  <2>2. Consistent(v) /\ Onward(w, v) /\ Reported(h, w, v, S)
    BY <1>4, <2>1
  <2>3. after[n + 1] = IF Ended(v, target) THEN v ELSE x
    BY <1>1, <2>1 DEF Rounds
  <2> HIDE DEF v
  <2>4. CASE Ended(v, target)
    BY <2>2, <2>3, <2>4
  <2>5. CASE ~Ended(v, target)
    <3>1. Due(v, target) # {} /\ ~v.error
      BY <2>5 DEF Ended
    <3>2. \E e : Runs(v, target, e, x)
      BY <2>2, <3>1, RunNextIs
    <3>3. Reported(h, v, x, S)
      BY <2>2, <3>1, RunNextReported
    <3> HIDE DEF x
    <3>4. Consistent(x) /\ Onward(v, x)
      BY <3>2 DEF Runs, Onward
    <3>5. v \in Worlds /\ x \in Worlds
      BY <2>2, <3>4 DEF Consistent
    <3>6. Onward(w, x)
      BY <1>2, <2>2, <3>4, <3>5, Lists DEF Onward
    <3>7. S \subseteq Units(w) /\ S \cap S = {} /\ \A u : u \in S <=> u \in S \/ u \in S
      OBVIOUS
    <3>8. Reported(h, w, x, S)
      BY <1>2, <2>2, <3>1, <3>3, <3>4, <3>5, <3>7, ReportedThen
    <3> QED BY <2>3, <2>5, <3>4, <3>6, <3>8
  <2> QED BY <2>4, <2>5
<1>5. Nat \subseteq T
  <2> HIDE DEF T
  <2> QED BY <1>3, <1>4, NatSetInduction
<1> QED BY <1>1, <1>2, <1>5

LEMMA AdvanceReported ==
  ASSUME NEW b, Consistent(b), NEW ticks \in Nat, NEW h, NEW S, S = {}
  PROVE  Reported(h, b, advanceTime(b, ticks), S)
<1> DEFINE target == b.time + ticks
           v == RunDue(b, target)
           x == advanceTime(b, ticks)
<1>1. target \in Nat
  BY FieldTypes DEF Consistent
<1>2. x = IF v.error THEN v ELSE [v EXCEPT !.time = target]
  BY DEF advanceTime
<1> HIDE DEF target
<1>3. Reported(h, b, v, S)
  BY <1>1, RunDueReported
<1>4. v \in Worlds
  <2>1. PICK after : Rounds(b, target, after) /\ v = after[MaxRuns]
    BY <1>1, RunDueIs
  <2>2. MaxRuns \in 0..MaxRuns
    BY BoundsAssumption
  <2> QED BY <2>1, <2>2 DEF Rounds
<1> HIDE DEF v, x
<1>5. SameMission(v, x) /\ SameMission(b, b)
  BY <1>2, <1>4 DEF Worlds, SameMission
<1>6. Reported(h, b, x, S)
  BY <1>3, <1>5, ReportedBetween
<1> QED BY <1>6 DEF x

(* SpecBirthsAreReportedOnce.  In every call that raises nothing, a handler *)
(* that is registered before it and after it is told of each new unit once, *)
(* though handlers leave, destroy and respawn groups while they are told,   *)
(* and functions spawn them while time advances (world.ts: dispatchEvent,   *)
(* spawnGroup).                                                             *)
THEOREM SpecBirthsAreReportedOnce == WorldSpec => BirthsAreReportedOnce
<1> DEFINE Once ==
      ~world'.error =>
         \A h \in ToSet(world.handlers) \intersect ToSet(world'.handlers),
            u \in Units(world') \ Units(world) :
           BirthOnce(world', h, u)
<1>1. WorldInv /\ WorldInv' /\ [WorldNext]_worldVars => Once
  <2> SUFFICES ASSUME WorldInv, WorldInv', [WorldNext]_worldVars, ~world'.error,
                      NEW h \in ToSet(world'.handlers), NEW u \in Units(world') \ Units(world)
               PROVE  BirthOnce(world', h, u)
    OBVIOUS
  <2> DEFINE b == Fresh(world)
             none == {}
  <2>1. Consistent(world) /\ Consistent(b) /\ b.births = <<>> /\ b.units = world.units
        /\ b.time = world.time
    BY FreshIs DEF WorldInv
  <2>2. none = {}
    OBVIOUS
  <2> HIDE DEF b, none
  <2>3. u \in Nat /\ u \notin Units(b)
    <3>1. Consistent(world')
      BY DEF WorldInv
    <3>2. u \in 1..Len(world'.units) /\ Len(world'.units) \in Nat
      BY <3>1, Lists DEF Consistent
    <3> QED BY <2>1, <3>2 DEF Units
  <2>4. ASSUME Reported(h, b, world', none) PROVE BirthOnce(world', h, u)
    <3>1. Tells(b, world', h, u)
      BY <2>3, <2>4 DEF Reported
    <3>2. Untold(b, h, u)
      BY <2>1 DEF Untold
    <3> QED BY <3>1, <3>2 DEF Tells
  <2>5. ~UNCHANGED worldVars /\ ~Quiet(world, world')
    BY DEF worldVars, Quiet, Units
  <2>6. ASSUME NEW name \in Names, NEW size \in Nat, world' = spawnGroup(b, name, size)
        PROVE  Reported(h, b, world', none)
    BY <2>1, <2>2, <2>6, SpawnGroupReported
  <2>7. ASSUME NEW ticks \in Nat, world' = advanceTime(b, ticks)
        PROVE  Reported(h, b, world', none)
    BY <2>1, <2>2, <2>7, AdvanceReported
  <2>8. \/ \E name \in Names, size \in Nat : world' = spawnGroup(b, name, size)
        \/ \E ticks \in Nat : world' = advanceTime(b, ticks)
    BY <2>5, StepIs DEF b
  <2> QED BY <2>4, <2>6, <2>7, <2>8
<1> QED BY <1>1, SpecWorldInv, PTL DEF WorldSpec, BirthsAreReportedOnce

=============================================================================
