------------------------------- MODULE Mocks -------------------------------
(* luatest's mocks (tslua-luatest/src/mock.ts): fn(), spyOn() and its         *)
(* restoration, and what a call of a mock does and records.                   *)
(*                                                                            *)
(* The spied method belongs to the class; the instance inherits it.  A        *)
(* function is that method, a function of the test that returns or raises,    *)
(* or a mock, known by its number.  Arguments, names and spyOn's refusal of   *)
(* what is not a function are left out.  An operator headed MISTAKE is used   *)
(* by no action.                                                              *)
EXTENDS Naturals, Sequences, FiniteSets, SequencesExt

CONSTANTS
  Nil, Method,        \* model values: no value, and the original method
  Returns, Raises,    \* model values: functions of the test
  MaxMocks, MaxSteps  \* bounds: mocks made, and calls or settings of mocks

Objects == {"class", "instance"}
ASSUME FunctionsAssumption ==
  /\ Nil \notin {Method, Returns, Raises} \cup Objects
  /\ Method \notin {Returns, Raises} /\ Returns # Raises
  /\ {Nil, Method, Returns, Raises} \cap Nat = {}

VARIABLES
  slot,     \* what the class and the instance hold themselves under the key
  mocks,    \* the mocks made, in order
  outcome,  \* of the last call: what it returned or raised, to its caller
  inOrder,  \* FALSE once a spy was restored under a later one of its object
  steps

vars == <<slot, mocks, outcome, inOrder, steps>>

Original == [o \in Objects |-> IF o = "class" THEN Method ELSE Nil]
Lookup(o) == IF slot[o] = Nil THEN slot["class"] ELSE slot[o]   \* object[key]

Functions == {Returns, Raises}
Return(v) == [type |-> "return", value |-> v]
Throw(v) == [type |-> "throw", value |-> v]

(* settled is the last of mockReturnValue, mockImplementation and mockReset. *)
createMock(implementation, object) ==
  [implementation |-> implementation, once |-> <<>>, hasReturn |-> FALSE,
   object |-> object, own |-> IF object = Nil THEN Nil ELSE slot[object],
   active |-> object # Nil, calls |-> 0, results |-> <<>>, settled |-> "new"]

(* What mock m does when called: the queued behaviour, else the default       *)
(* return value, else the implementation.                                     *)
Fixed(v) == [kind |-> "return", do |-> v]
Calls(f) == [kind |-> "implementation", do |-> f]

(* MISTAKE: the implementation wins over mockReturnValue. *)
ImplementationFirst(m) ==
  IF m.once # <<>> THEN Head(m.once)
  ELSE IF m.implementation # Nil THEN Calls(m.implementation)
  ELSE Fixed(IF m.hasReturn THEN "value" ELSE Nil)

Behaviour(m) ==
  IF m.once # <<>> THEN Head(m.once)
  ELSE IF m.hasReturn THEN Fixed("value")
  ELSE IF m.implementation # Nil THEN Calls(m.implementation)
  ELSE Fixed(Nil)

(* MISTAKE: an error leaves the mock before its result is recorded. *)
ReturnsOnly(results, o) == IF o.type = "throw" THEN results ELSE Append(results, o)

Recorded(results, o) == Append(results, o)

AfterCall(m, o) ==
  [m EXCEPT !.calls = @ + 1, !.once = IF @ = <<>> THEN @ ELSE Tail(@),
            !.results = Recorded(@, o)]

(* The functions a call of f goes through, the last one repeated: a mock      *)
(* calls only what was made before it, so a call meets each mock once and has *)
(* come to its end after as many calls as there are mocks.                    *)
Callee(f) ==
  IF f \in DOMAIN mocks /\ Behaviour(mocks[f]).kind = "implementation"
  THEN Behaviour(mocks[f]).do ELSE f
CallPath(f) ==
  LET path[n \in 0..Len(mocks)] == IF n = 0 THEN f ELSE Callee(path[n - 1])
  IN path

(* What the last function of a call returns or raises. *)
Ends(f) ==
  IF f = Method THEN Return("original")
  ELSE IF f = Returns THEN Return("stub")
  ELSE IF f = Raises THEN Throw("error")
  ELSE Return(Behaviour(mocks[f]).do)

(* A call of function f: its outcome, and every mock it went through.         *)
invoke(f) ==
  LET path == CallPath(f)
      met == {path[n] : n \in DOMAIN path}
  IN /\ outcome' = Ends(path[Len(mocks)])
     /\ mocks' = [m \in DOMAIN mocks |->
                    IF m \in met THEN AfterCall(mocks[m], outcome') ELSE mocks[m]]

Step == steps < MaxSteps /\ steps' = steps + 1

Make(m) == Len(mocks) < MaxMocks /\ mocks' = Append(mocks, m)

fn(implementation) ==
  /\ Make(createMock(implementation, Nil))
  /\ UNCHANGED <<slot, outcome, inOrder, steps>>

spyOn(o) ==
  /\ Make(createMock(Lookup(o), o))
  /\ slot' = [slot EXCEPT ![o] = Len(mocks) + 1]
  /\ UNCHANGED <<outcome, inOrder, steps>>

(* Call what the object has under the key, or a mock itself. *)
Call(f) ==
  /\ Step
  /\ invoke(f)
  /\ UNCHANGED <<slot, inOrder>>

Set(m, changed) ==
  /\ Step
  /\ mocks' = [mocks EXCEPT ![m] = changed]
  /\ UNCHANGED <<slot, outcome, inOrder>>

mockReturnValue(m) ==
  Set(m, [mocks[m] EXCEPT !.hasReturn = TRUE, !.settled = "value"])
mockReturnValueOnce(m) ==
  Set(m, [mocks[m] EXCEPT !.once = Append(@, Fixed("once"))])
mockImplementation(m, f) ==
  Set(m, [mocks[m] EXCEPT !.implementation = f, !.hasReturn = FALSE, !.settled = "function"])
mockImplementationOnce(m, f) ==
  Set(m, [mocks[m] EXCEPT !.once = Append(@, Calls(f))])

Cleared(m) == [m EXCEPT !.calls = 0, !.results = <<>>]
mockClear(m) == Set(m, Cleared(mocks[m]))

Emptied(m) ==
  [Cleared(m) EXCEPT !.implementation = Nil, !.once = <<>>, !.hasReturn = FALSE, !.settled = "new"]
mockReset(m) == Set(m, Emptied(mocks[m]))

(* MISTAKE: a spy that was restored already is restored again. *)
PutBackAlways(state, m) ==
  [slot |-> [state.slot EXCEPT ![state.mocks[m].object] = state.mocks[m].own],
   mocks |-> [state.mocks EXCEPT ![m].active = FALSE]]

PutBack(state, m) ==
  IF ~state.mocks[m].active THEN state
  ELSE [slot |-> [state.slot EXCEPT ![state.mocks[m].object] = state.mocks[m].own],
        mocks |-> [state.mocks EXCEPT ![m].active = FALSE]]

Now == [slot |-> slot, mocks |-> mocks]
Becomes(state) == slot' = state.slot /\ mocks' = state.mocks

Spies(o) == {m \in DOMAIN mocks : mocks[m].object = o}
ActiveSpies(o) == {m \in Spies(o) : mocks[m].active}

mockRestore(m) ==
  IF mocks[m].object = Nil THEN mockReset(m)
  ELSE /\ Step /\ Becomes(PutBack(Now, m))
       /\ inOrder' = (inOrder /\ (mocks[m].active =>
                                    \A later \in ActiveSpies(mocks[m].object) : later <= m))
       /\ UNCHANGED outcome

(* Every spy that is still active, the latest first: undone[n] is what the    *)
(* last n mocks leave.                                                        *)
Undone ==
  LET undone[n \in 0..Len(mocks)] ==
        IF n = 0 THEN Now
        ELSE LET m == Len(mocks) + 1 - n
             IN IF mocks[m].object = Nil THEN undone[n - 1] ELSE PutBack(undone[n - 1], m)
  IN undone
restoreAllMocks ==
  /\ Step
  /\ Becomes(Undone[Len(mocks)])
  /\ UNCHANGED <<outcome, inOrder>>

Init ==
  /\ slot = Original /\ mocks = <<>> /\ outcome = Return(Nil)
  /\ inOrder = TRUE /\ steps = 0

Next ==
  \/ \E f \in Functions \union {Nil} : fn(f)
  \/ \E o \in Objects : spyOn(o)
  \/ \E o \in Objects : Call(Lookup(o))
  \/ \E m \in DOMAIN mocks :
       \/ Call(m) \/ mockReturnValue(m) \/ mockReturnValueOnce(m)
       \/ \E f \in Functions : mockImplementation(m, f) \/ mockImplementationOnce(m, f)
       \/ mockClear(m) \/ mockReset(m) \/ mockRestore(m)
  \/ restoreAllMocks

Spec == Init /\ [][Next]_vars

(* ------------------------------------------------------- properties ------ *)

Newest(ids) == CHOOSE m \in ids : \A other \in ids : other <= m

(* What is under the key of an object is its newest active spy, or what was   *)
(* there before any spy, as long as spies are restored latest first: restored *)
(* twice, or by restoreAllMocks after mockRestore, a spy never takes away     *)
(* another (mock.ts: entry.active, and restoreAllMocks in reverse).           *)
NewestSpyIsInPlace ==
  inOrder => \A o \in Objects :
    slot[o] = IF ActiveSpies(o) = {} THEN Original[o] ELSE Newest(ActiveSpies(o))

(* Once no spy of an object is active, it has its original back, in whatever  *)
(* order they were restored (mock.ts: "mockRestore() or restoreAllMocks puts  *)
(* the original back").                                                       *)
RestoredIsOriginal ==
  \A o \in Objects : ActiveSpies(o) = {} => slot[o] = Original[o]

(* A mock that records a call records one, and as its result what the first   *)
(* caller gets, however many mocks call through to each other in between: the *)
(* error of the innermost function included (invoke).                         *)
EveryMockRecordsTheOutcome ==
  [][\A m \in DOMAIN mocks : mocks'[m].calls > mocks[m].calls =>
       /\ mocks'[m].calls = mocks[m].calls + 1
       /\ mocks'[m].results = Append(mocks[m].results, outcome')]_vars

(* Called with nothing queued, a mock whose last setting is mockReturnValue   *)
(* returns that value, whatever implementation it was made with or given      *)
(* (invoke: "otherwise mockReturnValue overrides the default implementation,  *)
(* as in Jest"), and one last given an implementation calls it, also when it  *)
(* had a return value before: tests/mock.ts:74-77 expects that of the code,   *)
(* although README.md:374-375 of the package says that the value wins.        *)
LastSettingWins ==
  [][\A m \in DOMAIN mocks : mocks'[m].calls > mocks[m].calls /\ mocks[m].once = <<>> =>
       /\ mocks[m].settled = "value" => Last(mocks'[m].results) = Return("value")
       /\ mocks[m].settled = "function" =>
            Last(mocks'[m].results) \in {Return("stub"), Throw("error")}]_vars
=============================================================================
