----------------------------- MODULE MocksProofs ----------------------------
(***************************************************************************)
(* What Mocks promises, proved for any number of mocks, spies and calls:   *)
(* spies come off in order, and a call is recorded by every mock it goes   *)
(* through, with what its caller gets.                                     *)
(***************************************************************************)
EXTENDS Mocks, InductionLemmas, SequenceTheorems

(* The program's own functions. *)
Base == {Method, Returns, Raises}
Behaviours == [kind : {"return"}, do : {"once"}] \cup [kind : {"implementation"}, do : Functions]
Outcomes == [type : {"return", "throw"},
             value : {Nil, "original", "stub", "error", "value", "once"}]
MockRecords ==
  [implementation : Base \cup {Nil} \cup Nat, once : Seq(Behaviours), hasReturn : BOOLEAN,
   object : Objects \cup {Nil}, own : {Nil, Method} \cup Nat, active : BOOLEAN,
   calls : Nat, results : Seq(Outcomes), settled : {"new", "value", "function"}]

(* Every variable has its type. *)
MocksTypeOK ==
  /\ slot \in [Objects -> {Nil, Method} \cup Nat]
  /\ mocks \in Seq(MockRecords)
  /\ outcome \in Outcomes
  /\ inOrder \in BOOLEAN
  /\ steps \in Nat

(* A mock calls, and a spy puts back, only what was there before it was made. *)
Earlier(r, m) ==
  /\ r.implementation \in Base \cup {Nil} \cup 1..(m - 1)
  /\ r.object # Nil => r.own \in {Original[r.object]} \cup 1..(m - 1)
CalleesInv ==
  /\ \A m \in 1..Len(mocks) : Earlier(mocks[m], m)
  /\ \A o \in Objects : slot[o] \in {Original[o]} \cup 1..Len(mocks)

(* What the last setting left. *)
Settled(r) ==
  /\ r.settled = "value" => r.hasReturn
  /\ r.settled = "function" => ~r.hasReturn /\ r.implementation \in Functions
SettledInv == \A m \in 1..Len(mocks) : Settled(mocks[m])

(* v is the last of S before m, or first when there is none. *)
LastBefore(S, m, first, v) ==
  \/ v = first /\ \A s \in S : ~(s < m)
  \/ v \in S /\ v < m /\ \A s \in S : s < m => s <= v

(* Spies restored latest first lie on each other like a stack: each will put *)
(* back the one below it, and the uppermost one is in place.                 *)
Stacked(S, o, top, sl, ms) ==
  /\ LastBefore(S, top, Original[o], sl[o])
  /\ \A m \in S : LastBefore(S, m, Original[o], ms[m].own)
StackInv ==
  inOrder => \A o \in Objects : Stacked(ActiveSpies(o), o, Len(mocks) + 1, slot, mocks)

MocksInv == MocksTypeOK /\ CalleesInv /\ SettledInv /\ StackInv

-----------------------------------------------------------------------------
(* Mocks, and what a step may do to them without touching the spies.       *)

LEMMA MockFacts ==
  ASSUME MocksTypeOK
  PROVE  /\ Len(mocks) \in Nat /\ DOMAIN mocks = 1..Len(mocks)
         /\ \A m \in 1..Len(mocks) : mocks[m] \in MockRecords
BY LenProperties DEF MocksTypeOK

LEMMA FunctionIsSeq ==
  ASSUME NEW S, NEW n \in Nat, NEW f \in [1..n -> S]
  PROVE  f \in Seq(S) /\ Len(f) = n /\ DOMAIN f = 1..n
OBVIOUS

(* What a call or a setting leaves alone in a mock, and what it may change. *)
SameSpy(r, q) == r.object = q.object /\ r.own = q.own /\ r.active = q.active
Changed(r, q) ==
  /\ q \in MockRecords /\ SameSpy(r, q)
  /\ q.implementation \in {r.implementation, Nil} \cup Functions
  /\ Settled(q)

LEMMA QuietStep ==
  ASSUME MocksInv, slot' = slot, inOrder' = inOrder, outcome' \in Outcomes, steps' \in Nat,
         DOMAIN mocks' = 1..Len(mocks), mocks' = [m \in 1..Len(mocks) |-> mocks'[m]],
         \A m \in 1..Len(mocks) : Changed(mocks[m], mocks'[m])
  PROVE  MocksInv'
<1> DEFINE n == Len(mocks)
<1>1. n \in Nat /\ DOMAIN mocks = 1..n /\ \A m \in 1..n : mocks[m] \in MockRecords
  BY MockFacts DEF MocksInv
<1>2. mocks' \in [1..n -> MockRecords]
  BY DEF Changed
<1>3. mocks' \in Seq(MockRecords) /\ Len(mocks') = n
  <2> HIDE DEF n
  <2> QED BY <1>1, <1>2, FunctionIsSeq
<1>4. MocksTypeOK'
  BY <1>3 DEF MocksInv, MocksTypeOK
<1>5. CalleesInv'
  <2>1. ASSUME NEW m \in 1..n PROVE Earlier(mocks[m], m)' 
    BY DEF MocksInv, CalleesInv, Earlier, Changed, SameSpy, Functions, Base
  <2>2. ASSUME NEW o \in Objects PROVE slot'[o] \in {Original[o]} \cup 1..n
    BY DEF MocksInv, CalleesInv
  <2> HIDE DEF n
  <2> QED BY <1>3, <2>1, <2>2 DEF CalleesInv
<1>6. SettledInv'
  BY <1>3 DEF SettledInv, Changed
<1>7. ASSUME NEW o \in Objects PROVE ActiveSpies(o)' = ActiveSpies(o)
  BY <1>1 DEF ActiveSpies, Spies, Changed, SameSpy
<1>8. ASSUME inOrder, NEW o \in Objects
      PROVE  Stacked(ActiveSpies(o), o, n + 1, slot', mocks')
  <2>1. Stacked(ActiveSpies(o), o, n + 1, slot, mocks)
    BY <1>8 DEF MocksInv, StackInv
  <2>2. \A m \in ActiveSpies(o) : mocks'[m].own = mocks[m].own
    BY <1>1 DEF ActiveSpies, Spies, Changed, SameSpy
  <2> QED BY <2>1, <2>2 DEF Stacked
<1>9. StackInv'
  <2> HIDE DEF n
  <2> QED BY <1>3, <1>7, <1>8 DEF StackInv
<1> QED BY <1>4, <1>5, <1>6, <1>9 DEF MocksInv

(* One setting of one mock. *)
LEMMA SetStep ==
  ASSUME MocksInv, NEW m \in DOMAIN mocks, NEW c, Set(m, c), Changed(mocks[m], c)
  PROVE  MocksInv'
<1> DEFINE n == Len(mocks)
<1>1. n \in Nat /\ DOMAIN mocks = 1..n /\ \A k \in 1..n : mocks[k] \in MockRecords
  BY MockFacts DEF MocksInv
<1>2. /\ slot' = slot /\ inOrder' = inOrder /\ outcome' = outcome /\ steps' = steps + 1
      /\ mocks' = [mocks EXCEPT ![m] = c]
  BY DEF Set, Step
<1>3. DOMAIN mocks' = 1..n /\ \A k \in 1..n : mocks'[k] = IF k = m THEN c ELSE mocks[k]
  BY <1>1, <1>2
<1>4. ASSUME NEW k \in 1..n PROVE Changed(mocks[k], mocks'[k])
  <2>1. Settled(mocks[k])
    BY DEF MocksInv, SettledInv
  <2> QED BY <1>1, <1>3, <2>1 DEF Changed, SameSpy
<1>5. mocks' = [k \in 1..n |-> mocks'[k]]
  BY <1>1, <1>2, <1>3
<1>6. outcome' \in Outcomes /\ steps' \in Nat
  BY <1>2 DEF MocksInv, MocksTypeOK
<1> HIDE DEF n
<1> QED BY <1>2, <1>3, <1>4, <1>5, <1>6, QuietStep DEF n

(* The settings of a mock, each of which leaves the spies alone. *)
LEMMA SettingsInv ==
  ASSUME MocksInv, NEW m \in DOMAIN mocks, NEW f \in Functions,
         \/ mockReturnValue(m) \/ mockReturnValueOnce(m)
         \/ mockImplementation(m, f) \/ mockImplementationOnce(m, f)
         \/ mockClear(m) \/ mockReset(m)
  PROVE  MocksInv'
<1>1. mocks[m] \in MockRecords /\ Settled(mocks[m])
  BY MockFacts DEF MocksInv, SettledInv
<1> DEFINE r == mocks[m]
<1>2. r.once \in Seq(Behaviours) /\ f \in Functions
  BY <1>1 DEF MockRecords
<1>3. Fixed("once") \in Behaviours /\ Calls(f) \in Behaviours
  BY DEF Behaviours, Fixed, Calls
<1>4. CASE mockReturnValue(m)
  <2>1. Changed(r, [r EXCEPT !.hasReturn = TRUE, !.settled = "value"])
    BY <1>1 DEF Changed, SameSpy, Settled, MockRecords
  <2> QED BY <1>4, <2>1, SetStep DEF mockReturnValue
<1>5. CASE mockReturnValueOnce(m)
  <2>1. Append(r.once, Fixed("once")) \in Seq(Behaviours)
    BY <1>2, <1>3
  <2>2. Changed(r, [r EXCEPT !.once = Append(@, Fixed("once"))])
    BY <1>1, <2>1 DEF Changed, SameSpy, Settled, MockRecords
  <2> QED BY <1>5, <2>2, SetStep DEF mockReturnValueOnce
<1>6. CASE mockImplementation(m, f)
  <2>1. Changed(r, [r EXCEPT !.implementation = f, !.hasReturn = FALSE, !.settled = "function"])
    BY <1>1 DEF Changed, SameSpy, Settled, MockRecords, Base, Functions
  <2> QED BY <1>6, <2>1, SetStep DEF mockImplementation
<1>7. CASE mockImplementationOnce(m, f)
  <2>1. Append(r.once, Calls(f)) \in Seq(Behaviours)
    BY <1>2, <1>3
  <2>2. Changed(r, [r EXCEPT !.once = Append(@, Calls(f))])
    BY <1>1, <2>1 DEF Changed, SameSpy, Settled, MockRecords
  <2> QED BY <1>7, <2>2, SetStep DEF mockImplementationOnce
<1>8. CASE mockClear(m)
  <2>1. Changed(r, Cleared(r))
    BY <1>1, EmptySeq DEF Changed, SameSpy, Settled, MockRecords, Cleared
  <2> QED BY <1>8, <2>1, SetStep DEF mockClear
<1>9. CASE mockReset(m)
  <2>1. Changed(r, Emptied(r))
    BY <1>1, EmptySeq DEF Changed, SameSpy, Settled, MockRecords, Emptied, Cleared
  <2> QED BY <1>9, <2>1, SetStep DEF mockReset
<1> QED BY <1>4, <1>5, <1>6, <1>7, <1>8, <1>9

-----------------------------------------------------------------------------
(* A new mock.                                                             *)

LEMMA MakeFacts ==
  ASSUME MocksTypeOK, NEW r \in MockRecords, Make(r)
  PROVE  /\ mocks' \in Seq(MockRecords) /\ Len(mocks') = Len(mocks) + 1
         /\ mocks'[Len(mocks) + 1] = r
         /\ \A m \in 1..Len(mocks) : mocks'[m] = mocks[m]
         /\ DOMAIN mocks' = 1..Len(mocks) + 1
<1>1. mocks \in Seq(MockRecords) /\ mocks' = Append(mocks, r)
  BY DEF Make, MocksTypeOK
<1>2. mocks' \in Seq(MockRecords)
  BY <1>1
<1> QED BY <1>1, <1>2, LenProperties

(* The mocks there were, and r after them. *)
LEMMA MakeStep ==
  ASSUME MocksInv, NEW r \in MockRecords, Make(r), Earlier(r, Len(mocks) + 1), Settled(r)
  PROVE  /\ \A m \in 1..Len(mocks') : Earlier(mocks'[m], m)
         /\ SettledInv'
<1> DEFINE n == Len(mocks)
<1>1. n \in Nat /\ Len(mocks') = n + 1 /\ mocks'[n + 1] = r
      /\ \A m \in 1..n : mocks'[m] = mocks[m]
  BY MakeFacts, MockFacts DEF MocksInv
<1> HIDE DEF n
<1>2. \A m \in 1..n + 1 : m = n + 1 \/ m \in 1..n
  BY <1>1
<1>3. \A m \in 1..n : Earlier(mocks[m], m) /\ Settled(mocks[m])
  BY DEF MocksInv, CalleesInv, SettledInv, n
<1>4. Earlier(r, n + 1)
  BY DEF n
<1> QED BY <1>1, <1>2, <1>3, <1>4 DEF SettledInv

LEMMA FnInv ==
  ASSUME MocksInv, NEW f \in Functions \cup {Nil}, fn(f) PROVE MocksInv'
<1> DEFINE n == Len(mocks)
           r == createMock(f, Nil)
<1>1. n \in Nat /\ DOMAIN mocks = 1..n
  BY MockFacts DEF MocksInv
<1>2. /\ Make(r) /\ slot' = slot /\ outcome' = outcome /\ inOrder' = inOrder /\ steps' = steps
  BY DEF fn
<1>3. r \in MockRecords
  BY EmptySeq DEF createMock, MockRecords, Base, Functions
<1>4. Earlier(r, n + 1) /\ Settled(r) /\ r.object = Nil
  BY DEF createMock, Earlier, Settled, Base, Functions
<1> HIDE DEF r
<1>5. /\ mocks' \in Seq(MockRecords) /\ Len(mocks') = n + 1 /\ mocks'[n + 1] = r
      /\ \A m \in 1..n : mocks'[m] = mocks[m]
      /\ DOMAIN mocks' = 1..n + 1
  BY <1>2, <1>3, MakeFacts DEF MocksInv
<1>6. (\A m \in 1..Len(mocks') : Earlier(mocks'[m], m)) /\ SettledInv'
  BY <1>2, <1>3, <1>4, MakeStep
<1>7. MocksTypeOK'
  BY <1>2, <1>5 DEF MocksInv, MocksTypeOK
<1> HIDE DEF n
<1>8. \A o \in Objects : slot'[o] \in {Original[o]} \cup 1..n + 1
  <2>1. \A o \in Objects : slot[o] \in {Original[o]} \cup 1..n
    BY DEF MocksInv, CalleesInv, n
  <2> QED BY <1>1, <1>2, <2>1
<1>9. CalleesInv'
  BY <1>5, <1>6, <1>8 DEF CalleesInv
<1>10. ASSUME NEW o \in Objects PROVE ActiveSpies(o)' = ActiveSpies(o)
  <2>1. o # Nil /\ \A m \in 1..n + 1 : m = n + 1 \/ m \in 1..n
    BY <1>1, FunctionsAssumption
  <2> QED BY <1>1, <1>4, <1>5, <2>1 DEF ActiveSpies, Spies
<1>11. ASSUME inOrder, NEW o \in Objects
       PROVE  Stacked(ActiveSpies(o), o, n + 2, slot, mocks')
  <2>1. Stacked(ActiveSpies(o), o, n + 1, slot, mocks)
    BY <1>11 DEF MocksInv, StackInv, n
  <2>2. \A m \in ActiveSpies(o) : m \in 1..n /\ m < n + 1 /\ m < n + 2 /\ mocks'[m] = mocks[m]
    BY <1>1, <1>5 DEF ActiveSpies, Spies
  <2> QED BY <2>1, <2>2 DEF Stacked, LastBefore
<1>12. StackInv'
  <2>1. (n + 1) + 1 = n + 2
    BY <1>1
  <2> QED BY <1>2, <1>5, <1>10, <1>11, <2>1 DEF StackInv
<1> QED BY <1>6, <1>7, <1>9, <1>12 DEF MocksInv

(* A spy comes to lie on those that are active. *)
LEMMA SpyOnInv ==
  ASSUME MocksInv, NEW o \in Objects, spyOn(o) PROVE MocksInv'
<1> DEFINE n == Len(mocks)
           r == createMock(Lookup(o), o)
<1>1. n \in Nat /\ DOMAIN mocks = 1..n
  BY MockFacts DEF MocksInv
<1>2. /\ Make(r) /\ slot' = [slot EXCEPT ![o] = n + 1]
      /\ outcome' = outcome /\ inOrder' = inOrder /\ steps' = steps
  BY DEF spyOn
<1>3. /\ o # Nil /\ Method # Nil /\ Nil \notin Nat /\ Method \notin Nat
      /\ "class" \in Objects /\ o \in {"class", "instance"} /\ "class" # "instance"
  BY FunctionsAssumption DEF Objects
<1>4. \A x \in Objects : slot[x] \in {Original[x]} \cup 1..n
  BY DEF MocksInv, CalleesInv
<1>5. Original["class"] = Method /\ (o = "instance" => Original[o] = Nil)
  BY <1>3 DEF Original
<1>6. Lookup(o) \in {Method} \cup 1..n
  <2>1. slot["class"] \in {Method} \cup 1..n
    BY <1>3, <1>4, <1>5
  <2>2. slot[o] # Nil => slot[o] \in {Method} \cup 1..n
    BY <1>3, <1>4, <1>5
  <2> QED BY <2>1, <2>2 DEF Lookup
<1>7. /\ r.implementation = Lookup(o) /\ r.object = o /\ r.own = slot[o] /\ r.active = TRUE
      /\ r.once = <<>> /\ r.hasReturn = FALSE /\ r.calls = 0 /\ r.results = <<>>
      /\ r.settled = "new" /\ r \in MockRecords
  <2>1. slot[o] \in {Nil, Method} \cup Nat
    BY DEF MocksInv, MocksTypeOK
  <2>2. Lookup(o) \in Base \cup {Nil} \cup Nat
    BY <1>1, <1>6 DEF Base
  <2>3. (o # Nil) = TRUE /\ (IF o = Nil THEN Nil ELSE slot[o]) = slot[o]
    BY <1>3
  <2>4. r = [implementation |-> Lookup(o), once |-> <<>>, hasReturn |-> FALSE, object |-> o,
             own |-> slot[o], active |-> TRUE, calls |-> 0, results |-> <<>>, settled |-> "new"]
    BY <2>3 DEF createMock
  <2> HIDE DEF r
  <2> QED BY <2>1, <2>2, <2>4, EmptySeq DEF MockRecords
<1>8. Earlier(r, n + 1) /\ Settled(r)
  <2>1. (n + 1) - 1 = n
    BY <1>1
  <2>2. r.own \in {Original[r.object]} \cup 1..n
    BY <1>4, <1>7
  <2>3. r.implementation \in Base \cup {Nil} \cup 1..n
    BY <1>6, <1>7 DEF Base
  <2> HIDE DEF r, n
  <2> QED BY <1>7, <2>1, <2>2, <2>3 DEF Earlier, Settled
<1> HIDE DEF r
<1>9. /\ mocks' \in Seq(MockRecords) /\ Len(mocks') = n + 1 /\ mocks'[n + 1] = r
      /\ \A m \in 1..n : mocks'[m] = mocks[m]
      /\ DOMAIN mocks' = 1..n + 1
  BY <1>2, <1>7, MakeFacts DEF MocksInv
<1>10. (\A m \in 1..Len(mocks') : Earlier(mocks'[m], m)) /\ SettledInv'
  BY <1>2, <1>7, <1>8, MakeStep
<1> HIDE DEF n
<1>11. /\ slot \in [Objects -> {Nil, Method} \cup Nat] /\ slot'[o] = n + 1
       /\ \A x \in Objects : x # o => slot'[x] = slot[x]
  <2>1. slot \in [Objects -> {Nil, Method} \cup Nat]
    BY DEF MocksInv, MocksTypeOK
  <2> QED BY <1>2, <2>1
<1>12. MocksTypeOK'
  <2>1. slot' \in [Objects -> {Nil, Method} \cup Nat]
    BY <1>1, <1>2, <1>11
  <2> QED BY <1>2, <1>9, <2>1 DEF MocksInv, MocksTypeOK
<1>13. CalleesInv'
  <2>1. \A x \in Objects : slot'[x] \in {Original[x]} \cup 1..n + 1
    BY <1>1, <1>4, <1>11
  <2> QED BY <1>9, <1>10, <2>1 DEF CalleesInv
<1>14. \A m \in 1..n + 1 : m = n + 1 \/ m \in 1..n
  BY <1>1
<1>15. \A m \in 1..n : m \in 1..n + 1 /\ m # n + 1 /\ m < n + 1 /\ m < n + 2 /\ m <= n + 1
  BY <1>1
<1>16. n + 1 \in 1..n + 1 /\ n + 1 < n + 2 /\ ~(n + 1 < n + 1) /\ n + 1 <= n + 1
  BY <1>1
<1>17. ActiveSpies(o)' = ActiveSpies(o) \cup {n + 1}
  BY <1>1, <1>7, <1>9, <1>14, <1>15, <1>16 DEF ActiveSpies, Spies
<1>18. ASSUME NEW x \in Objects, x # o PROVE ActiveSpies(x)' = ActiveSpies(x)
  BY <1>1, <1>7, <1>9, <1>14, <1>15, <1>18 DEF ActiveSpies, Spies
<1>19. \A x \in Objects : ActiveSpies(x) \subseteq 1..n
  BY <1>1 DEF ActiveSpies, Spies
<1>20. ASSUME inOrder, NEW x \in Objects
       PROVE  Stacked(ActiveSpies(x)', x, n + 2, slot', mocks')
  <2>1. Stacked(ActiveSpies(x), x, n + 1, slot, mocks)
    BY <1>20 DEF MocksInv, StackInv, n
  <2>2. CASE x # o
    BY <1>9, <1>11, <1>15, <1>18, <1>19, <2>1, <2>2 DEF Stacked, LastBefore
  <2>3. CASE x = o
    <3>1. LastBefore(ActiveSpies(o), n + 1, Original[o], slot[o])
      BY <2>1, <2>3 DEF Stacked
    <3>2. LastBefore(ActiveSpies(o)', n + 1, Original[o], slot[o])
      BY <1>16, <1>17, <3>1 DEF LastBefore
    <3>3. LastBefore(ActiveSpies(o)', n + 2, Original[o], n + 1)
      BY <1>15, <1>16, <1>17, <1>19 DEF LastBefore
    <3>4. ASSUME NEW m \in ActiveSpies(o)
          PROVE  LastBefore(ActiveSpies(o)', m, Original[o], mocks'[m].own)
      <4>1. m \in 1..n /\ mocks'[m] = mocks[m]
        BY <1>9, <1>19
      <4>2. LastBefore(ActiveSpies(o), m, Original[o], mocks[m].own)
        BY <2>1, <2>3 DEF Stacked
      <4>3. ~(n + 1 < m)
        BY <1>1, <4>1
      <4> QED BY <1>17, <4>1, <4>2, <4>3 DEF LastBefore
    <3>5. \A m \in ActiveSpies(o)' : LastBefore(ActiveSpies(o)', m, Original[o], mocks'[m].own)
      BY <1>7, <1>9, <1>17, <3>2, <3>4
    <3> QED BY <1>11, <2>3, <3>3, <3>5 DEF Stacked
  <2> QED BY <2>2, <2>3
<1>21. StackInv'
  <2>1. (n + 1) + 1 = n + 2
    BY <1>1
  <2> QED BY <1>2, <1>9, <1>20, <2>1 DEF StackInv
<1> QED BY <1>10, <1>12, <1>13, <1>21 DEF MocksInv

-----------------------------------------------------------------------------
(* A call.                                                                 *)

Callable == Base \cup 1..Len(mocks)

(* A function that calls no other one of the mocks. *)
Halts(v) == v \in Base \/ (v \in 1..Len(mocks) /\ Behaviour(mocks[v]).kind = "return")

LEMMA BehaviourFacts ==
  ASSUME MocksInv, NEW m \in 1..Len(mocks)
  PROVE  LET does == Behaviour(mocks[m])
         IN \/ does.kind = "return" /\ does.do \in {Nil, "value", "once"}
            \/ does.kind = "implementation" /\ does.do \in Base \cup 1..(m - 1)
<1> DEFINE r == mocks[m]
<1>1. r \in MockRecords /\ Earlier(r, m)
  BY MockFacts DEF MocksInv, CalleesInv
<1>2. r.once \in Seq(Behaviours) /\ r.implementation \in Base \cup {Nil} \cup 1..(m - 1)
  BY <1>1 DEF MockRecords, Earlier
<1> HIDE DEF r
<1>3. CASE r.once # <<>>
  <2>1. Head(r.once) \in Behaviours
    BY <1>2, <1>3, HeadTailProperties
  <2>2. Behaviour(r) = Head(r.once)
    BY <1>3 DEF Behaviour
  <2> QED BY <2>1, <2>2 DEF r, Behaviours, Functions, Base
<1>4. CASE r.once = <<>>
  BY <1>2, <1>4 DEF r, Behaviour, Fixed, Calls
<1> QED BY <1>3, <1>4

LEMMA CalleeFacts ==
  ASSUME MocksInv, NEW v \in Callable
  PROVE  /\ Callee(v) \in Callable
         /\ Halts(v) => Callee(v) = v
         /\ ~Halts(v) => /\ v \in 1..Len(mocks)
                         /\ Behaviour(mocks[v]).kind = "implementation"
                         /\ Callee(v) = Behaviour(mocks[v]).do
                         /\ Callee(v) \in Base \cup 1..(v - 1)
<1> DEFINE n == Len(mocks)
<1>1. n \in Nat /\ DOMAIN mocks = 1..n
  BY MockFacts DEF MocksInv
<1>2. CASE v \in Base
  <2>1. v \notin 1..n
    BY <1>1, <1>2, FunctionsAssumption DEF Base
  <2> QED BY <1>1, <1>2, <2>1 DEF Callee, Halts, Callable
<1>3. CASE v \in 1..n /\ v \notin Base
  <2>1. \/ Behaviour(mocks[v]).kind = "return"
        \/ /\ Behaviour(mocks[v]).kind = "implementation"
           /\ Behaviour(mocks[v]).do \in Base \cup 1..(v - 1)
    BY <1>3, BehaviourFacts
  <2>2. \A k \in 1..(v - 1) : k \in 1..n
    BY <1>1, <1>3
  <2> HIDE DEF n
  <2> QED BY <1>1, <1>3, <2>1, <2>2 DEF Callee, Halts, Callable, n
<1> QED BY <1>2, <1>3 DEF Callable

LEMMA PathFacts ==
  ASSUME MocksInv, NEW f \in Callable
  PROVE  /\ DOMAIN CallPath(f) = 0..Len(mocks)
         /\ CallPath(f)[0] = f
         /\ \A k \in 1..Len(mocks) : CallPath(f)[k] = Callee(CallPath(f)[k - 1])
         /\ \A k \in 0..Len(mocks) : CallPath(f)[k] \in Callable
<1> DEFINE n == Len(mocks)
           V == Callable
           step == [k \in 1..n |-> [v \in V |-> Callee(v)]]
           path[k \in 0..n] == IF k = 0 THEN f ELSE Callee(path[k - 1])
<1>1. n \in Nat
  BY MockFacts DEF MocksInv
<1>2. \A v \in V : Callee(v) \in V
  BY CalleeFacts
<1>3. step \in [1..n -> [V -> V]]
  <2> HIDE DEF V, n
  <2> QED BY <1>2
<1>4. CallPath(f) = path
  BY DEF CallPath
<1>5. \A k \in 1..n, v \in V : step[k][v] = Callee(v)
  OBVIOUS
<1> HIDE DEF step
<1>6. PICK g \in [0..n -> V] : Recursion(n, f, step, g)
  BY <1>1, <1>3, RecursionExists
<1>7. g = [k \in 0..n |-> IF k = 0 THEN f ELSE Callee(g[k - 1])]
  <2>1. g = [k \in 0..n |-> IF k = 0 THEN f ELSE step[k][g[k - 1]]]
    BY <1>6 DEF Recursion
  <2>2. ASSUME NEW k \in 0..n
        PROVE  (IF k = 0 THEN f ELSE step[k][g[k - 1]]) = IF k = 0 THEN f ELSE Callee(g[k - 1])
    <3>1. k # 0 => k \in 1..n /\ k - 1 \in 0..n
      BY <1>1
    <3>2. k # 0 => g[k - 1] \in V
      BY <3>1
    <3> HIDE DEF V, n
    <3> QED BY <1>5, <3>1, <3>2
  <2> HIDE DEF V, n
  <2> QED BY <2>1, <2>2
<1>8. path = [k \in 0..n |-> IF k = 0 THEN f ELSE Callee(path[k - 1])]
  <2> HIDE DEF V, n
  <2> QED BY <1>7
<1> HIDE DEF path
<1>9. DOMAIN path = 0..n /\ path[0] = f /\ \A k \in 1..n : path[k] = Callee(path[k - 1])
  <2> HIDE DEF n
  <2> QED BY <1>1, <1>8, Predecessors
<1>10. \A k \in 0..n : path[k] \in V
  <2>1. \A k \in 1..n : path[k - 1] \in V => path[k] = step[k][path[k - 1]]
    BY <1>5, <1>9
  <2>2. path[0] \in V
    BY <1>9
  <2> HIDE DEF V, n
  <2> QED BY <1>1, <1>3, <2>1, <2>2, RecursionStays
<1> QED BY <1>4, <1>9, <1>10

(* A function that halts is the last one of the call. *)
LEMMA PathStops ==
  ASSUME MocksInv, NEW f \in Callable, NEW k \in 0..Len(mocks), Halts(CallPath(f)[k])
  PROVE  CallPath(f)[Len(mocks)] = CallPath(f)[k]
<1> DEFINE n == Len(mocks)
           path == CallPath(f)
           T == {j \in Nat : k + j \in 0..n => path[k + j] = path[k]}
<1>1. n \in Nat /\ k \in Nat /\ k <= n
  BY MockFacts DEF MocksInv
<1>2. /\ \A j \in 1..n : path[j] = Callee(path[j - 1])
      /\ path[k] \in Callable
  BY PathFacts
<1>3. Callee(path[k]) = path[k]
  BY <1>2, CalleeFacts
<1> HIDE DEF path, n
<1>4. 0 \in T
  BY <1>1
<1>5. ASSUME NEW j \in Nat, j \in T PROVE j + 1 \in T
  <2> SUFFICES ASSUME k + (j + 1) \in 0..n PROVE path[k + (j + 1)] = path[k]
    OBVIOUS
  <2>1. PICK i \in 1..n : i = k + (j + 1) /\ i - 1 = k + j /\ i - 1 \in 0..n
    <3>1. k + (j + 1) \in 1..n /\ (k + (j + 1)) - 1 = k + j /\ k + j \in 0..n
      BY <1>1
    <3> QED BY <3>1
  <2>2. path[i - 1] = path[k]
    BY <1>5, <2>1
  <2> QED BY <1>2, <1>3, <2>1, <2>2
<1>6. Nat \subseteq T
  <2> HIDE DEF T
  <2> QED BY <1>4, <1>5, NatSetInduction
<1>7. PICK j \in Nat : k + j = n
  <2>1. n - k \in Nat /\ k + (n - k) = n
    BY <1>1
  <2> QED BY <2>1
<1>8. k + j \in 0..n
  BY <1>1, <1>7
<1> QED BY <1>6, <1>7, <1>8 DEF path, n

(* A mock calls only what is earlier, so a call that has not halted has     *)
(* mocks left to go through.                                               *)
LEMMA PathDescends ==
  ASSUME MocksInv, NEW f \in Callable, NEW k \in 0..Len(mocks)
  PROVE  \/ Halts(CallPath(f)[k])
         \/ CallPath(f)[k] \in 1..Len(mocks) /\ CallPath(f)[k] + k <= Len(mocks)
<1> DEFINE n == Len(mocks)
           path == CallPath(f)
           Left(j) == Halts(path[j]) \/ (path[j] \in 1..n /\ path[j] + j <= n)
           T == {j \in Nat : j \in 0..n => Left(j)}
<1>1. n \in Nat
  BY MockFacts DEF MocksInv
<1>2. /\ path[0] = f
      /\ \A j \in 1..n : path[j] = Callee(path[j - 1])
      /\ \A j \in 0..n : path[j] \in Callable
  BY PathFacts
<1>3. \A v \in Callable : Halts(v) \/ v \in 1..n
  BY CalleeFacts
<1> HIDE DEF path
<1>4. 0 \in T
  BY <1>1, <1>2, <1>3
<1>5. ASSUME NEW j \in Nat, j \in T PROVE j + 1 \in T
  <2> SUFFICES ASSUME j + 1 \in 0..n PROVE Left(j + 1)
    OBVIOUS
  <2>1. j \in 0..n /\ j + 1 \in 1..n /\ (j + 1) - 1 = j
    BY <1>1
  <2>2. Left(j)
    BY <1>5, <2>1
  <2>3. path[j + 1] = Callee(path[j]) /\ path[j] \in Callable /\ path[j + 1] \in Callable
    BY <1>2, <2>1
  <2>4. CASE Halts(path[j])
    <3>1. Callee(path[j]) = path[j]
      BY <2>3, <2>4, CalleeFacts
    <3> QED BY <2>3, <2>4, <3>1
  <2>5. CASE ~Halts(path[j])
    <3>1. /\ path[j] \in 1..n /\ path[j] + j <= n
          /\ path[j + 1] \in Base \cup 1..(path[j] - 1)
      BY <2>2, <2>3, <2>5, CalleeFacts
    <3>2. CASE path[j + 1] \in Base
      BY <3>2 DEF Halts
    <3>3. CASE path[j + 1] \in 1..(path[j] - 1)
      <4> HIDE DEF n
      <4> QED BY <1>1, <3>1, <3>3
    <3> QED BY <3>1, <3>2, <3>3
  <2> QED BY <2>4, <2>5
<1>6. Nat \subseteq T
  <2> HIDE DEF T
  <2> QED BY <1>4, <1>5, NatSetInduction
<1> QED BY <1>6 DEF path

(* So every call comes to its end. *)
LEMMA PathEnds ==
  ASSUME MocksInv, NEW f \in Callable
  PROVE  CallPath(f)[Len(mocks)] \in Callable /\ Halts(CallPath(f)[Len(mocks)])
<1> DEFINE n == Len(mocks)
<1>1. n \in Nat /\ n \in 0..n
  BY MockFacts DEF MocksInv
<1>2. CallPath(f)[n] \in Callable
  BY <1>1, PathFacts
<1>3. ~(CallPath(f)[n] \in 1..n /\ CallPath(f)[n] + n <= n)
  BY <1>1
<1>4. Halts(CallPath(f)[n])
  BY <1>1, <1>3, PathDescends
<1> QED BY <1>2, <1>4

LEMMA EndsFacts ==
  ASSUME MocksInv, NEW v \in Callable, Halts(v)
  PROVE  /\ Ends(v) \in Outcomes
         /\ v \in 1..Len(mocks) => Ends(v) = Return(Behaviour(mocks[v]).do)
         /\ v \in Functions => Ends(v) \in {Return("stub"), Throw("error")}
<1>1. Len(mocks) \in Nat
  BY MockFacts DEF MocksInv
<1>2. CASE v \in Base
  <2>1. v \notin 1..Len(mocks)
    BY <1>1, <1>2, FunctionsAssumption DEF Base
  <2> QED BY <1>2, <2>1, FunctionsAssumption DEF Ends, Base, Functions, Return, Throw, Outcomes
<1>3. CASE v \in 1..Len(mocks)
  <2>1. v \notin Base
    BY <1>1, <1>3, FunctionsAssumption DEF Base
  <2>2. Behaviour(mocks[v]).do \in {Nil, "value", "once"}
    BY <1>3, <2>1, BehaviourFacts DEF Halts
  <2>3. Ends(v) = Return(Behaviour(mocks[v]).do)
    BY <2>1 DEF Ends, Base
  <2>4. \A d \in {Nil, "value", "once"} : Return(d) \in Outcomes
    BY DEF Return, Outcomes
  <2> QED BY <2>1, <2>2, <2>3, <2>4 DEF Functions, Base
<1> QED BY <1>2, <1>3 DEF Callable

(* A call changes only what the mocks it goes through record. *)
LEMMA CallFacts ==
  ASSUME MocksInv, NEW f \in Callable, Call(f)
  PROVE  /\ slot' = slot /\ inOrder' = inOrder /\ steps' = steps + 1
         /\ outcome' = Ends(CallPath(f)[Len(mocks)]) /\ outcome' \in Outcomes
         /\ mocks' = [m \in 1..Len(mocks) |->
              IF \E n \in 0..Len(mocks) : CallPath(f)[n] = m THEN AfterCall(mocks[m], outcome')
              ELSE mocks[m]]
<1>1. DOMAIN mocks = 1..Len(mocks) /\ DOMAIN CallPath(f) = 0..Len(mocks)
  BY MockFacts, PathFacts DEF MocksInv
<1>2. outcome' = Ends(CallPath(f)[Len(mocks)])
  BY DEF Call, invoke
<1>3. outcome' \in Outcomes
  BY <1>2, PathEnds, EndsFacts
<1>4. mocks' = [m \in DOMAIN mocks |->
         IF m \in {CallPath(f)[n] : n \in DOMAIN CallPath(f)} THEN AfterCall(mocks[m], outcome')
         ELSE mocks[m]]
  BY DEF Call, invoke
<1>5. slot' = slot /\ inOrder' = inOrder /\ steps' = steps + 1
  BY DEF Call, Step
<1> QED BY <1>1, <1>2, <1>3, <1>4, <1>5

LEMMA CallInv == ASSUME MocksInv, NEW f \in Callable, Call(f) PROVE MocksInv'
<1> DEFINE n == Len(mocks)
<1>1. n \in Nat /\ \A m \in 1..n : mocks[m] \in MockRecords /\ Settled(mocks[m])
  BY MockFacts DEF MocksInv, SettledInv
<1>2. /\ slot' = slot /\ inOrder' = inOrder /\ steps' = steps + 1 /\ outcome' \in Outcomes
      /\ DOMAIN mocks' = 1..n /\ mocks' = [m \in 1..n |-> mocks'[m]]
      /\ \A m \in 1..n : mocks'[m] \in {mocks[m], AfterCall(mocks[m], outcome')}
  <2> DEFINE met(m) == \E k \in 0..n : CallPath(f)[k] = m
  <2>1. mocks' = [m \in 1..n |-> IF met(m) THEN AfterCall(mocks[m], outcome') ELSE mocks[m]]
    BY CallFacts
  <2> HIDE DEF met
  <2>2. DOMAIN mocks' = 1..n /\ mocks' = [m \in 1..n |-> mocks'[m]]
        /\ \A m \in 1..n : mocks'[m] \in {mocks[m], AfterCall(mocks[m], outcome')}
    BY <2>1
  <2> QED BY <2>2, CallFacts
<1>3. ASSUME NEW r \in MockRecords, Settled(r), NEW x \in Outcomes
      PROVE  Changed(r, AfterCall(r, x)) /\ Changed(r, r)
  <2>1. Append(r.results, x) \in Seq(Outcomes)
    BY <1>3 DEF MockRecords
  <2>2. (IF r.once = <<>> THEN r.once ELSE Tail(r.once)) \in Seq(Behaviours)
    BY <1>3, HeadTailProperties DEF MockRecords
  <2>3. r.calls + 1 \in Nat
    BY <1>3 DEF MockRecords
  <2> DEFINE a == Append(r.results, x)
             b == IF r.once = <<>> THEN r.once ELSE Tail(r.once)
             c == r.calls + 1
  <2>4. AfterCall(r, x) = [r EXCEPT !.calls = c, !.once = b, !.results = a]
    BY <1>3 DEF AfterCall, Recorded, MockRecords
  <2> HIDE DEF a, b, c
  <2>5. a \in Seq(Outcomes) /\ b \in Seq(Behaviours) /\ c \in Nat
    BY <2>1, <2>2, <2>3 DEF a, b, c
  <2> QED BY <1>3, <2>4, <2>5 DEF Changed, SameSpy, Settled, MockRecords
<1>4. \A m \in 1..n : Changed(mocks[m], mocks'[m])
  BY <1>1, <1>2, <1>3
<1>5. steps' \in Nat
  BY <1>2 DEF MocksInv, MocksTypeOK
<1> HIDE DEF n
<1> QED BY <1>2, <1>4, <1>5, QuietStep DEF n

-----------------------------------------------------------------------------
(* Taking spies off.                                                       *)

Off(r) == [r EXCEPT !.active = FALSE]
States == [slot : [Objects -> {Nil, Method} \cup Nat], mocks : [1..Len(mocks) -> MockRecords]]

(* What taking some of the spies off, in any order, can leave. *)
Restored(s) ==
  /\ s \in States
  /\ \A o \in Objects : s.slot[o] \in {Original[o]} \cup 1..Len(mocks)
  /\ \A m \in 1..Len(mocks) : s.mocks[m] \in {mocks[m], Off(mocks[m])}

LEMMA OffFacts ==
  ASSUME NEW r \in MockRecords
  PROVE  /\ Off(r) \in MockRecords /\ ~Off(r).active
         /\ Off(r).object = r.object /\ Off(r).own = r.own
         /\ Off(r).implementation = r.implementation
         /\ Settled(r) => Settled(Off(r))
         /\ Off(Off(r)) = Off(r)
         /\ ~r.active => Off(r) = r
BY DEF Off, MockRecords, Settled

LEMMA NowRestored ==
  ASSUME MocksInv PROVE Restored(Now)
<1>1. /\ slot \in [Objects -> {Nil, Method} \cup Nat]
      /\ mocks \in [1..Len(mocks) -> MockRecords]
  BY LenProperties DEF MocksInv, MocksTypeOK
<1>2. Now \in States
  BY <1>1 DEF Now, States
<1> QED BY <1>2 DEF MocksInv, CalleesInv, Restored, Now

LEMMA PutBackFacts ==
  ASSUME MocksInv, NEW s, Restored(s), NEW m \in 1..Len(mocks), mocks[m].object # Nil
  PROVE  /\ Restored(PutBack(s, m))
         /\ \A k \in 1..Len(mocks) :
              PutBack(s, m).mocks[k] = IF k = m THEN Off(s.mocks[m]) ELSE s.mocks[k]
         /\ \A o \in Objects :
              PutBack(s, m).slot[o] =
                IF s.mocks[m].active /\ o = mocks[m].object THEN mocks[m].own ELSE s.slot[o]
<1> DEFINE n == Len(mocks)
           r == s.mocks[m]
           q == PutBack(s, m)
<1>1. /\ n \in Nat
      /\ mocks[m] \in MockRecords /\ mocks[m].own \in {Original[mocks[m].object]} \cup 1..(m - 1)
  BY MockFacts DEF MocksInv, CalleesInv, Earlier
<1>2. /\ s.slot \in [Objects -> {Nil, Method} \cup Nat] /\ s.mocks \in [1..n -> MockRecords]
      /\ r \in MockRecords /\ r \in {mocks[m], Off(mocks[m])}
  BY DEF Restored, States
<1>3. r.object = mocks[m].object /\ r.own = mocks[m].own /\ r.object \in Objects
  <2>1. mocks[m].object \in Objects
    BY <1>1 DEF MockRecords
  <2> QED BY <1>1, <1>2, <2>1, OffFacts
<1>4. CASE ~r.active
  <2>1. q = s /\ Off(r) = r
    BY <1>2, <1>4, OffFacts DEF PutBack
  <2> QED BY <1>4, <2>1
<1>5. CASE r.active
  <2>1. q = [slot |-> [s.slot EXCEPT ![r.object] = r.own],
             mocks |-> [s.mocks EXCEPT ![m] = Off(r)]]
    BY <1>2, <1>5 DEF PutBack, Off
  <2>2. q.slot = [s.slot EXCEPT ![r.object] = r.own] /\ q.mocks = [s.mocks EXCEPT ![m] = Off(r)]
    BY <2>1
  <2> HIDE DEF r, n, q
  <2>3. Off(r) \in MockRecords /\ Off(r) \in {mocks[m], Off(mocks[m])}
    BY <1>1, <1>2, OffFacts
  <2>4. r.own \in {Nil, Method} \cup Nat
    BY <1>2 DEF MockRecords
  <2>5. q.slot \in [Objects -> {Nil, Method} \cup Nat] /\ q.mocks \in [1..n -> MockRecords]
    BY <1>2, <2>2, <2>3, <2>4
  <2>6. /\ \A k \in 1..n : q.mocks[k] = IF k = m THEN Off(r) ELSE s.mocks[k]
        /\ \A o \in Objects : q.slot[o] = IF o = r.object THEN r.own ELSE s.slot[o]
    BY <1>2, <2>2
  <2>7. q \in States
    <3>1. q = [slot |-> q.slot, mocks |-> q.mocks]
      BY <2>1, <2>2
    <3> QED BY <2>5, <3>1 DEF States, n
  <2>8. r.own \in {Original[r.object]} \cup 1..n
    BY <1>1, <1>3 DEF n
  <2>9. Restored(q)
    <3>1. \A o \in Objects : q.slot[o] \in {Original[o]} \cup 1..n
      BY <2>6, <2>8 DEF Restored, n
    <3>2. \A k \in 1..n : q.mocks[k] \in {mocks[k], Off(mocks[k])}
      BY <2>3, <2>6 DEF Restored, n
    <3> QED BY <2>7, <3>1, <3>2 DEF Restored, n
  <2> QED BY <1>3, <1>5, <2>6, <2>9 DEF q, r, n
<1> QED BY <1>4, <1>5

(* Spies that come off leave every mock what it was otherwise. *)
LEMMA RestoredInv ==
  ASSUME MocksInv, NEW s, Restored(s), Becomes(s), outcome' = outcome, inOrder' \in BOOLEAN,
         steps' \in Nat
  PROVE  /\ MocksTypeOK' /\ CalleesInv' /\ SettledInv'
         /\ Len(mocks') = Len(mocks) /\ DOMAIN mocks' = 1..Len(mocks)
<1> DEFINE n == Len(mocks)
<1>1. n \in Nat /\ \A m \in 1..n : mocks[m] \in MockRecords /\ Settled(mocks[m])
                                    /\ Earlier(mocks[m], m)
  BY MockFacts DEF MocksInv, SettledInv, CalleesInv
<1>2. /\ slot' \in [Objects -> {Nil, Method} \cup Nat] /\ mocks' \in [1..n -> MockRecords]
      /\ \A o \in Objects : slot'[o] \in {Original[o]} \cup 1..n
      /\ \A m \in 1..n : mocks'[m] \in {mocks[m], Off(mocks[m])}
  BY DEF Becomes, Restored, States
<1> HIDE DEF n
<1>3. mocks' \in Seq(MockRecords) /\ Len(mocks') = n /\ DOMAIN mocks' = 1..n
  BY <1>1, <1>2, FunctionIsSeq
<1>4. MocksTypeOK'
  BY <1>2, <1>3 DEF MocksInv, MocksTypeOK
<1>5. ASSUME NEW m \in 1..n PROVE Earlier(mocks'[m], m) /\ Settled(mocks'[m])
  <2>1. Settled(Off(mocks[m])) /\ Earlier(Off(mocks[m]), m)
    BY <1>1, OffFacts DEF Earlier
  <2> QED BY <1>1, <1>2, <2>1
<1> QED BY <1>2, <1>3, <1>4, <1>5 DEF CalleesInv, SettledInv, n

LEMMA MockRestoreInv ==
  ASSUME MocksInv, NEW m \in DOMAIN mocks, mockRestore(m) PROVE MocksInv'
<1> DEFINE n == Len(mocks)
           s == PutBack(Now, m)
           o == mocks[m].object
<1>1. n \in Nat /\ DOMAIN mocks = 1..n /\ mocks[m] \in MockRecords
  BY MockFacts DEF MocksInv
<1>2. CASE o = Nil
  <2>1. mockReset(m) /\ Returns \in Functions
    BY <1>2 DEF mockRestore, Functions
  <2> QED BY <2>1, SettingsInv
<1>3. CASE o # Nil
  <2>1. /\ Becomes(s) /\ steps' = steps + 1 /\ outcome' = outcome
        /\ inOrder' = (inOrder /\ (mocks[m].active =>
                                     \A later \in ActiveSpies(o) : later <= m))
    BY <1>3 DEF mockRestore, Step
  <2>2. Restored(Now) /\ Now.slot = slot /\ Now.mocks = mocks
    BY NowRestored DEF Now
  <2>3. /\ Restored(s)
        /\ \A k \in 1..n : s.mocks[k] = IF k = m THEN Off(mocks[m]) ELSE mocks[k]
        /\ \A x \in Objects :
             s.slot[x] = IF mocks[m].active /\ x = o THEN mocks[m].own ELSE slot[x]
    BY <1>1, <1>3, <2>2, PutBackFacts
  <2>4. inOrder' \in BOOLEAN /\ steps' \in Nat
    BY <2>1 DEF MocksInv, MocksTypeOK
  <2> HIDE DEF s
  <2>5. /\ MocksTypeOK' /\ CalleesInv' /\ SettledInv'
        /\ Len(mocks') = n /\ DOMAIN mocks' = 1..n
    BY <2>1, <2>3, <2>4, RestoredInv
  <2>6. /\ \A k \in 1..n : mocks'[k] = IF k = m THEN Off(mocks[m]) ELSE mocks[k]
        /\ \A x \in Objects :
             slot'[x] = IF mocks[m].active /\ x = o THEN mocks[m].own ELSE slot[x]
    BY <2>1, <2>3 DEF Becomes
  <2>7. /\ \A k \in 1..n : mocks'[k].object = mocks[k].object /\ mocks'[k].own = mocks[k].own
        /\ \A k \in 1..n : mocks'[k].active <=> mocks[k].active /\ k # m
    BY <1>1, <2>6, OffFacts
  <2>8. \A x \in Objects : ActiveSpies(x) \subseteq 1..n /\ ActiveSpies(x)' = ActiveSpies(x) \ {m}
    BY <1>1, <2>5, <2>7 DEF ActiveSpies, Spies
  <2> HIDE DEF n
  <2>9. ASSUME inOrder', NEW x \in Objects
        PROVE  Stacked(ActiveSpies(x)', x, n + 1, slot', mocks')
    <3>1. Stacked(ActiveSpies(x), x, n + 1, slot, mocks)
      BY <2>1, <2>9 DEF MocksInv, StackInv, n
    <3>2. CASE ~(mocks[m].active /\ x = o)
      <4>1. m \notin ActiveSpies(x)
        BY <3>2 DEF ActiveSpies, Spies
      <4>2. ActiveSpies(x)' = ActiveSpies(x) /\ slot'[x] = slot[x]
        BY <2>6, <2>8, <3>2, <4>1
      <4>3. \A k \in ActiveSpies(x) : mocks'[k].own = mocks[k].own
        BY <2>7, <2>8
      <4> QED BY <3>1, <4>2, <4>3 DEF Stacked
    <3>3. CASE mocks[m].active /\ x = o
      <4>1. m \in ActiveSpies(x) /\ \A k \in ActiveSpies(x) : k <= m
        BY <2>1, <2>9, <3>3 DEF ActiveSpies, Spies
      <4>2. slot'[x] = mocks[m].own
        BY <2>6, <3>3
      <4>3. \A k \in ActiveSpies(x)' : k \in ActiveSpies(x) /\ k < m /\ k < n + 1
        BY <1>1, <2>8, <4>1
      <4>4. LastBefore(ActiveSpies(x), m, Original[x], mocks[m].own)
        BY <3>1, <4>1 DEF Stacked
      <4>5. LastBefore(ActiveSpies(x)', n + 1, Original[x], mocks[m].own)
        <5>1. CASE mocks[m].own \in ActiveSpies(x) /\ mocks[m].own < m
          <6>1. mocks[m].own \in ActiveSpies(x)' /\ mocks[m].own < n + 1
            BY <1>1, <2>8, <5>1
          <6> QED BY <4>3, <4>4, <5>1, <6>1 DEF LastBefore
        <5>2. CASE ~(mocks[m].own \in ActiveSpies(x) /\ mocks[m].own < m)
          BY <4>3, <4>4, <5>2 DEF LastBefore
        <5> QED BY <5>1, <5>2
      <4>6. ASSUME NEW k \in ActiveSpies(x)'
            PROVE  LastBefore(ActiveSpies(x)', k, Original[x], mocks'[k].own)
        <5>1. k \in 1..n /\ m \in 1..n /\ k < m /\ mocks'[k].own = mocks[k].own
          BY <1>1, <2>7, <2>8, <4>3
        <5>2. LastBefore(ActiveSpies(x), k, Original[x], mocks[k].own)
          BY <3>1, <4>3 DEF Stacked
        <5>3. ~(m < k)
          BY <5>1
        <5> QED BY <2>8, <5>1, <5>2, <5>3 DEF LastBefore
      <4> QED BY <4>2, <4>5, <4>6 DEF Stacked
    <3> QED BY <3>2, <3>3
  <2>10. StackInv'
    BY <2>5, <2>9 DEF StackInv
  <2> QED BY <2>5, <2>10 DEF MocksInv
<1> QED BY <1>2, <1>3

(* The spies before top, and what taking off the later ones has left. *)
Under(o, top) == {m \in ActiveSpies(o) : m < top}
UndoneTo(s, top) ==
  /\ Restored(s)
  /\ \A o \in Objects, m \in 1..Len(mocks) :
       s.mocks[m].object = o /\ s.mocks[m].active <=> m \in Under(o, top)
  /\ inOrder => \A o \in Objects : Stacked(Under(o, top), o, top, s.slot, mocks)

LEMMA UndoStep ==
  ASSUME MocksInv, NEW t \in 1..Len(mocks), NEW s, UndoneTo(s, t + 1)
  PROVE  UndoneTo(IF mocks[t].object = Nil THEN s ELSE PutBack(s, t), t)
<1> DEFINE n == Len(mocks)
           q == IF mocks[t].object = Nil THEN s ELSE PutBack(s, t)
<1>1. /\ n \in Nat /\ DOMAIN mocks = 1..n /\ \A m \in 1..n : mocks[m] \in MockRecords
      /\ t < t + 1 /\ ~(t < t)
  BY MockFacts DEF MocksInv
<1>2. /\ Restored(s)
      /\ \A o \in Objects, m \in 1..n :
           s.mocks[m].object = o /\ s.mocks[m].active <=> m \in Under(o, t + 1)
  BY DEF UndoneTo
<1>3. \A m \in 1..n : s.mocks[m] \in MockRecords /\ s.mocks[m].object = mocks[m].object
                      /\ Off(s.mocks[m]) \in MockRecords /\ ~Off(s.mocks[m]).active
                      /\ Off(s.mocks[m]).object = mocks[m].object
  BY <1>1, <1>2, OffFacts DEF Restored
<1>4. /\ Restored(q)
      /\ \A k \in 1..n :
           q.mocks[k].object = mocks[k].object
           /\ (q.mocks[k].active <=> s.mocks[k].active /\ (k # t \/ mocks[t].object = Nil))
      /\ \A o \in Objects :
           q.slot[o] = IF s.mocks[t].active /\ o = mocks[t].object THEN mocks[t].own
                       ELSE s.slot[o]
  <2>1. CASE mocks[t].object = Nil
    <3>1. q = s /\ Nil \notin Objects
      BY <2>1, FunctionsAssumption
    <3> HIDE DEF q
    <3> QED BY <1>2, <1>3, <2>1, <3>1
  <2>2. CASE mocks[t].object # Nil
    <3>1. q = PutBack(s, t)
      BY <2>2
    <3> HIDE DEF q
    <3>2. /\ Restored(q)
          /\ \A k \in 1..n : q.mocks[k] = IF k = t THEN Off(s.mocks[t]) ELSE s.mocks[k]
          /\ \A o \in Objects :
               q.slot[o] = IF s.mocks[t].active /\ o = mocks[t].object THEN mocks[t].own
                           ELSE s.slot[o]
      BY <1>2, <2>2, <3>1, PutBackFacts
    <3> QED BY <1>3, <2>2, <3>2
  <2> QED BY <2>1, <2>2
<1> HIDE DEF q
<1>5. /\ \A o \in Objects : Under(o, t + 1) \subseteq 1..n
      /\ \A o \in Objects, m \in 1..n : m \in Under(o, t) <=> m \in Under(o, t + 1) /\ m # t
  BY <1>1 DEF Under, ActiveSpies, Spies
<1>6. ASSUME NEW o \in Objects, NEW m \in 1..n
      PROVE  q.mocks[m].object = o /\ q.mocks[m].active <=> m \in Under(o, t)
  <2>1. s.mocks[m].object = o /\ s.mocks[m].active <=> m \in Under(o, t + 1)
    BY <1>2
  <2>2. o # Nil
    BY FunctionsAssumption
  <2> QED BY <1>3, <1>4, <1>5, <2>1, <2>2
<1>7. ASSUME inOrder, NEW o \in Objects
      PROVE  Stacked(Under(o, t), o, t, q.slot, mocks)
  <2>1. Stacked(Under(o, t + 1), o, t + 1, s.slot, mocks)
    BY <1>7 DEF UndoneTo
  <2>2. \A m \in Under(o, t) : m \in Under(o, t + 1) /\ m < t
    <3>1. \A m \in 1..n : m < t => m < t + 1
      BY <1>1
    <3>2. \A m \in Under(o, t) : m \in ActiveSpies(o) /\ m \in 1..n /\ m < t
      BY <1>1 DEF Under, ActiveSpies, Spies
    <3> QED BY <3>1, <3>2 DEF Under
  <2>3. \A m \in Under(o, t + 1) : m \in Nat /\ (m < t \/ m = t) /\ (m < t => m \in Under(o, t))
    <3>1. ASSUME NEW m \in Under(o, t + 1) PROVE m \in 1..n /\ m < t + 1
      BY <1>5 DEF Under
    <3> QED BY <1>1, <1>5, <3>1
  <2>4. \A m \in Under(o, t) : LastBefore(Under(o, t), m, Original[o], mocks[m].own)
    <3> SUFFICES ASSUME NEW m \in Under(o, t)
                 PROVE  LastBefore(Under(o, t), m, Original[o], mocks[m].own)
      OBVIOUS
    <3>1. LastBefore(Under(o, t + 1), m, Original[o], mocks[m].own)
      BY <2>1, <2>2 DEF Stacked
    <3>2. \A v \in Under(o, t + 1) : v < m => v \in Under(o, t)
      <4>1. m \in Nat /\ m < t /\ t \in Nat
        BY <2>2, <2>3
      <4> QED BY <2>3, <4>1
    <3> QED BY <2>2, <3>1, <3>2 DEF LastBefore
  <2>5. CASE t \in Under(o, t + 1)
    <3>1. q.slot[o] = mocks[t].own
      BY <1>2, <1>3, <1>4, <2>5
    <3>2. LastBefore(Under(o, t + 1), t, Original[o], mocks[t].own)
      BY <2>1, <2>5 DEF Stacked
    <3>3. LastBefore(Under(o, t), t, Original[o], mocks[t].own)
      BY <2>2, <2>3, <3>2 DEF LastBefore
    <3> QED BY <2>4, <3>1, <3>3 DEF Stacked
  <2>6. CASE t \notin Under(o, t + 1)
    <3>1. q.slot[o] = s.slot[o]
      BY <1>2, <1>3, <1>4, <2>6
    <3>2. Under(o, t) = Under(o, t + 1)
      BY <2>2, <2>3, <2>6
    <3>3. \A m \in Under(o, t) : m < t /\ m < t + 1
      <4>1. \A m \in Under(o, t) : m \in Nat /\ m < t
        BY <2>2, <2>3
      <4> QED BY <4>1
    <3>4. LastBefore(Under(o, t), t + 1, Original[o], s.slot[o])
      BY <2>1, <3>2 DEF Stacked
    <3>5. LastBefore(Under(o, t), t, Original[o], s.slot[o])
      BY <3>3, <3>4 DEF LastBefore
    <3> QED BY <2>4, <3>1, <3>5 DEF Stacked
  <2> QED BY <2>5, <2>6
<1>8. UndoneTo(q, t)
  BY <1>4, <1>6, <1>7 DEF UndoneTo
<1> QED BY <1>8 DEF q

(* What Undone is: nothing undone at first, then one mock after the other. *)
LEMMA UndoneFacts ==
  ASSUME MocksInv
  PROVE  /\ Undone[0] = Now
         /\ \A k \in 1..Len(mocks) :
              Undone[k] = IF mocks[Len(mocks) + 1 - k].object = Nil THEN Undone[k - 1]
                          ELSE PutBack(Undone[k - 1], Len(mocks) + 1 - k)
<1> DEFINE n == Len(mocks)
           V == {s \in States : Restored(s)}
           next(k, s) == IF mocks[n + 1 - k].object = Nil THEN s ELSE PutBack(s, n + 1 - k)
           step == [k \in 1..n |-> [s \in V |-> next(k, s)]]
           undone[k \in 0..n] ==
             IF k = 0 THEN Now
             ELSE LET m == n + 1 - k
                  IN IF mocks[m].object = Nil THEN undone[k - 1] ELSE PutBack(undone[k - 1], m)
<1>1. n \in Nat /\ \A k \in 1..n : n + 1 - k \in 1..n
  BY MockFacts DEF MocksInv
<1>2. Now \in V
  BY NowRestored DEF Restored
<1>3. ASSUME NEW k \in 1..n, NEW s \in V PROVE next(k, s) \in V
  <2>1. PICK m \in 1..n : m = n + 1 - k
    BY <1>1
  <2>2. CASE mocks[m].object = Nil
    BY <2>1, <2>2
  <2>3. CASE mocks[m].object # Nil
    <3>1. Restored(PutBack(s, m))
      BY <2>3, PutBackFacts
    <3> QED BY <2>1, <2>3, <3>1 DEF Restored
  <2> QED BY <2>2, <2>3
<1>4. step \in [1..n -> [V -> V]]
  <2> HIDE DEF V, n, next
  <2> QED BY <1>3
<1>5. Undone = undone
  BY DEF Undone
<1>6. \A k \in 1..n, s \in V : step[k][s] = next(k, s)
  OBVIOUS
<1> HIDE DEF step
<1>7. PICK g \in [0..n -> V] : Recursion(n, Now, step, g)
  BY <1>1, <1>2, <1>4, RecursionExists
<1>8. g = [k \in 0..n |-> IF k = 0 THEN Now ELSE next(k, g[k - 1])]
  <2>1. g = [k \in 0..n |-> IF k = 0 THEN Now ELSE step[k][g[k - 1]]]
    BY <1>7 DEF Recursion
  <2>2. ASSUME NEW k \in 0..n
        PROVE  (IF k = 0 THEN Now ELSE step[k][g[k - 1]]) = IF k = 0 THEN Now ELSE next(k, g[k - 1])
    <3>1. k # 0 => k \in 1..n /\ k - 1 \in 0..n
      BY <1>1
    <3>2. k # 0 => g[k - 1] \in V
      BY <3>1
    <3> HIDE DEF V, n, next
    <3> QED BY <1>6, <3>1, <3>2
  <2> HIDE DEF V, n, next
  <2> QED BY <2>1, <2>2
<1>9. undone = [k \in 0..n |-> IF k = 0 THEN Now ELSE next(k, undone[k - 1])]
  <2> HIDE DEF V, n
  <2> QED BY <1>8
<1> HIDE DEF undone
<1>10. undone[0] = Now /\ \A k \in 1..n : undone[k] = next(k, undone[k - 1])
  <2> HIDE DEF n, next
  <2> QED BY <1>1, <1>9, Predecessors
<1> QED BY <1>5, <1>10

LEMMA UndoneAll ==
  ASSUME MocksInv PROVE UndoneTo(Undone[Len(mocks)], 1)
<1> DEFINE n == Len(mocks)
           T == {k \in Nat : k \in 0..n => UndoneTo(Undone[k], n + 1 - k)}
<1>1. n \in Nat /\ DOMAIN mocks = 1..n /\ \A m \in 1..n : mocks[m] \in MockRecords
  BY MockFacts DEF MocksInv
<1>2. UndoneTo(Now, n + 1)
  <2>1. Restored(Now) /\ Now.slot = slot /\ Now.mocks = mocks
    BY NowRestored DEF Now
  <2>2. ASSUME NEW o \in Objects PROVE Under(o, n + 1) = ActiveSpies(o)
    BY <1>1 DEF Under, ActiveSpies, Spies
  <2>3. \A o \in Objects, m \in 1..n :
          mocks[m].object = o /\ mocks[m].active <=> m \in ActiveSpies(o)
    BY <1>1 DEF ActiveSpies, Spies
  <2>4. inOrder => \A o \in Objects : Stacked(ActiveSpies(o), o, n + 1, slot, mocks)
    BY DEF MocksInv, StackInv
  <2> HIDE DEF n
  <2> QED BY <2>1, <2>2, <2>3, <2>4 DEF UndoneTo, n
<1>3. 0 \in T
  <2>1. n + 1 - 0 = n + 1 /\ Undone[0] = Now
    BY <1>1, UndoneFacts
  <2> QED BY <1>2, <2>1
<1>4. ASSUME NEW k \in Nat, k \in T PROVE k + 1 \in T
  <2> SUFFICES ASSUME k + 1 \in 0..n PROVE UndoneTo(Undone[k + 1], n + 1 - (k + 1))
    OBVIOUS
  <2>1. PICK j \in 1..n : j = k + 1 /\ j - 1 = k
    BY <1>1
  <2>2. PICK t \in 1..n : t = n + 1 - j /\ t + 1 = n + 1 - k
    <3>1. n + 1 - j \in 1..n /\ (n + 1 - j) + 1 = n + 1 - k
      BY <1>1, <2>1
    <3> QED BY <3>1
  <2>3. UndoneTo(Undone[k], t + 1)
    <3>1. k \in 0..n
      BY <1>1
    <3> QED BY <1>4, <2>2, <3>1
  <2>4. Undone[j] = IF mocks[t].object = Nil THEN Undone[k] ELSE PutBack(Undone[k], t)
    BY <2>1, <2>2, UndoneFacts
  <2>5. UndoneTo(Undone[j], t)
    BY <2>3, <2>4, UndoStep
  <2> QED BY <2>1, <2>2, <2>5
<1>5. Nat \subseteq T
  <2> HIDE DEF T
  <2> QED BY <1>3, <1>4, NatSetInduction
<1>6. n \in 0..n /\ n + 1 - n = 1
  BY <1>1
<1> QED BY <1>1, <1>5, <1>6

(* restoreAllMocks leaves no spy active, and in order, the originals. *)
LEMMA RestoreAllInv ==
  ASSUME MocksInv, restoreAllMocks
  PROVE  /\ MocksInv'
         /\ \A o \in Objects : ActiveSpies(o)' = {} /\ (inOrder => slot'[o] = Original[o])
<1> DEFINE n == Len(mocks)
           s == Undone[n]
<1>1. n \in Nat /\ DOMAIN mocks = 1..n
  BY MockFacts DEF MocksInv
<1>2. Becomes(s) /\ outcome' = outcome /\ inOrder' = inOrder /\ steps' = steps + 1
  BY DEF restoreAllMocks, Step
<1>3. UndoneTo(s, 1)
  BY UndoneAll
<1> HIDE DEF s
<1>4. Restored(s) /\ inOrder' \in BOOLEAN /\ steps' \in Nat
  BY <1>2, <1>3 DEF UndoneTo, MocksInv, MocksTypeOK
<1>5. /\ MocksTypeOK' /\ CalleesInv' /\ SettledInv'
      /\ Len(mocks') = n /\ DOMAIN mocks' = 1..n
  BY <1>2, <1>4, RestoredInv
<1> HIDE DEF n
<1>6. slot' = s.slot /\ mocks' = s.mocks
  BY <1>2 DEF Becomes
<1>7. \A o \in Objects : Under(o, 1) = {}
  BY <1>1 DEF Under, ActiveSpies, Spies
<1>8. ASSUME NEW o \in Objects PROVE ActiveSpies(o)' = {}
  <2>1. \A m \in 1..n : ~(mocks'[m].object = o /\ mocks'[m].active)
    BY <1>3, <1>6, <1>7 DEF UndoneTo, n
  <2> QED BY <1>5, <2>1 DEF ActiveSpies, Spies
<1>9. ASSUME inOrder, NEW o \in Objects PROVE slot'[o] = Original[o]
  <2>1. Stacked({}, o, 1, s.slot, mocks)
    BY <1>3, <1>7, <1>9 DEF UndoneTo
  <2> QED BY <1>6, <2>1 DEF Stacked, LastBefore
<1>10. StackInv'
  <2>1. \A o \in Objects : inOrder => Stacked({}, o, n + 1, slot', mocks')
    BY <1>9 DEF Stacked, LastBefore
  <2> QED BY <1>2, <1>5, <1>8, <2>1 DEF StackInv
<1> QED BY <1>5, <1>8, <1>9, <1>10 DEF MocksInv

-----------------------------------------------------------------------------
(* The specification.                                                      *)

LEMMA InitMocks == Init => MocksInv
<1> SUFFICES ASSUME Init PROVE MocksInv
  OBVIOUS
<1>1. slot = Original /\ mocks = <<>> /\ outcome = Return(Nil) /\ inOrder = TRUE /\ steps = 0
  BY DEF Init
<1>2. Len(mocks) = 0 /\ DOMAIN mocks = {} /\ 1..Len(mocks) = {} /\ mocks \in Seq(MockRecords)
  BY <1>1
<1>3. slot \in [Objects -> {Nil, Method} \cup Nat] /\ \A o \in Objects : slot[o] = Original[o]
  BY <1>1 DEF Original
<1>4. outcome \in Outcomes
  BY <1>1 DEF Return, Outcomes
<1>5. MocksTypeOK
  BY <1>1, <1>2, <1>3, <1>4 DEF MocksTypeOK
<1>6. CalleesInv /\ SettledInv
  BY <1>2, <1>3 DEF CalleesInv, SettledInv
<1>7. \A o \in Objects : ActiveSpies(o) = {}
  BY <1>2 DEF ActiveSpies, Spies
<1>8. StackInv
  BY <1>3, <1>7 DEF StackInv, Stacked, LastBefore
<1> QED BY <1>5, <1>6, <1>8 DEF MocksInv

(* What a test can call is the method, or a mock. *)
LEMMA LookupCallable ==
  ASSUME MocksInv
  PROVE  /\ \A o \in Objects : Lookup(o) \in Callable
         /\ \A m \in DOMAIN mocks : m \in Callable
<1>1. Len(mocks) \in Nat /\ DOMAIN mocks = 1..Len(mocks)
  BY MockFacts DEF MocksInv
<1>2. \A o \in Objects : slot[o] \in {Original[o]} \cup 1..Len(mocks)
  BY DEF MocksInv, CalleesInv
<1>3. Original["class"] = Method /\ Original["instance"] = Nil /\ "class" \in Objects
  BY DEF Original, Objects
<1>4. Nil \notin Nat /\ Nil # Method
  BY FunctionsAssumption
<1>5. ASSUME NEW o \in Objects PROVE Lookup(o) \in Callable
  <2>1. slot["class"] \in Callable
    BY <1>2, <1>3 DEF Callable, Base
  <2>2. slot[o] = Nil \/ slot[o] \in Callable
    BY <1>2, <1>3 DEF Objects, Callable, Base
  <2> QED BY <2>1, <2>2 DEF Lookup
<1> QED BY <1>1, <1>5 DEF Callable

LEMMA NextMocks == ASSUME MocksInv, [Next]_vars PROVE MocksInv'
<1>1. CASE UNCHANGED vars
  <2>1. slot' = slot /\ mocks' = mocks /\ outcome' = outcome /\ inOrder' = inOrder /\ steps' = steps
    BY <1>1 DEF vars
  <2>2. MocksTypeOK' /\ CalleesInv' /\ SettledInv'
    BY <2>1 DEF MocksInv, MocksTypeOK, CalleesInv, SettledInv
  <2>3. StackInv'
    BY <2>1 DEF MocksInv, StackInv, ActiveSpies, Spies
  <2> QED BY <2>2, <2>3 DEF MocksInv
<1>2. CASE \E f \in Functions \cup {Nil} : fn(f)
  BY <1>2, FnInv
<1>3. CASE \E o \in Objects : spyOn(o)
  BY <1>3, SpyOnInv
<1>4. CASE \E o \in Objects : Call(Lookup(o))
  BY <1>4, LookupCallable, CallInv
<1>5. ASSUME NEW m \in DOMAIN mocks,
             \/ Call(m) \/ mockReturnValue(m) \/ mockReturnValueOnce(m)
             \/ \E f \in Functions : mockImplementation(m, f) \/ mockImplementationOnce(m, f)
             \/ mockClear(m) \/ mockReset(m) \/ mockRestore(m)
      PROVE  MocksInv'
  <2>1. CASE Call(m)
    BY <2>1, LookupCallable, CallInv
  <2>2. CASE mockReturnValue(m) \/ mockReturnValueOnce(m) \/ mockClear(m) \/ mockReset(m)
    <3>1. Returns \in Functions
      BY DEF Functions
    <3> QED BY <2>2, <3>1, SettingsInv
  <2>3. CASE \E f \in Functions : mockImplementation(m, f) \/ mockImplementationOnce(m, f)
    BY <2>3, SettingsInv
  <2>4. CASE mockRestore(m)
    BY <2>4, MockRestoreInv
  <2> QED BY <1>5, <2>1, <2>2, <2>3, <2>4
<1>6. CASE restoreAllMocks
  BY <1>6, RestoreAllInv
<1> QED BY <1>1, <1>2, <1>3, <1>4, <1>5, <1>6 DEF Next

(* The stack of spies and what mocks call stay consistent, whatever a test  *)
(* spies on, sets, calls and restores.                                     *)
THEOREM SpecMocksInv == Spec => []MocksInv
<1>1. MocksInv /\ [Next]_vars => MocksInv'
  BY NextMocks
<1> QED BY <1>1, InitMocks, PTL DEF Spec

(* Restored latest first, spies come off one by one: under the key is the  *)
(* newest active spy, or the original.                                     *)
THEOREM SpecNewestSpyIsInPlace == Spec => []NewestSpyIsInPlace
<1>1. ASSUME MocksInv PROVE NewestSpyIsInPlace
  <2> SUFFICES ASSUME inOrder, NEW o \in Objects
               PROVE  slot[o] = IF ActiveSpies(o) = {} THEN Original[o]
                                ELSE Newest(ActiveSpies(o))
    BY DEF NewestSpyIsInPlace
  <2>1. LastBefore(ActiveSpies(o), Len(mocks) + 1, Original[o], slot[o])
    BY <1>1 DEF MocksInv, StackInv, Stacked
  <2>2. \A m \in ActiveSpies(o) : m \in Nat /\ m < Len(mocks) + 1
    <3>1. Len(mocks) \in Nat /\ DOMAIN mocks = 1..Len(mocks)
      BY <1>1, MockFacts DEF MocksInv
    <3> QED BY <3>1 DEF ActiveSpies, Spies
  <2>3. CASE ActiveSpies(o) = {}
    BY <2>1, <2>3 DEF LastBefore
  <2>4. CASE ActiveSpies(o) # {}
    <3>1. slot[o] \in ActiveSpies(o) /\ \A s \in ActiveSpies(o) : s <= slot[o]
      BY <2>1, <2>2, <2>4 DEF LastBefore
    <3>2. \A m \in ActiveSpies(o) : (\A s \in ActiveSpies(o) : s <= m) => m = slot[o]
      BY <2>2, <3>1
    <3> QED BY <2>4, <3>1, <3>2 DEF Newest
  <2> QED BY <2>3, <2>4
<1> QED BY <1>1, SpecMocksInv, PTL

(* Only a call makes a mock's record longer. *)
LEMMA OnlyCallsRecord ==
  ASSUME MocksInv, [Next]_vars, NEW m \in DOMAIN mocks, mocks'[m].calls > mocks[m].calls
  PROVE  \E f \in Callable : Call(f)
<1> SUFFICES ASSUME ~ \E f \in Callable : Call(f) PROVE FALSE
  OBVIOUS
<1>1. /\ Len(mocks) \in Nat /\ DOMAIN mocks = 1..Len(mocks) /\ mocks[m] \in MockRecords
      /\ mocks[m].calls \in Nat
  BY MockFacts DEF MocksInv, MockRecords
<1> SUFFICES mocks'[m].calls \in {mocks[m].calls, 0}
  BY <1>1
<1>2. CASE UNCHANGED vars
  BY <1>2 DEF vars
<1>3. CASE (\E f \in Functions \cup {Nil} : fn(f)) \/ (\E o \in Objects : spyOn(o))
  <2>1. PICK r : Make(r)
    BY <1>3 DEF fn, spyOn
  <2>2. mocks \in Seq(MockRecords) /\ mocks' = Append(mocks, r)
    BY <2>1 DEF Make, MocksInv, MocksTypeOK
  <2>3. mocks'[m] = mocks[m]
    BY <1>1, <2>2
  <2> QED BY <2>3
<1>4. CASE \E o \in Objects : Call(Lookup(o))
  BY <1>4, LookupCallable
<1>5. ASSUME NEW k \in DOMAIN mocks, NEW c, Set(k, c), c.calls \in {mocks[k].calls, 0}
      PROVE  mocks'[m].calls \in {mocks[m].calls, 0}
  BY <1>1, <1>5 DEF Set
<1>6. ASSUME NEW k \in DOMAIN mocks, mockReset(k)
      PROVE  mocks'[m].calls \in {mocks[m].calls, 0}
  <2>1. Emptied(mocks[k]).calls = 0
    BY <1>1, <1>6, MockFacts DEF Emptied, Cleared, MockRecords, MocksInv
  <2> QED BY <1>5, <1>6, <2>1 DEF mockReset
<1>7. ASSUME NEW s, Restored(s), Becomes(s) PROVE mocks'[m].calls = mocks[m].calls
  <2>1. Off(mocks[m]).calls = mocks[m].calls
    BY <1>1 DEF Off, MockRecords
  <2> QED BY <1>1, <1>7, <2>1 DEF Restored, Becomes
<1>8. ASSUME NEW k \in DOMAIN mocks,
             \/ Call(k) \/ mockReturnValue(k) \/ mockReturnValueOnce(k)
             \/ \E f \in Functions : mockImplementation(k, f) \/ mockImplementationOnce(k, f)
             \/ mockClear(k) \/ mockReset(k) \/ mockRestore(k)
      PROVE  mocks'[m].calls \in {mocks[m].calls, 0}
  <2>1. mocks[k] \in MockRecords
    BY MockFacts DEF MocksInv
  <2>2. CASE Call(k)
    BY <2>2, LookupCallable
  <2>3. CASE mockReturnValue(k)
    <3>1. [mocks[k] EXCEPT !.hasReturn = TRUE, !.settled = "value"].calls = mocks[k].calls
      BY <2>1 DEF MockRecords
    <3> QED BY <1>5, <2>3, <3>1 DEF mockReturnValue
  <2>4. CASE mockReturnValueOnce(k)
    <3>1. [mocks[k] EXCEPT !.once = Append(@, Fixed("once"))].calls = mocks[k].calls
      BY <2>1 DEF MockRecords
    <3> QED BY <1>5, <2>4, <3>1 DEF mockReturnValueOnce
  <2>5. ASSUME NEW f \in Functions, mockImplementation(k, f) \/ mockImplementationOnce(k, f)
        PROVE  mocks'[m].calls \in {mocks[m].calls, 0}
    <3>1. /\ [mocks[k] EXCEPT !.implementation = f, !.hasReturn = FALSE,
                              !.settled = "function"].calls = mocks[k].calls
          /\ [mocks[k] EXCEPT !.once = Append(@, Calls(f))].calls = mocks[k].calls
      BY <2>1 DEF MockRecords
    <3> QED BY <1>5, <2>5, <3>1 DEF mockImplementation, mockImplementationOnce
  <2>6. CASE mockClear(k)
    <3>1. Cleared(mocks[k]).calls = 0
      BY <2>1 DEF Cleared, MockRecords
    <3> QED BY <1>5, <2>6, <3>1 DEF mockClear
  <2>7. CASE mockReset(k)
    BY <1>6, <2>7
  <2>8. CASE mockRestore(k)
    <3>1. CASE mocks[k].object = Nil
      BY <1>6, <2>8, <3>1 DEF mockRestore
    <3>2. CASE mocks[k].object # Nil
      <4>1. Restored(PutBack(Now, k))
        BY <1>1, <3>2, NowRestored, PutBackFacts
      <4> QED BY <1>7, <2>8, <3>2, <4>1 DEF mockRestore
    <3> QED BY <3>1, <3>2
  <2> QED BY <1>8, <2>2, <2>3, <2>4, <2>5, <2>6, <2>7, <2>8
<1>9. CASE restoreAllMocks
  <2>1. Restored(Undone[Len(mocks)])
    BY UndoneAll DEF UndoneTo
  <2> QED BY <1>7, <1>9, <2>1 DEF restoreAllMocks
<1> QED BY <1>2, <1>3, <1>4, <1>8, <1>9 DEF Next

(* A mock whose record a call makes longer was on the call's path. *)
LEMMA CallRecords ==
  ASSUME MocksInv, NEW f \in Callable, Call(f), NEW m \in DOMAIN mocks,
         mocks'[m].calls > mocks[m].calls
  PROVE  /\ \E n \in 0..Len(mocks) : CallPath(f)[n] = m
         /\ mocks'[m].calls = mocks[m].calls + 1
         /\ mocks'[m].results = Append(mocks[m].results, outcome')
         /\ Last(mocks'[m].results) = outcome'
<1>1. m \in 1..Len(mocks) /\ mocks[m] \in MockRecords
  BY MockFacts DEF MocksInv
<1>2. mocks[m].calls \in Nat /\ mocks[m].results \in Seq(Outcomes)
  BY <1>1 DEF MockRecords
<1>3. mocks'[m] = IF \E n \in 0..Len(mocks) : CallPath(f)[n] = m
                  THEN AfterCall(mocks[m], outcome') ELSE mocks[m]
  BY <1>1, CallFacts
<1>4. (\E n \in 0..Len(mocks) : CallPath(f)[n] = m) /\ mocks'[m] = AfterCall(mocks[m], outcome')
  BY <1>2, <1>3
<1>5. /\ AfterCall(mocks[m], outcome').calls = mocks[m].calls + 1
      /\ AfterCall(mocks[m], outcome').results = Append(mocks[m].results, outcome')
  BY <1>1 DEF AfterCall, Recorded, MockRecords
<1>6. outcome' \in Outcomes
  BY CallFacts
<1>7. Last(Append(mocks[m].results, outcome')) = outcome'
  BY <1>2, <1>6 DEF Last
<1> QED BY <1>4, <1>5, <1>7

RecordsOutcome ==
  \A m \in DOMAIN mocks : mocks'[m].calls > mocks[m].calls =>
    /\ mocks'[m].calls = mocks[m].calls + 1
    /\ mocks'[m].results = Append(mocks[m].results, outcome')

(* A mock that records a call records one, and as its result what the      *)
(* first caller gets.                                                      *)
THEOREM SpecEveryMockRecordsTheOutcome == Spec => EveryMockRecordsTheOutcome
<1>1. MocksInv /\ [Next]_vars => [RecordsOutcome]_vars
  BY OnlyCallsRecord, CallRecords DEF RecordsOutcome
<1> QED BY <1>1, SpecMocksInv, PTL DEF Spec, EveryMockRecordsTheOutcome, RecordsOutcome

SettingWins ==
  \A m \in DOMAIN mocks : mocks'[m].calls > mocks[m].calls /\ mocks[m].once = <<>> =>
    /\ mocks[m].settled = "value" => Last(mocks'[m].results) = Return("value")
    /\ mocks[m].settled = "function" =>
         Last(mocks'[m].results) \in {Return("stub"), Throw("error")}

LEMMA SettingStep ==
  ASSUME MocksInv, [Next]_vars, NEW m \in DOMAIN mocks,
         mocks'[m].calls > mocks[m].calls, mocks[m].once = <<>>
  PROVE  /\ mocks[m].settled = "value" => Last(mocks'[m].results) = Return("value")
         /\ mocks[m].settled = "function" =>
              Last(mocks'[m].results) \in {Return("stub"), Throw("error")}
<1> DEFINE n == Len(mocks)
<1>1. PICK f \in Callable : Call(f)
  BY OnlyCallsRecord
<1>2. PICK k \in 0..n : CallPath(f)[k] = m
  BY <1>1, CallRecords
<1>3. Last(mocks'[m].results) = Ends(CallPath(f)[n])
  BY <1>1, CallRecords, CallFacts
<1>4. n \in Nat /\ m \in 1..n /\ Settled(mocks[m]) /\ mocks[m] \in MockRecords
  BY MockFacts DEF MocksInv, SettledInv
<1>5. m \in Callable /\ m \notin Base
  BY <1>4, FunctionsAssumption DEF Callable, Base
<1>6. ASSUME mocks[m].settled = "value" PROVE Ends(CallPath(f)[n]) = Return("value")
  <2>1. Behaviour(mocks[m]) = Fixed("value")
    BY <1>4, <1>6 DEF Settled, Behaviour
  <2>2. Halts(m) /\ Behaviour(mocks[m]).do = "value"
    BY <1>4, <2>1 DEF Halts, Fixed
  <2>3. CallPath(f)[n] = m
    BY <1>2, <2>2, PathStops
  <2> QED BY <1>4, <1>5, <2>2, <2>3, EndsFacts
<1>7. ASSUME mocks[m].settled = "function"
      PROVE  Ends(CallPath(f)[n]) \in {Return("stub"), Throw("error")}
  <2>1. ~mocks[m].hasReturn /\ mocks[m].implementation \in Functions
    BY <1>4, <1>7 DEF Settled
  <2>2. mocks[m].implementation # Nil
    BY <2>1, FunctionsAssumption DEF Functions
  <2>3. Behaviour(mocks[m]) = Calls(mocks[m].implementation)
    BY <2>1, <2>2 DEF Behaviour
  <2>4. ~Halts(m)
    BY <1>5, <2>3 DEF Halts, Calls
  <2>5. Callee(m) = mocks[m].implementation
    BY <1>5, <2>3, <2>4, CalleeFacts DEF Calls
  <2>6. m + k <= n
    BY <1>2, <2>4, PathDescends
  <2>7. PICK j \in 1..n : j = k + 1 /\ j - 1 = k /\ j \in 0..n
    <3>1. k + 1 \in 1..n /\ (k + 1) - 1 = k /\ k + 1 \in 0..n
      BY <1>4, <2>6
    <3> QED BY <3>1
  <2>8. CallPath(f)[j] = mocks[m].implementation
    BY <1>2, <2>5, <2>7, PathFacts
  <2>9. /\ mocks[m].implementation \in Callable
        /\ Halts(mocks[m].implementation)
    BY <2>1 DEF Callable, Halts, Base, Functions
  <2>10. CallPath(f)[n] = mocks[m].implementation
    BY <2>7, <2>8, <2>9, PathStops
  <2> QED BY <2>1, <2>9, <2>10, EndsFacts
<1> QED BY <1>3, <1>6, <1>7

(* Called with nothing queued, a mock returns what mockReturnValue was      *)
(* given last, or calls what mockImplementation was given last.            *)
THEOREM SpecLastSettingWins == Spec => LastSettingWins
<1>1. MocksInv /\ [Next]_vars => [SettingWins]_vars
  BY SettingStep DEF SettingWins
<1> QED BY <1>1, SpecMocksInv, PTL DEF Spec, LastSettingWins, SettingWins

(* restoreAllMocks takes every spy off, and gives every object what it had  *)
(* before the first one, unless a spy was restored under a later one.      *)
RestoresAll ==
  restoreAllMocks =>
    \A o \in Objects : ActiveSpies(o)' = {} /\ (inOrder => slot'[o] = Original[o])

(* After restoreAllMocks no spy is active, and the originals are back.      *)
THEOREM SpecRestoresAll == Spec => [][RestoresAll]_vars
<1>1. MocksInv /\ [Next]_vars => [RestoresAll]_vars
  BY RestoreAllInv DEF RestoresAll
<1> QED BY <1>1, SpecMocksInv, PTL DEF Spec

=============================================================================
