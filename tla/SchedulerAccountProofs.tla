----------------------- MODULE SchedulerAccountProofs -----------------------
(***************************************************************************)
(* AccountInv is an invariant of ConnectionScheduler for every value of    *)
(* its constants, and with it the properties of its steps; and             *)
(* ConnectionScheduler implements HttpExchange: each step is one of the    *)
(* exchange's, or leaves every exchange where it is.                       *)
(***************************************************************************)
EXTENDS ConnectionSchedulerProofs, InductionLemmas, SchedulerExchange

-----------------------------------------------------------------------------
(* Totals. *)

(* The element a fold over s takes first. *)
First(s) == CHOOSE x \in s : TRUE

(* What a fold that adds up f says of the set s, with totals g. *)
Sums(f, g, s) == IF s = {} THEN 0 ELSE f[First(s)] + g[s \ {First(s)}]

LEMMA TotalDef ==
  ASSUME NEW f
  PROVE  Total(f) = (CHOOSE g : g = [s \in SUBSET (DOMAIN f) |-> Sums(f, g, s)])[DOMAIN f]
BY DEF Total, MapThenSumSet, MapThenFoldSet, First, Sums

(* For a finite set there is such a fold: it is built set size by set size. *)
LEMMA TotalsExist ==
  ASSUME NEW S, IsFiniteSet(S), NEW f \in [S -> Int]
  PROVE  \E g \in [SUBSET S -> Int] : \A s \in SUBSET S : g[s] = Sums(f, g, s)
<1> DEFINE Upto(n, g) == \A s \in SUBSET S : Cardinality(s) <= n => g[s] = Sums(f, g, s)
           T == {n \in Nat : \E g \in [SUBSET S -> Int] : Upto(n, g)}
<1>1. \A s \in SUBSET S : IsFiniteSet(s) /\ Cardinality(s) \in Nat
  BY FS_Subset, FS_CardinalityType
<1>2. ASSUME NEW s \in SUBSET S, s # {}
      PROVE  /\ First(s) \in s
             /\ s \ {First(s)} \in SUBSET S
             /\ Cardinality(s \ {First(s)}) = Cardinality(s) - 1
  <2>1. First(s) \in s
    BY <1>2 DEF First
  <2> QED BY <1>1, <2>1, FS_RemoveElement
<1>3. 0 \in T
  <2> DEFINE g == [s \in SUBSET S |-> 0]
  <2>1. Upto(0, g)
    <3> SUFFICES ASSUME NEW s \in SUBSET S, Cardinality(s) <= 0 PROVE g[s] = Sums(f, g, s)
      OBVIOUS
    <3>1. s = {}
      BY <1>1, FS_EmptySet
    <3> QED BY <3>1 DEF Sums
  <2>2. g \in [SUBSET S -> Int]
    OBVIOUS
  <2> QED BY <2>1, <2>2
<1>4. ASSUME NEW n \in Nat, n \in T PROVE n + 1 \in T
  <2>1. PICK g \in [SUBSET S -> Int] : Upto(n, g)
    BY <1>4
  <2> DEFINE h == [s \in SUBSET S |-> Sums(f, g, s)]
  <2>2. h \in [SUBSET S -> Int]
    <3> SUFFICES ASSUME NEW s \in SUBSET S PROVE Sums(f, g, s) \in Int
      OBVIOUS
    <3>1. s # {} => f[First(s)] \in Int /\ g[s \ {First(s)}] \in Int
      BY <1>2
    <3> QED BY <3>1 DEF Sums
  <2>3. \A s \in SUBSET S : Cardinality(s) <= n => h[s] = g[s]
    BY <2>1
  <2>4. Upto(n + 1, h)
    <3> SUFFICES ASSUME NEW s \in SUBSET S, Cardinality(s) <= n + 1
                 PROVE  Sums(f, g, s) = Sums(f, h, s)
      OBVIOUS
    <3>1. CASE s = {}
      BY <3>1 DEF Sums
    <3>2. CASE s # {}
      <4>1. h[s \ {First(s)}] = g[s \ {First(s)}]
        <5> HIDE DEF h
        <5> QED BY <1>1, <1>2, <2>3, <3>2
      <4> QED BY <3>2, <4>1 DEF Sums
    <3> QED BY <3>1, <3>2
  <2> HIDE DEF h, Upto
  <2> QED BY <2>2, <2>4
<1>5. Nat \subseteq T
  <2> HIDE DEF T
  <2> QED BY <1>3, <1>4, NatSetInduction
<1>6. PICK g \in [SUBSET S -> Int] : Upto(Cardinality(S), g)
  BY <1>1, <1>5
<1>7. \A s \in SUBSET S : Cardinality(s) <= Cardinality(S)
  BY FS_Subset
<1> QED BY <1>6, <1>7

(* The total of f is the last of the sums of any such fold. *)
LEMMA TotalOfSums ==
  ASSUME NEW S, IsFiniteSet(S), NEW f \in [S -> Int],
         NEW g \in [SUBSET S -> Int], \A s \in SUBSET S : g[s] = Sums(f, g, s)
  PROVE  Total(f) = g[S]
<1> DEFINE Fold(h) == h = [s \in SUBSET S |-> Sums(f, h, s)]
           fold == CHOOSE h : Fold(h)
           T == {n \in Nat : \A s \in SUBSET S : Cardinality(s) <= n => fold[s] = g[s]}
<1>1. Fold(g)
  OBVIOUS
<1>2. Fold(fold)
  BY <1>1
<1>3. Total(f) = fold[S]
  BY TotalDef
<1> HIDE DEF fold
<1>4. \A s \in SUBSET S : fold[s] = Sums(f, fold, s)
  BY <1>2
<1>5. \A s \in SUBSET S : IsFiniteSet(s) /\ Cardinality(s) \in Nat
  BY FS_Subset, FS_CardinalityType
<1>6. 0 \in T
  <2> SUFFICES ASSUME NEW s \in SUBSET S, Cardinality(s) <= 0 PROVE fold[s] = g[s]
    OBVIOUS
  <2>1. s = {}
    BY <1>5, FS_EmptySet
  <2> QED BY <1>4, <2>1 DEF Sums
<1>7. ASSUME NEW n \in Nat, n \in T PROVE n + 1 \in T
  <2> SUFFICES ASSUME NEW s \in SUBSET S, Cardinality(s) <= n + 1
               PROVE  fold[s] = g[s]
    OBVIOUS
  <2> SUFFICES ASSUME s # {} PROVE fold[s] = g[s]
    BY <1>4 DEF Sums
  <2>1. First(s) \in s
    BY DEF First
  <2>2. s \ {First(s)} \in SUBSET S /\ Cardinality(s \ {First(s)}) = Cardinality(s) - 1
    BY <1>5, <2>1, FS_RemoveElement
  <2>3. fold[s \ {First(s)}] = g[s \ {First(s)}]
    BY <1>5, <1>7, <2>2
  <2> QED BY <1>4, <2>3 DEF Sums
<1>8. Nat \subseteq T
  <2> HIDE DEF T
  <2> QED BY <1>6, <1>7, NatSetInduction
<1>9. S \in SUBSET S /\ Cardinality(S) \in T
  BY <1>5, <1>8
<1> QED BY <1>3, <1>5, <1>9

(* Nothing adds up to nothing. *)
LEMMA TotalOfZeros ==
  ASSUME NEW S, IsFiniteSet(S), NEW f \in [S -> Int], \A x \in S : f[x] = 0
  PROVE  Total(f) = 0
<1> DEFINE g == [s \in SUBSET S |-> 0]
<1>1. g \in [SUBSET S -> Int]
  OBVIOUS
<1>2. ASSUME NEW s \in SUBSET S PROVE g[s] = Sums(f, g, s)
  <2>1. s # {} => First(s) \in s
    BY DEF First
  <2> QED BY <2>1 DEF Sums
<1>3. g[S] = 0
  OBVIOUS
<1> HIDE DEF g
<1> QED BY <1>1, <1>2, <1>3, TotalOfSums

(* A value that changes changes the total by as much. *)
LEMMA TotalOfChange ==
  ASSUME NEW S, IsFiniteSet(S), NEW f \in [S -> Int], NEW c \in S, NEW v \in Int
  PROVE  Total([f EXCEPT ![c] = v]) = Total(f) + v - f[c]
<1> DEFINE f1 == [f EXCEPT ![c] = v]
<1>1. PICK g \in [SUBSET S -> Int] : \A s \in SUBSET S : g[s] = Sums(f, g, s)
  BY TotalsExist
<1> DEFINE g1 == [s \in SUBSET S |-> IF c \in s THEN g[s] + v - f[c] ELSE g[s]]
<1>2. f1 \in [S -> Int] /\ g1 \in [SUBSET S -> Int]
  OBVIOUS
<1>3. ASSUME NEW s \in SUBSET S PROVE g1[s] = Sums(f1, g1, s)
  <2>1. CASE s = {}
    BY <1>1, <2>1 DEF Sums
  <2>2. CASE s # {}
    <3> DEFINE x == First(s)
               t == s \ {x}
    <3>1. x \in s /\ x \in S /\ t \in SUBSET S /\ x \notin t /\ (c \in t <=> c \in s /\ c # x)
      BY <2>2 DEF First
    <3>2. g[s] = f[x] + g[t] /\ Sums(f1, g1, s) = f1[x] + g1[t]
      BY <1>1, <2>2 DEF Sums
    <3>3. f1[x] = IF x = c THEN v ELSE f[x]
      BY <3>1
    <3>4. /\ g1[t] = IF c \in t THEN g[t] + v - f[c] ELSE g[t]
          /\ g1[s] = IF c \in s THEN g[s] + v - f[c] ELSE g[s]
      BY <3>1
    <3>5. f[x] \in Int /\ g[t] \in Int /\ g[s] \in Int /\ f[c] \in Int
      BY <3>1
    <3> HIDE DEF f1, g1, x, t
    <3> QED BY <3>1, <3>2, <3>3, <3>4, <3>5
  <2> QED BY <2>1, <2>2
<1>4. g1[S] = g[S] + v - f[c]
  OBVIOUS
<1> HIDE DEF f1, g1
<1>5. Total(f1) = g1[S]
  BY <1>2, <1>3, TotalOfSums
<1>6. Total(f) = g[S]
  BY <1>1, TotalOfSums
<1> QED BY <1>4, <1>5, <1>6 DEF f1

-----------------------------------------------------------------------------
(* What a step may do to a connection. *)

(* How a visit takes its connection from r, with history h, to s and g. *)
Waits(r, h, s, g) == SameProgress(r, s) /\ g = h

Receives(r, h, s, g) ==
  /\ Reading(r) /\ ~Overdue(r) /\ g = h
  /\ s.state \in {"READING_HEADERS", "READING_BODY", "READY_TO_DISPATCH"}

Responds(r, h, s, g) ==
  /\ \/ Reading(r) /\ (Overdue(r) => s.bodyReceived = r.bodyReceived)
     \/ r.state = "DISPATCHING"
  /\ s.state = "WRITING_RESPONSE" /\ s.writePos = 1 /\ g = h

Sends(r, h, s, g) ==
  /\ r.state = "WRITING_RESPONSE" /\ r.writeLeft > 0
  /\ s.state = "WRITING_RESPONSE" /\ g.outcome = "none"
  /\ g.delivered = h.delivered + (s.writePos - r.writePos)

Completes(r, h, s, g) ==
  /\ r.state = "WRITING_RESPONSE" /\ r.writeLeft > 0
  /\ s.state = "CLOSED" /\ s.reserved = 0 /\ g.outcome = "completed"
  /\ g.delivered = h.delivered + (r.length - r.writePos + 1)

Fails(r, h, s, g) ==
  /\ \/ Reading(r) /\ (Overdue(r) => s.bodyReceived = r.bodyReceived)
     \/ r.state = "WRITING_RESPONSE" /\ (r.writeLeft = 0 => g.delivered = h.delivered)
     \/ r.state \in {"READY_TO_DISPATCH", "DISPATCHING"}
  /\ s.state = "CLOSED" /\ s.reserved = 0 /\ g.outcome = "failed"

Moved(r, h, s, g) ==
  \/ Waits(r, h, s, g) \/ Receives(r, h, s, g) \/ Responds(r, h, s, g)
  \/ Sends(r, h, s, g) \/ Completes(r, h, s, g) \/ Fails(r, h, s, g)

(* A step of a visit that takes its connection to s. *)
VisitsTo(s) ==
  /\ pc \in Visiting \cup {"handler"} /\ ~closed
  /\ \E io, d \in Nat : Update(s, io, d) /\ GoesOn(s, io)
  /\ history' \in [Clients -> History]
  /\ \A c \in Clients \ {current} : history'[c] = history[c]
  /\ history'[current].handled = history[current].handled
  /\ Moved(conn[current], history[current], s, history'[current])

VisitMove == \E s \in Connection : VisitsTo(s)

(* Nothing happens to any connection but that its timers run. *)
Quiet ==
  /\ conn' \in [Clients -> Connection]
  /\ \A c \in Clients : SameProgress(conn[c], conn'[c])
  /\ UNCHANGED <<connections, bufferedBodyBytes, history>>

(* The pump's accounts stay as they are. *)
PumpGoesOn ==
  UNCHANGED <<pumping, stats>> /\ budget'.dispatches = budget.dispatches

LEMMA RefuseMove ==
  ASSUME IInv, pc \in Visiting, NEW d \in Nat, Refuse(d) PROVE VisitMove
<1> DEFINE r == [conn[current] EXCEPT !.starved = TRUE]
<1>1. /\ ~closed /\ current \in Clients /\ conn[current] \in Connection
      /\ history \in [Clients -> History]
  BY VisitFacts
<1>2. r \in Connection /\ SameProgress(conn[current], r)
  BY <1>1 DEF Connection, SameProgress
<1>3. Update(r, 0, d) /\ EndVisit(r) /\ history' = history
  BY DEF Refuse
<1> HIDE DEF r
<1>4. VisitsTo(r)
  BY <1>1, <1>2, <1>3 DEF VisitsTo, GoesOn, Moved, Waits
<1> QED BY <1>2, <1>4 DEF VisitMove

LEMMA FailMove ==
  ASSUME IInv, pc \in Visiting, NEW r \in Connection, NEW io \in Nat, Fail(r, io),
         HandledOnce(r, history[current]), r.state # "CLOSED",
         r.bodyReceived = conn[current].bodyReceived,
         Reading(conn[current]) \/ conn[current].state = "WRITING_RESPONSE",
         conn[current].state = "WRITING_RESPONSE" /\ conn[current].writeLeft = 0 => io = 0
  PROVE  VisitMove
<1> DEFINE s == Released(r)
<1>1. /\ ~closed /\ current \in Clients /\ conn[current] \in Connection
      /\ history \in [Clients -> History]
  BY VisitFacts
<1>2. /\ s \in Connection /\ s.state = "CLOSED" /\ s.reserved = 0
      /\ s.bodyReceived = conn[current].bodyReceived
  BY <1>1, ReleasedFacts DEF Released, Connection
<1>3. Update(s, io, 0) /\ EndVisit(s) /\ Note("failed", io)
  BY DEF Fail
<1>4. /\ history' \in [Clients -> History]
      /\ \A c \in Clients \ {current} : history'[c] = history[c]
      /\ history'[current].handled = history[current].handled
  BY <1>1, <1>3, NoteFacts
<1>5. /\ history'[current].outcome = "failed"
      /\ history'[current].delivered = history[current].delivered + io
  BY <1>1, <1>3 DEF Note, History
<1>6. io = 0 => history'[current].delivered = history[current].delivered
  BY <1>1, <1>5 DEF History
<1> HIDE DEF s
<1>7. Fails(conn[current], history[current], s, history'[current])
  BY <1>2, <1>5, <1>6 DEF Fails, Reading
<1>8. VisitsTo(s)
  BY <1>1, <1>3, <1>4, <1>7 DEF VisitsTo, GoesOn, Moved
<1> QED BY <1>2, <1>8 DEF VisitMove

(* A step of a visit that sends nothing and ends nothing. *)
LEMMA SilentMove ==
  ASSUME IInv, pc \in Visiting \cup {"handler"}, ~closed, NEW r \in Connection,
         NEW io \in Nat, NEW d \in Nat, Update(r, io, d), GoesOn(r, io), history' = history,
         \/ Receives(conn[current], history[current], r, history[current])
         \/ Responds(conn[current], history[current], r, history[current])
  PROVE  VisitMove
<1>1. history \in [Clients -> History]
  BY DEF IInv, TypeOK
<1>2. VisitsTo(r)
  BY <1>1 DEF VisitsTo, Moved
<1> QED BY <1>2 DEF VisitMove

-----------------------------------------------------------------------------
(* The actions of a visit as moves. *)

LEMMA RequestExpiredMove ==
  ASSUME IInv, NEW d \in Nat, RequestExpired(d) PROVE VisitMove
<1> DEFINE r == StartResponse(conn[current], ErrorBytes)
<1>1. /\ pc \in Visiting /\ pc = "read"
      /\ Update(r, 0, d) /\ Continue("write", 0) /\ history' = history
  BY DEF RequestExpired, Reject, Visiting
<1>2. ~closed /\ Reading(conn[current]) /\ conn[current] \in Connection
  BY <1>1, VisitFacts DEF StageFits
<1>3. r \in Connection /\ r.state = "WRITING_RESPONSE"
  BY <1>1, VisitFacts, StartResponseFacts, EnvironmentFacts
<1>4. r.writePos = 1 /\ r.bodyReceived = conn[current].bodyReceived
  BY <1>2 DEF StartResponse, Connection
<1> HIDE DEF r
<1>5. GoesOn(r, 0) /\ Responds(conn[current], history[current], r, history[current])
  BY <1>1, <1>2, <1>3, <1>4 DEF GoesOn, Responds
<1> QED BY <1>1, <1>2, <1>3, <1>5, SilentMove

LEMMA ReadRefusedMove == ASSUME IInv, ReadRefused PROVE VisitMove
BY RefuseMove DEF ReadRefused, Visiting

LEMMA VisitThrowsMove == ASSUME IInv, VisitThrows PROVE VisitMove
<1> DEFINE r == conn[current]
           s == Released(r)
<1>1. /\ Update(s, 0, 0) /\ VisitOver(1) /\ Note("failed", 0)
      /\ pc \in Visiting \cup {"handler"} /\ (pc = "handler" => StillDispatching)
      /\ pc \in {"read", "dispatch", "write", "handler"}
  BY DEF VisitThrows, CaughtCount, Visiting
<1>2. /\ ~closed /\ current \in Clients /\ r \in Connection /\ history[current] \in History
      /\ HandledOnce(r, history[current])
  BY <1>1, VisitFacts, HandlerFacts DEF Visiting, ConnOK
<1>3. history \in [Clients -> History]
  BY DEF IInv, TypeOK
<1>4. Reading(r) \/ r.state \in {"READY_TO_DISPATCH", "DISPATCHING", "WRITING_RESPONSE"}
  BY <1>1, <1>2 DEF IInv, StageInv, StageFits
<1>5. /\ s \in Connection /\ s.state = "CLOSED" /\ s.reserved = 0
      /\ s.bodyReceived = r.bodyReceived
  <2>1. r.state # "CLOSED"
    BY <1>4 DEF Reading
  <2> QED BY <1>2, <2>1, ReleasedFacts DEF Released, Connection
<1>6. /\ history' \in [Clients -> History]
      /\ \A c \in Clients \ {current} : history'[c] = history[c]
      /\ history'[current].handled = history[current].handled
  BY <1>1, <1>2, <1>3, NoteFacts
<1>7. /\ history'[current].outcome = "failed"
      /\ history'[current].delivered = history[current].delivered
  BY <1>1, <1>2, <1>3 DEF Note, History
<1> HIDE DEF r, s
<1>8. GoesOn(s, 0)
  BY <1>1, <1>5 DEF GoesOn, EndVisit, ClosedCount
<1>9. Fails(r, history[current], s, history'[current])
  BY <1>4, <1>5, <1>7 DEF Fails
<1>10. VisitsTo(s)
  BY <1>1, <1>2, <1>6, <1>8, <1>9 DEF VisitsTo, Moved, r
<1> QED BY <1>5, <1>10 DEF VisitMove

(* Input that starts a response starts it at the first byte. *)
LEMMA ConsumeResponds ==
  ASSUME NEW r \in Connection, NEW n \in Nat, Consume(r, n).state = "WRITING_RESPONSE",
         Reading(r)
  PROVE  Consume(r, n).writePos = 1
<1>1. ASSUME NEW s, NEW k, "state" \in DOMAIN s
      PROVE  AppendBody(s, k).state # "WRITING_RESPONSE"
  BY <1>1 DEF AppendBody
<1> DEFINE rest == r.headBytes + n - r.req.head
           parsed == [r EXCEPT !.headBytes = 0, !.bodyExpected = r.req.body,
                               !.reserved = r.req.body]
<1>2. CASE r.state = "READING_BODY" \/ r.headBytes + n < r.req.head
  BY <1>2 DEF Consume, AppendBody, Reading, Connection
<1>3. CASE r.state # "READING_BODY" /\ ~(r.headBytes + n < r.req.head)
  <2>1. Consume(r, n) = HeadComplete(r, rest)
    BY <1>3 DEF Consume
  <2>2. /\ "state" \in DOMAIN parsed
        /\ [parsed EXCEPT !.state = "READY_TO_DISPATCH"].state = "READY_TO_DISPATCH"
    BY DEF Connection
  <2>3. HeadComplete(r, rest) \in {StartResponse(r, ErrorBytes),
          [parsed EXCEPT !.state = "READY_TO_DISPATCH"], AppendBody(parsed, rest)}
    BY DEF HeadComplete, Reject
  <2>4. StartResponse(r, ErrorBytes).writePos = 1
    BY DEF StartResponse, Connection
  <2> QED BY <1>1, <2>1, <2>2, <2>3, <2>4
<1> QED BY <1>2, <1>3

(* What n received bytes may make of the connection. *)
LEMMA ReceiveMove ==
  ASSUME IInv, MayReceive, NEW n \in Nat
  PROVE  /\ ~closed /\ pc \in Visiting /\ AfterReceiving(n) \in Connection
         /\ \/ Receives(conn[current], history[current], AfterReceiving(n), history[current])
            \/ Responds(conn[current], history[current], AfterReceiving(n), history[current])
<1> DEFINE r == conn[current]
           q == [r EXCEPT !.idleLeft = IdleTimeout]
           s == AfterReceiving(n)
<1>1. ~closed /\ pc \in Visiting /\ r \in Connection /\ Reading(r) /\ ~Overdue(r)
  BY WantedFacts, VisitFacts DEF MayReceive, RequestOverdue
<1>2. s \in Connection /\ (Reading(s) \/ s.state \in {"READY_TO_DISPATCH", "WRITING_RESPONSE"})
  BY ReceiveFacts
<1>3. ASSUME s.state = "WRITING_RESPONSE" PROVE s.writePos = 1
  <2>1. n # 0
    BY <1>1, <1>3 DEF AfterReceiving, Reading
  <2>2. s = Consume(q, n)
    BY <2>1 DEF AfterReceiving
  <2>3. q \in Connection /\ Reading(q)
    BY <1>1, OptionFacts DEF Connection, Reading
  <2> HIDE DEF q, s
  <2> QED BY <1>3, <2>2, <2>3, ConsumeResponds
<1> QED BY <1>1, <1>2, <1>3 DEF Receives, Responds, Reading

LEMMA ReceiveAllMove == ASSUME IInv, NEW d \in Nat, ReceiveAll(d) PROVE VisitMove
<1> DEFINE r == AfterReceiving(Wanted)
<1>1. /\ MayReceive /\ Update(r, Wanted, d) /\ history' = history
      /\ (Reading(r) /\ Continue("read", Wanted)) \/ AfterInput(r, Wanted)
  BY DEF ReceiveAll
<1>2. GoesOn(r, Wanted)
  BY <1>1 DEF AfterInput, GoesOn
<1>3. Wanted \in Nat
  BY <1>1, WantedFacts
<1> QED BY <1>1, <1>2, <1>3, ReceiveMove, SilentMove

LEMMA ReceivePartMove ==
  ASSUME IInv, NEW n \in Nat, NEW d \in Nat, ReceivePart(n, d) PROVE VisitMove
<1> DEFINE r == AfterReceiving(n)
<1>1. MayReceive /\ Update(r, n, d) /\ history' = history /\ AfterInput(r, n)
  BY DEF ReceivePart
<1>2. GoesOn(r, n)
  BY <1>1 DEF AfterInput, GoesOn
<1> QED BY <1>1, <1>2, ReceiveMove, SilentMove

LEMMA ReceiveFailsMove ==
  ASSUME IInv, NEW n \in Nat, NEW d \in Nat, ReceiveFails(n, d) PROVE VisitMove
<1> DEFINE r == AfterReceiving(n)
           s == Released(r)
<1>1. MayReceive
  BY DEF ReceiveFails
<1>2. /\ ~closed /\ pc \in Visiting /\ r \in Connection
      /\ \/ Receives(conn[current], history[current], r, history[current])
         \/ Responds(conn[current], history[current], r, history[current])
  BY <1>1, ReceiveMove
<1>3. CASE ~Reading(r)
  <2>1. Update(r, n, d) /\ AfterInput(r, n) /\ history' = history
    BY <1>3 DEF ReceiveFails
  <2>2. GoesOn(r, n)
    BY <2>1 DEF AfterInput, GoesOn
  <2> QED BY <1>2, <2>1, <2>2, SilentMove
<1>4. CASE Reading(r)
  <2>1. Update(s, n, d) /\ AfterInput(s, n) /\ Note("failed", 0)
    BY <1>4 DEF ReceiveFails
  <2>2. /\ current \in Clients /\ history \in [Clients -> History]
        /\ ConnOK(r, history[current]) /\ history[current] \in History
        /\ Reading(conn[current])
    BY <1>1, <1>2, VisitFacts, WantedFacts, ReceiveFacts
  <2>3. /\ history' \in [Clients -> History]
        /\ \A c \in Clients \ {current} : history'[c] = history[c]
        /\ history'[current].handled = history[current].handled
    BY <2>1, <2>2, NoteFacts
  <2>4. history'[current].outcome = "failed"
    BY <2>1, <2>2 DEF Note, History
  <2>5. s \in Connection /\ s.state = "CLOSED" /\ s.reserved = 0
    <3>1. s \in Connection /\ s.state = "CLOSED"
      BY <1>2, <2>2, ReleasedFacts DEF ConnOK
    <3>2. s.reserved = 0
      BY <1>2, <1>4 DEF Released, Reading, Connection
    <3> QED BY <3>1, <3>2
  <2>6. ~Overdue(conn[current])
    BY <1>1 DEF MayReceive, RequestOverdue
  <2> HIDE DEF s, r
  <2>7. Fails(conn[current], history[current], s, history'[current])
    BY <2>2, <2>4, <2>5, <2>6 DEF Fails
  <2>8. GoesOn(s, n)
    BY <2>1, <2>5 DEF AfterInput, GoesOn
  <2> QED BY <1>2, <2>1, <2>3, <2>5, <2>7, <2>8 DEF VisitMove, VisitsTo, Moved
<1> QED BY <1>3, <1>4

LEMMA DispatchRefusedMove ==
  ASSUME IInv, NEW d \in Nat, DispatchRefused(d) PROVE VisitMove
BY RefuseMove DEF DispatchRefused, Visiting

LEMMA HandlerEndsMove ==
  ASSUME IInv, NEW n \in Positive, NEW d \in Nat, HandlerEnds(n, d) PROVE VisitMove
<1> DEFINE r == StartResponse(conn[current], n)
<1>1. /\ pc = "handler" /\ StillDispatching
      /\ Update(r, 0, d) /\ Continue("write", 0) /\ history' = history
  BY DEF HandlerEnds
<1>2. /\ ~closed /\ conn[current] \in Connection
      /\ r \in Connection /\ r.state = "WRITING_RESPONSE"
  BY <1>1, HandlerFacts, StartResponseFacts
<1>3. r.writePos = 1
  BY <1>2 DEF StartResponse, Connection
<1> HIDE DEF r
<1>4. GoesOn(r, 0) /\ Responds(conn[current], history[current], r, history[current])
  BY <1>1, <1>2, <1>3 DEF GoesOn, Responds, StillDispatching
<1> QED BY <1>1, <1>2, <1>4, SilentMove

LEMMA ResponseExpiredMove == ASSUME IInv, ResponseExpired PROVE VisitMove
<1>1. pc \in Visiting /\ pc = "write" /\ Fail(conn[current], 0)
  BY DEF ResponseExpired, Visiting
<1>2. conn[current].state = "WRITING_RESPONSE"
  BY <1>1, VisitFacts DEF StageFits
<1> QED BY <1>1, <1>2, VisitFacts, FailMove

LEMMA WriteRefusedMove == ASSUME IInv, WriteRefused PROVE VisitMove
BY RefuseMove DEF WriteRefused, Visiting

(* The socket takes the bytes up to reached and the response goes on. *)
LEMMA SendsMove ==
  ASSUME IInv, MaySend, NEW reached \in conn[current].writePos - 1 .. LastAsked,
         Update(SentUpTo(reached), Sent(reached), 0),
         GoesOn(SentUpTo(reached), Sent(reached)), Note("none", Sent(reached))
  PROVE  VisitMove
<1> DEFINE r == conn[current]
           s == SentUpTo(reached)
           n == Sent(reached)
<1>1. /\ pc \in Visiting /\ r.state = "WRITING_RESPONSE" /\ r.writeLeft > 0
      /\ r.writePos \in Nat /\ LastAsked \in Nat
  BY AskedFacts DEF MaySend
<1>2. ~closed /\ current \in Clients /\ history \in [Clients -> History]
  BY <1>1, VisitFacts
<1>3. /\ s \in Connection /\ n \in Nat /\ s.state = "WRITING_RESPONSE"
      /\ s.writePos = reached + 1
  BY SentFacts
<1>4. n = s.writePos - r.writePos
  <2>1. n = reached - r.writePos + 1
    BY DEF Sent
  <2> HIDE DEF n, r, s
  <2> QED BY <1>1, <1>3, <2>1
<1>5. /\ history' \in [Clients -> History]
      /\ \A c \in Clients \ {current} : history'[c] = history[c]
      /\ history'[current].handled = history[current].handled
  BY <1>2, <1>3, NoteFacts
<1>6. /\ history'[current].outcome = "none"
      /\ history'[current].delivered = history[current].delivered + n
  BY <1>2 DEF Note, History
<1> HIDE DEF n, s
<1>7. Sends(r, history[current], s, history'[current])
  BY <1>1, <1>3, <1>4, <1>6 DEF Sends
<1> QED BY <1>1, <1>2, <1>3, <1>5, <1>7 DEF VisitMove, VisitsTo, Moved, n, s

LEMMA SendPartMove == ASSUME IInv, NEW reached, SendPart(reached) PROVE VisitMove
<1>1. /\ MaySend /\ reached \in conn[current].writePos - 1 .. LastAsked - 1
      /\ Update(SentUpTo(reached), Sent(reached), 0)
      /\ EndVisit(SentUpTo(reached)) /\ Note("none", Sent(reached))
  BY DEF SendPart
<1>2. reached \in conn[current].writePos - 1 .. LastAsked
  BY <1>1, AskedFacts
<1> QED BY <1>1, <1>2, SendsMove DEF GoesOn

LEMMA SendFailsMove == ASSUME IInv, NEW reached, SendFails(reached) PROVE VisitMove
<1>1. /\ MaySend /\ reached \in conn[current].writePos - 1 .. LastAsked - 1
      /\ Fail(SentUpTo(reached), Sent(reached))
  BY DEF SendFails
<1>2. /\ reached \in conn[current].writePos - 1 .. LastAsked /\ pc \in Visiting
      /\ conn[current].state = "WRITING_RESPONSE" /\ conn[current].writeLeft > 0
  BY <1>1, AskedFacts DEF MaySend
<1>3. SentUpTo(reached).bodyReceived = conn[current].bodyReceived
  BY <1>2, VisitFacts DEF SentUpTo, Connection
<1>4. conn[current].writeLeft # 0
  BY <1>2
<1> QED BY <1>1, <1>2, <1>3, <1>4, SentFacts, FailMove

LEMMA SendAllMove == ASSUME IInv, SendAll PROVE VisitMove
<1> DEFINE p == conn[current]
           r == SentUpTo(LastAsked)
           s == Released(r)
           n == Sent(LastAsked)
<1>1. MaySend
  BY DEF SendAll
<1>2. /\ pc \in Visiting /\ p.state = "WRITING_RESPONSE" /\ p.writeLeft > 0
      /\ p.writePos \in Nat /\ p.length \in Nat /\ LastAsked \in Nat
      /\ LastAsked <= p.length /\ LastAsked \in p.writePos - 1 .. LastAsked
  BY <1>1, AskedFacts DEF MaySend
<1>3. /\ r \in Connection /\ n \in Nat /\ HandledOnce(r, history[current])
      /\ r.state = "WRITING_RESPONSE"
      /\ r.writePos = LastAsked + 1 /\ r.length = p.length
  BY <1>1, <1>2, SentFacts
<1>4. CASE r.writePos > r.length
  <2>1. Update(s, n, 0) /\ EndVisit(s) /\ Note("completed", n)
    BY <1>4 DEF SendAll
  <2>2. /\ ~closed /\ current \in Clients /\ history \in [Clients -> History]
        /\ history[current] \in History
    BY <1>2, VisitFacts
  <2>3. /\ history' \in [Clients -> History]
        /\ \A c \in Clients \ {current} : history'[c] = history[c]
        /\ history'[current].handled = history[current].handled
    BY <1>3, <2>1, <2>2, NoteFacts
  <2>4. /\ history'[current].outcome = "completed"
        /\ history'[current].delivered = history[current].delivered + n
    BY <2>1, <2>2 DEF Note, History
  <2>5. s \in Connection /\ s.state = "CLOSED" /\ s.reserved = 0
    <3>1. s \in Connection /\ s.state = "CLOSED"
      BY <1>3, <2>2, ReleasedFacts
    <3>2. s.reserved = 0
      <4> HIDE DEF r
      <4> QED BY <1>3 DEF Released, Connection
    <3> QED BY <3>1, <3>2
  <2>6. n = p.length - p.writePos + 1
    <3>1. n = LastAsked - p.writePos + 1
      BY DEF Sent
    <3> HIDE DEF n, p, r
    <3> QED BY <1>2, <1>3, <1>4, <3>1
  <2> HIDE DEF n, s, r
  <2>7. Completes(p, history[current], s, history'[current])
    BY <1>2, <2>4, <2>5, <2>6 DEF Completes
  <2> QED BY <1>2, <2>1, <2>2, <2>3, <2>5, <2>7, <1>3
          DEF VisitMove, VisitsTo, Moved, GoesOn
<1>5. CASE ~(r.writePos > r.length)
  <2>1. Update(r, n, 0) /\ Note("none", n) /\ (Continue("write", n) \/ EndVisit(r))
    BY <1>5 DEF SendAll
  <2>2. GoesOn(r, n)
    BY <1>1, <1>2, <2>1, SentFacts DEF GoesOn
  <2> QED BY <1>1, <1>2, <2>1, <2>2, SendsMove
<1> QED BY <1>4, <1>5

-----------------------------------------------------------------------------
(* AccountInv, step by step. *)

LEMMA MoveFacts ==
  ASSUME IInv, NEW s \in Connection, VisitsTo(s)
  PROVE  /\ current \in Clients /\ pumping /\ pumping' = pumping
         /\ ~closed /\ closed' = closed /\ connections' = connections
         /\ stats.visited + 1 \in 1..Len(connections)
         /\ connections[stats.visited + 1] = current
         /\ conn \in [Clients -> Connection] /\ conn' \in [Clients -> Connection]
         /\ conn[current].state # "CLOSED" /\ conn'[current] = s
         /\ \A c \in Clients \ {current} : SameProgress(conn[c], conn'[c])
         /\ bufferedBodyBytes' = bufferedBodyBytes + s.reserved - conn[current].reserved
         /\ budget'.dispatches = budget.dispatches
         /\ stats'.dispatched = stats.dispatched
         /\ stats'.active = stats.active /\ stats'.accepted = stats.accepted
         /\ stats'.closed = stats.closed + ClosedCount(s)
<1>1. /\ current \in Clients /\ pumping /\ ~closed
      /\ stats.visited + 1 \in 1..Len(connections)
      /\ connections[stats.visited + 1] = current
      /\ conn \in [Clients -> Connection] /\ conn[current].state # "CLOSED"
  <2>1. /\ pc \in Visiting \cup {"handler"} /\ ~closed
        /\ stats.visited \in Nat /\ Len(connections) \in Nat
        /\ conn \in [Clients -> Connection]
    BY DEF VisitsTo, IInv, TypeOK
  <2>2. /\ stats.visited < Len(connections) /\ connections[stats.visited + 1] = current
        /\ current \in Clients /\ pumping
    BY <2>1 DEF IInv, StageInv, VisitInv
  <2>3. conn[connections[stats.visited + 1]].state # "CLOSED"
    BY <2>1, <2>2 DEF IInv, VisitInv
  <2> QED BY <2>1, <2>2, <2>3
<1>2. PICK io \in Nat, d \in Nat : Update(s, io, d) /\ GoesOn(s, io)
  BY DEF VisitsTo
<1>3. /\ connections' = connections /\ closed' = closed /\ pumping' = pumping
      /\ conn' = [Elapse(d) EXCEPT ![current] = s]
      /\ bufferedBodyBytes' = bufferedBodyBytes + s.reserved - conn[current].reserved
      /\ budget' = [BudgetLater(d) EXCEPT !.io = budget.io - io]
  BY <1>1, <1>2 DEF Update, GoesOn, Continue, EndVisit, VisitOver, Reserve, BudgetLater
<1>4. /\ conn' \in [Clients -> Connection] /\ conn'[current] = s
      /\ \A c \in Clients \ {current} : SameProgress(conn[c], conn'[c])
  BY <1>1, <1>3, ElapseFacts
<1>5. budget'.dispatches = budget.dispatches
  BY <1>3 DEF BudgetLater, IInv, TypeOK
<1>6. /\ stats'.dispatched = stats.dispatched
      /\ stats'.active = stats.active /\ stats'.accepted = stats.accepted
      /\ stats'.closed = stats.closed + ClosedCount(s)
  <2>1. stats \in [accepted : Nat, visited : Nat, dispatched : Nat, closed : Nat, active : Nat]
    BY DEF IInv, TypeOK
  <2>2. CASE EndVisit(s)
    BY <1>1, <2>1, <2>2 DEF EndVisit, VisitOver
  <2>3. CASE ~EndVisit(s)
    <3>1. stats' = stats /\ s.state # "CLOSED"
      BY <1>2, <2>3 DEF GoesOn, Continue, Reading
    <3> QED BY <2>1, <3>1 DEF ClosedCount
  <2> QED BY <2>2, <2>3
<1> QED BY <1>1, <1>3, <1>4, <1>5, <1>6

(* One reservation changes, and the counter by as much. *)
LEMMA BudgetOfChange ==
  ASSUME conn \in [Clients -> Connection], conn' \in [Clients -> Connection],
         BodyBudgetExact, NEW c \in Clients,
         \A x \in Clients \ {c} : conn'[x].reserved = conn[x].reserved,
         bufferedBodyBytes' = bufferedBodyBytes + conn'[c].reserved - conn[c].reserved
  PROVE  BodyBudgetExact'
<1> DEFINE f == [x \in Clients |-> conn[x].reserved]
           g == [x \in Clients |-> conn'[x].reserved]
           v == conn'[c].reserved
<1>1. f \in [Clients -> Int] /\ g \in [Clients -> Int] /\ v \in Int
  BY DEF Connection
<1>2. g = [f EXCEPT ![c] = v] /\ f[c] = conn[c].reserved
  OBVIOUS
<1>3. bufferedBodyBytes = Total(f)
  BY DEF BodyBudgetExact
<1> HIDE DEF f, g
<1>4. Total(g) = Total(f) + v - f[c]
  <2>1. IsFiniteSet(Clients)
    BY EnvironmentAssumption DEF EnvironmentAssumption
  <2> HIDE DEF v
  <2>2. Total([f EXCEPT ![c] = v]) = Total(f) + v - f[c]
    BY <1>1, <2>1, TotalOfChange
  <2> QED BY <1>2, <2>2
<1>5. bufferedBodyBytes' = Total(g)
  BY <1>2, <1>3, <1>4
<1> QED BY <1>5 DEF BodyBudgetExact, g

LEMMA BudgetOfQuiet ==
  ASSUME \A c \in Clients : conn'[c].reserved = conn[c].reserved,
         bufferedBodyBytes' = bufferedBodyBytes, BodyBudgetExact
  PROVE  BodyBudgetExact'
<1>1. [c \in Clients |-> conn'[c].reserved] = [c \in Clients |-> conn[c].reserved]
  OBVIOUS
<1> QED BY <1>1 DEF BodyBudgetExact

LEMMA MoveDelivery ==
  ASSUME IInv, DeliveryInv, NEW s \in Connection, VisitsTo(s) PROVE DeliveryInv'
<1> DEFINE r == conn[current]
           h == history[current]
           g == history'[current]
<1>1. /\ current \in Clients /\ conn'[current] = s /\ r.state # "CLOSED"
      /\ \A c \in Clients \ {current} : SameProgress(conn[c], conn'[c])
      /\ \A c \in Clients \ {current} : history'[c] = history[c]
      /\ r.writePos \in Nat /\ s.writePos \in Nat
  BY MoveFacts DEF VisitsTo, Connection, Positive
<1>2. AccountOK(r, h) /\ Moved(r, h, s, g)
  BY <1>1 DEF DeliveryInv, VisitsTo
<1>3. AccountOK(s, g)
  <2> HIDE DEF r, h, g
  <2>1. CASE Waits(r, h, s, g)
    BY <1>2, <2>1 DEF Waits, SameProgress, AccountOK
  <2>2. CASE Receives(r, h, s, g)
    BY <1>1, <1>2, <2>2 DEF Receives, Reading, AccountOK
  <2>3. CASE Responds(r, h, s, g)
    BY <1>1, <1>2, <2>3 DEF Responds, Reading, AccountOK
  <2>4. CASE Sends(r, h, s, g)
    BY <1>1, <1>2, <2>4 DEF Sends, AccountOK
  <2>5. CASE Completes(r, h, s, g) \/ Fails(r, h, s, g)
    BY <2>5 DEF Completes, Fails, AccountOK
  <2> QED BY <1>2, <2>1, <2>2, <2>3, <2>4, <2>5 DEF Moved
<1>4. ASSUME NEW c \in Clients \ {current} PROVE AccountOK(conn'[c], history'[c])
  BY <1>1, <1>4 DEF DeliveryInv, AccountOK, SameProgress
<1> QED BY <1>1, <1>3, <1>4 DEF DeliveryInv

(* Sets of connections are finite. *)
LEMMA FiniteConnections ==
  ASSUME NEW S \in SUBSET Clients
  PROVE  IsFiniteSet(S) /\ Cardinality(S) \in Nat
BY EnvironmentAssumption, FS_Subset, FS_CardinalityType DEF EnvironmentAssumption

(* A list that repeats nothing is as long as it has members. *)
LEMMA ListLength ==
  ASSUME NEW l \in Seq(Clients),
         \A i, j \in 1..Len(l) : l[i] = l[j] => i = j
  PROVE  Cardinality({l[i] : i \in 1..Len(l)}) = Len(l)
<1> DEFINE n == Len(l)
           S == {l[i] : i \in 1..n}
           f == [i \in 1..n |-> l[i]]
<1>1. n \in Nat
  OBVIOUS
<1>2. f \in Bijection(1..n, S)
  <2>1. f \in [1..n -> S] /\ \A i, j \in 1..n : f[i] = f[j] => i = j
    OBVIOUS
  <2>2. \A x \in S : \E i \in 1..n : f[i] = x
    OBVIOUS
  <2> HIDE DEF f, S, n
  <2> QED BY <2>1, <2>2 DEF Bijection, Injection, Surjection, IsInjective
<1>3. IsFiniteSet(1..n) /\ Cardinality(1..n) = n
  <2>1. n \in Int /\ (1 > n => n = 0) /\ n - 1 + 1 = n
    BY <1>1
  <2> HIDE DEF n
  <2>2. IsFiniteSet(1..n) /\ Cardinality(1..n) = IF 1 > n THEN 0 ELSE n - 1 + 1
    BY <2>1, FS_Interval
  <2> QED BY <2>1, <2>2
<1> HIDE DEF f, S, n
<1>4. ExistsBijection(1..n, S)
  BY <1>2 DEF ExistsBijection
<1>5. Cardinality(S) = n
  BY <1>3, <1>4, FS_Bijection
<1> QED BY <1>5 DEF S, n

(* Between pumps the list holds what is open. *)
LEMMA IdleLength ==
  ASSUME IInv, pc = "idle" PROVE Len(connections) = Cardinality(OpenNow)
<1>1. OpenNow = OpenSlots
  <2>1. OpenSlots \subseteq Clients
    BY ListFacts DEF OpenSlots, IInv
  <2> QED BY <2>1 DEF IInv, VisitInv, OrderInv, OpenNow
<1>2. /\ connections \in Seq(Clients)
      /\ \A i, j \in 1..Len(connections) : connections[i] = connections[j] => i = j
  BY DEF IInv, TypeOK, OrderInv
<1> QED BY <1>1, <1>2, ListLength DEF OpenSlots

(* The visited connection is the only one a visit can close: it is counted *)
(* once.                                                                   *)
LEMMA MoveCount ==
  ASSUME IInv, CountInv, NEW s \in Connection, VisitsTo(s) PROVE CountInv'
<1>1. /\ ~closed /\ ~closed' /\ pumping /\ current \in Clients
      /\ conn[current].state # "CLOSED" /\ conn'[current] = s
      /\ \A c \in Clients \ {current} : conn'[c].state = conn[c].state
      /\ stats'.active = stats.active /\ stats'.accepted = stats.accepted
      /\ stats'.closed = stats.closed + ClosedCount(s)
  BY MoveFacts DEF SameProgress
<1>2. DroppedByClose = {}
  BY <1>1 DEF CountInv
<1>3. DroppedByClose' = {}
  <2>1. history'[current].outcome # "dropped"
    BY <1>1, <1>2
      DEF VisitsTo, Moved, Waits, Receives, Responds, Sends, Completes, Fails,
          DroppedByClose
  <2> QED BY <1>2, <2>1 DEF VisitsTo, DroppedByClose
<1>4. OpenNow' = IF s.state = "CLOSED" THEN OpenNow \ {current} ELSE OpenNow
  BY <1>1 DEF OpenNow
<1>5. /\ IsFiniteSet(OpenNow) /\ Cardinality(OpenNow) \in Nat /\ current \in OpenNow
      /\ IsFiniteSet({}) /\ Cardinality({}) = 0
  BY <1>1, FiniteConnections, FS_EmptySet DEF OpenNow
<1>6. Cardinality(OpenNow \ {current}) = Cardinality(OpenNow) - 1
  BY <1>5, FS_RemoveElement
<1>7. Cardinality(OpenNow') = Cardinality(OpenNow) - ClosedCount(s)
  BY <1>4, <1>5, <1>6 DEF ClosedCount
<1>8. /\ stats.active \in Nat /\ stats.accepted \in Nat /\ stats.closed \in Nat
      /\ ClosedCount(s) \in Nat
  BY DEF IInv, TypeOK, ClosedCount
<1>9. CountedDropped = 0 /\ CountedDropped' = 0
  BY <1>1 DEF CountedDropped
<1>10. Cardinality(OpenNow) = stats.active + stats.accepted - stats.closed
  BY <1>1, <1>2, <1>5, <1>8, <1>9 DEF CountInv
<1>11. Cardinality(OpenNow') + Cardinality(DroppedByClose') =
          stats'.active + stats'.accepted - stats'.closed + CountedDropped'
  BY <1>1, <1>3, <1>5, <1>7, <1>8, <1>9, <1>10
<1> QED BY <1>3, <1>11 DEF CountInv

LEMMA MoveAccount == ASSUME IInv, AccountInv, VisitMove PROVE AccountInv'
<1>1. PICK s \in Connection : VisitsTo(s)
  BY DEF VisitMove
<1>2. DeliveryInv' /\ CountInv'
  BY <1>1, MoveDelivery, MoveCount DEF AccountInv
<1>3. PaidInv'
  BY <1>1, MoveFacts DEF AccountInv, PaidInv
<1>4. BodyBudgetExact'
  BY <1>1, MoveFacts, BudgetOfChange DEF AccountInv, SameProgress
<1> QED BY <1>2, <1>3, <1>4 DEF AccountInv

LEMMA QuietAccount ==
  ASSUME IInv, AccountInv, Quiet, PumpGoesOn \/ ~pumping', closed => closed',
         CountedDropped' = CountedDropped
  PROVE  AccountInv'
<1>1. /\ \A c \in Clients : SameProgress(conn[c], conn'[c])
      /\ connections' = connections /\ history' = history
      /\ bufferedBodyBytes' = bufferedBodyBytes
  BY DEF Quiet
<1>2. DeliveryInv'
  BY <1>1 DEF AccountInv, DeliveryInv, AccountOK, SameProgress
<1>3. PaidInv'
  BY DEF AccountInv, PaidInv, PumpGoesOn
<1>4. OpenNow' = OpenNow /\ DroppedByClose' = DroppedByClose
  BY <1>1 DEF OpenNow, DroppedByClose, SameProgress
<1>5. CountInv'
  BY <1>1, <1>4 DEF AccountInv, CountInv, PumpGoesOn
<1>6. BodyBudgetExact'
  BY <1>1, BudgetOfQuiet DEF AccountInv, SameProgress
<1> QED BY <1>2, <1>3, <1>5, <1>6 DEF AccountInv

LEMMA PumpShape ==
  ASSUME IInv, NEW d \in Nat, Pump(d)
  PROVE  /\ Quiet /\ pc = "idle" /\ pumping' /\ ~closed /\ closed' = closed
         /\ budget'.dispatches = MaxDispatchesPerPump
         /\ stats' = [NoStats EXCEPT !.active = Len(connections)]
<1>1. pc = "idle"
  BY DEF Pump, MayPump, IInv, StageInv
<1>2. conn' = Elapse(d) /\ conn \in [Clients -> Connection]
  BY DEF Pump, IInv, TypeOK
<1> QED BY <1>1, <1>2, ElapseFacts DEF Pump, MayPump, Quiet, server

LEMMA PumpAccount ==
  ASSUME IInv, AccountInv, NEW d \in Nat, Pump(d) PROVE AccountInv'
<1>1. /\ Quiet /\ pc = "idle" /\ pumping' /\ ~closed /\ closed' = closed
      /\ budget'.dispatches = MaxDispatchesPerPump
      /\ stats' = [NoStats EXCEPT !.active = Len(connections)]
  BY PumpShape
<1>2. /\ stats'.active = Len(connections) /\ stats'.accepted = 0
      /\ stats'.closed = 0 /\ stats'.dispatched = 0
      /\ Len(connections) \in Nat
  BY <1>1, ListFacts DEF NoStats, IInv
<1>3. /\ \A c \in Clients : SameProgress(conn[c], conn'[c])
      /\ connections' = connections /\ history' = history
      /\ bufferedBodyBytes' = bufferedBodyBytes
  BY <1>1 DEF Quiet
<1>4. DeliveryInv'
  BY <1>3 DEF AccountInv, DeliveryInv, AccountOK, SameProgress
<1>5. PaidInv'
  BY <1>1, <1>2, OptionFacts DEF PaidInv
<1>6. OpenNow' = OpenNow /\ DroppedByClose' = {}
  BY <1>1, <1>3 DEF OpenNow, DroppedByClose, SameProgress, AccountInv, CountInv
<1>7. CountInv'
  <2>1. Cardinality(OpenNow) = Len(connections)
    BY <1>1, IdleLength
  <2>2. CountedDropped' = 0
    BY <1>1 DEF CountedDropped
  <2> QED BY <1>1, <1>2, <1>6, <2>1, <2>2, FS_EmptySet DEF CountInv
<1>8. BodyBudgetExact'
  BY <1>3, BudgetOfQuiet DEF AccountInv, SameProgress
<1> QED BY <1>4, <1>5, <1>7, <1>8 DEF AccountInv

(* A connection that is accepted takes the place of a closed one, which    *)
(* held nothing.                                                           *)
LEMMA AcceptShape ==
  ASSUME IInv, NEW d \in Nat, NEW c \in Clients, NEW q \in Requests, AcceptClient(c, q, d)
  PROVE  /\ pc = "accept" /\ ~closed /\ closed' = closed /\ pumping' = pumping
         /\ connections' = Append(connections, c)
         /\ conn[c].state = "CLOSED" /\ conn \in [Clients -> Connection]
         /\ conn' \in [Clients -> Connection]
         /\ conn'[c].state = "READING_HEADERS" /\ conn'[c].reserved = 0
         /\ \A x \in Clients \ {c} : SameProgress(conn[x], conn'[x])
         /\ history' = [history EXCEPT ![c] = NoHistory]
         /\ bufferedBodyBytes' = bufferedBodyBytes
         /\ budget'.dispatches = budget.dispatches
         /\ stats' = [stats EXCEPT !.accepted = stats.accepted + 1]
<1> DEFINE r == NewConnection(q, MaxPumpSeconds - Left(budget.time, d))
<1>1. /\ conn' = [Elapse(d) EXCEPT ![c] = r] /\ conn \in [Clients -> Connection]
      /\ pc = "accept" /\ ~closed
  BY DEF AcceptClient, IInv, TypeOK, StageInv
<1>2. IInv'
  BY AcceptClientInv
<1>3. conn' \in [Clients -> Connection]
  BY <1>2 DEF IInv, TypeOK
<1>4. r.state = "READING_HEADERS" /\ r.reserved = 0
  BY DEF NewConnection, ClosedSlot
<1>5. conn'[c] = r /\ \A x \in Clients \ {c} : SameProgress(conn[x], conn'[x])
  BY <1>1, ElapseFacts
<1>6. budget'.dispatches = budget.dispatches
  BY DEF AcceptClient, BudgetLater, IInv, TypeOK
<1> HIDE DEF r
<1> QED BY <1>1, <1>3, <1>4, <1>5, <1>6 DEF AcceptClient

LEMMA EndPumpShape ==
  ASSUME IInv, NEW d \in Nat, EndPump(d)
  PROVE  /\ pc = "visit" /\ ~closed /\ pumping /\ ~pumping' /\ closed' = closed
         /\ connections' = Reorder(stats.visited)
         /\ conn' \in [Clients -> Connection]
         /\ \A c \in Clients : SameProgress(conn[c], conn'[c])
         /\ bufferedBodyBytes' = bufferedBodyBytes
         /\ \A c \in Clients : /\ history'[c].handled = history[c].handled
                               /\ history'[c].delivered = history[c].delivered
                               /\ history'[c].outcome = history[c].outcome
<1>1. /\ pc = "visit" /\ conn' = Elapse(d) /\ conn \in [Clients -> Connection]
      /\ history \in [Clients -> History]
  BY DEF EndPump, IInv, TypeOK
<1>2. ~closed /\ pumping
  BY <1>1 DEF EndPump, IInv, StageInv, Visiting
<1>3. \A c \in Clients : /\ history'[c].handled = history[c].handled
                        /\ history'[c].delivered = history[c].delivered
                        /\ history'[c].outcome = history[c].outcome
  BY <1>1 DEF EndPump, History
<1> QED BY <1>1, <1>2, <1>3, ElapseFacts DEF EndPump, PumpReturns

LEMMA DispatchShape ==
  ASSUME IInv, NEW d \in Nat, Dispatch(d)
  PROVE  /\ pc = "dispatch" /\ ~closed /\ closed' = closed /\ pumping /\ pumping' = pumping
         /\ MayDispatch(d) /\ connections' = connections
         /\ current \in Clients /\ conn[current].state = "READY_TO_DISPATCH"
         /\ conn \in [Clients -> Connection] /\ conn' \in [Clients -> Connection]
         /\ conn'[current].state = "DISPATCHING" /\ conn'[current].reserved = 0
         /\ conn'[current].bodyReceived = conn[current].bodyReceived
         /\ \A c \in Clients \ {current} : SameProgress(conn[c], conn'[c])
         /\ bufferedBodyBytes' = bufferedBodyBytes - conn[current].reserved
         /\ budget' = [BudgetLater(d) EXCEPT !.dispatches = budget.dispatches - 1]
         /\ stats' = [stats EXCEPT !.dispatched = stats.dispatched + 1]
         /\ history' = [history EXCEPT ![current].handled = history[current].handled + 1]
<1> DEFINE r == Dispatched(conn[current])
<1>1. /\ pc = "dispatch" /\ pc \in Visiting /\ MayDispatch(d)
      /\ conn' = [Elapse(d) EXCEPT ![current] = r]
      /\ bufferedBodyBytes' = Reserve(conn[current], r)
      /\ budget' = [BudgetLater(d) EXCEPT !.dispatches = budget.dispatches - 1]
      /\ stats' = [stats EXCEPT !.dispatched = stats.dispatched + 1]
      /\ history' = [history EXCEPT ![current].handled = history[current].handled + 1]
      /\ connections' = connections /\ closed' = closed /\ pumping' = pumping
  BY DEF Dispatch, Visiting, BudgetLater
<1>2. /\ ~closed /\ pumping /\ current \in Clients /\ conn \in [Clients -> Connection]
      /\ conn[current].state = "READY_TO_DISPATCH"
  BY <1>1, VisitFacts DEF IInv, StageInv, TypeOK, StageFits
<1>3. /\ r.state = "DISPATCHING" /\ r.reserved = 0
      /\ r.bodyReceived = conn[current].bodyReceived
  BY <1>2 DEF Dispatched, Connection
<1>4. IInv'
  BY DispatchInv
<1>5. conn' \in [Clients -> Connection]
  BY <1>4 DEF IInv, TypeOK
<1>6. conn'[current] = r /\ \A c \in Clients \ {current} : SameProgress(conn[c], conn'[c])
  BY <1>1, <1>2, ElapseFacts
<1> HIDE DEF r
<1>7. bufferedBodyBytes' = bufferedBodyBytes - conn[current].reserved
  <2>1. bufferedBodyBytes \in Int
    <3>1. TypeOK
      BY Zenon DEF IInv
    <3> QED BY <3>1, Zenon DEF TypeOK
  <2>2. conn[current].reserved \in Nat
    <3>1. conn[current] \in Connection
      BY <1>2
    <3> QED BY <3>1 DEF Connection
  <2>3. bufferedBodyBytes' = bufferedBodyBytes + r.reserved - conn[current].reserved
    BY <1>1 DEF Reserve
  <2> QED BY <1>3, <2>1, <2>2, <2>3
<1> QED BY <1>1, <1>2, <1>3, <1>5, <1>6, <1>7

LEMMA ReleaseShape ==
  ASSUME IInv, ReleaseNext
  PROVE  LET c == Head(connections)
         IN  /\ closed /\ closed' = closed /\ c \in Clients /\ PumpGoesOn
             /\ pc = "closing" /\ pc' = "closing"
             /\ conn \in [Clients -> Connection] /\ conn' \in [Clients -> Connection]
             /\ conn'[c].state = "CLOSED" /\ conn'[c].bodyReceived = conn[c].bodyReceived
             /\ conn'[c].reserved = IF conn[c].state = "CLOSED" THEN conn[c].reserved ELSE 0
             /\ \A x \in Clients \ {c} : conn'[x] = conn[x]
             /\ bufferedBodyBytes' = bufferedBodyBytes + conn'[c].reserved - conn[c].reserved
             /\ history' = IF conn[c].state = "CLOSED" THEN history
                           ELSE [history EXCEPT ![c].outcome = "dropped"]
<1> DEFINE c == Head(connections)
<1>1. /\ closed /\ c \in Clients /\ pc = "closing" /\ pc' = pc
      /\ conn \in [Clients -> Connection] /\ budget' = budget /\ stats' = stats
      /\ pumping' = pumping /\ closed' = closed
      /\ conn' = [conn EXCEPT ![c] = Released(conn[c])]
      /\ bufferedBodyBytes' = Reserve(conn[c], Released(conn[c]))
      /\ history' = IF conn[c].state = "CLOSED" THEN history
                    ELSE [history EXCEPT ![c].outcome = "dropped"]
  BY DEF ReleaseNext, IInv, TypeOK, StageInv, pumpVars
<1>2. IInv'
  BY ReleaseNextInv
<1>3. conn' \in [Clients -> Connection]
  BY <1>2 DEF IInv, TypeOK
<1>4. /\ Released(conn[c]).state = "CLOSED"
      /\ Released(conn[c]).bodyReceived = conn[c].bodyReceived
      /\ Released(conn[c]).reserved = IF conn[c].state = "CLOSED" THEN conn[c].reserved ELSE 0
  BY <1>1 DEF Released, Connection
<1> HIDE DEF c
<1>5. conn'[c] = Released(conn[c]) /\ \A x \in Clients \ {c} : conn'[x] = conn[x]
  BY <1>1
<1> QED BY <1>1, <1>3, <1>4, <1>5 DEF Reserve, PumpGoesOn, c

LEMMA AcceptAccount ==
  ASSUME IInv, AccountInv, NEW d \in Nat, NEW c \in Clients, NEW q \in Requests,
         AcceptClient(c, q, d)
  PROVE  AccountInv'
<1>1. /\ pc = "accept" /\ ~closed /\ closed' = closed /\ pumping' = pumping
      /\ connections' = Append(connections, c)
      /\ conn[c].state = "CLOSED" /\ conn \in [Clients -> Connection]
      /\ conn' \in [Clients -> Connection]
      /\ conn'[c].state = "READING_HEADERS" /\ conn'[c].reserved = 0
      /\ \A x \in Clients \ {c} : SameProgress(conn[x], conn'[x])
      /\ history' = [history EXCEPT ![c] = NoHistory]
      /\ bufferedBodyBytes' = bufferedBodyBytes
      /\ budget'.dispatches = budget.dispatches
      /\ stats' = [stats EXCEPT !.accepted = stats.accepted + 1]
  BY AcceptShape
<1>2. /\ stats \in [accepted : Nat, visited : Nat, dispatched : Nat, closed : Nat, active : Nat]
      /\ history \in [Clients -> History] /\ connections \in Seq(Clients)
  BY DEF IInv, TypeOK
<1>3. /\ stats'.active = stats.active /\ stats'.accepted = stats.accepted + 1
      /\ stats'.closed = stats.closed /\ stats'.dispatched = stats.dispatched
  BY <1>1, <1>2
<1>4. DeliveryInv'
  <2>1. AccountOK(conn'[c], history'[c])
    BY <1>1, <1>2 DEF AccountOK, NoHistory
  <2>2. ASSUME NEW x \in Clients \ {c} PROVE AccountOK(conn'[x], history'[x])
    <3>1. AccountOK(conn[x], history[x]) /\ history'[x] = history[x]
      BY <1>1, <1>2 DEF AccountInv, DeliveryInv
    <3> QED BY <1>1, <3>1 DEF AccountOK, SameProgress
  <2> QED BY <2>1, <2>2 DEF DeliveryInv
<1>5. PaidInv'
  BY <1>1, <1>3 DEF AccountInv, PaidInv
<1>6. CountInv'
  <2>1. OpenNow' = OpenNow \cup {c} /\ c \notin OpenNow
    BY <1>1 DEF OpenNow, SameProgress
  <2>2. IsFiniteSet(OpenNow) /\ Cardinality(OpenNow) \in Nat
    BY FiniteConnections DEF OpenNow
  <2>3. Cardinality(OpenNow') = Cardinality(OpenNow) + 1
    BY <2>1, <2>2, FS_AddElement
  <2>4. DroppedByClose = {} /\ DroppedByClose' = {}
    BY <1>1, <1>2 DEF AccountInv, CountInv, DroppedByClose, NoHistory
  <2>5. pumping /\ CountedDropped = 0 /\ CountedDropped' = 0
    BY <1>1 DEF CountedDropped, IInv, StageInv, Visiting
  <2>6. Cardinality({}) = 0
    BY FS_EmptySet
  <2>7. Cardinality(OpenNow) = stats.active + stats.accepted - stats.closed
    BY <1>2, <2>2, <2>4, <2>5, <2>6 DEF AccountInv, CountInv
  <2>8. Cardinality(OpenNow') + Cardinality(DroppedByClose') =
           stats'.active + stats'.accepted - stats'.closed + CountedDropped'
    BY <1>2, <1>3, <2>2, <2>3, <2>4, <2>5, <2>6, <2>7
  <2> QED BY <2>4, <2>8 DEF CountInv
<1>7. BodyBudgetExact'
  <2>1. conn[c].reserved = 0
    BY <1>1 DEF AccountInv, DeliveryInv, AccountOK
  <2> QED BY <1>1, <2>1, BudgetOfQuiet DEF AccountInv, SameProgress
<1> QED BY <1>4, <1>5, <1>6, <1>7 DEF AccountInv

LEMMA EndPumpAccount ==
  ASSUME IInv, AccountInv, NEW d \in Nat, EndPump(d) PROVE AccountInv'
<1>1. /\ ~pumping' /\ \A c \in Clients : SameProgress(conn[c], conn'[c])
      /\ bufferedBodyBytes' = bufferedBodyBytes
      /\ \A c \in Clients : /\ history'[c].delivered = history[c].delivered
                            /\ history'[c].outcome = history[c].outcome
  BY EndPumpShape
<1>2. DeliveryInv'
  BY <1>1 DEF AccountInv, DeliveryInv, AccountOK, SameProgress
<1>3. BodyBudgetExact'
  BY <1>1, BudgetOfQuiet DEF AccountInv, SameProgress
<1>4. CountInv'
  <2>1. DroppedByClose' = DroppedByClose
    BY <1>1 DEF DroppedByClose
  <2>2. closed' = closed
    BY DEF EndPump, PumpReturns
  <2> QED BY <1>1, <2>1, <2>2 DEF AccountInv, CountInv
<1>5. PaidInv'
  BY <1>1 DEF PaidInv
<1> QED BY <1>2, <1>3, <1>4, <1>5 DEF AccountInv

LEMMA DispatchAccount ==
  ASSUME IInv, AccountInv, NEW d \in Nat, Dispatch(d) PROVE AccountInv'
<1>1. /\ closed' = closed /\ pumping' = pumping
      /\ MayDispatch(d) /\ connections' = connections
      /\ current \in Clients /\ conn[current].state = "READY_TO_DISPATCH"
      /\ conn \in [Clients -> Connection] /\ conn' \in [Clients -> Connection]
      /\ conn'[current].state = "DISPATCHING" /\ conn'[current].reserved = 0
      /\ \A c \in Clients \ {current} : SameProgress(conn[c], conn'[c])
      /\ bufferedBodyBytes' = bufferedBodyBytes - conn[current].reserved
      /\ budget' = [BudgetLater(d) EXCEPT !.dispatches = budget.dispatches - 1]
      /\ stats' = [stats EXCEPT !.dispatched = stats.dispatched + 1]
      /\ history' = [history EXCEPT ![current].handled = history[current].handled + 1]
  BY DispatchShape
<1>2. /\ stats \in [accepted : Nat, visited : Nat, dispatched : Nat, closed : Nat, active : Nat]
      /\ budget \in [io : Nat, dispatches : Nat, time : Nat]
      /\ history \in [Clients -> History] /\ bufferedBodyBytes \in Int
      /\ conn[current].reserved \in Nat
  BY <1>1 DEF IInv, TypeOK, Connection
<1>3. /\ stats'.active = stats.active /\ stats'.accepted = stats.accepted
      /\ stats'.closed = stats.closed /\ stats'.dispatched = stats.dispatched + 1
      /\ budget'.dispatches = budget.dispatches - 1
  BY <1>1, <1>2 DEF BudgetLater
<1>4. DeliveryInv'
  <2>1. AccountOK(conn'[current], history'[current])
    BY <1>1, <1>2 DEF AccountInv, DeliveryInv, AccountOK, History
  <2>2. ASSUME NEW x \in Clients \ {current} PROVE AccountOK(conn'[x], history'[x])
    <3>1. AccountOK(conn[x], history[x]) /\ history'[x] = history[x]
      BY <1>1, <1>2 DEF AccountInv, DeliveryInv
    <3> QED BY <1>1, <3>1 DEF AccountOK, SameProgress
  <2> QED BY <2>1, <2>2 DEF DeliveryInv
<1>5. PaidInv'
  BY <1>1, <1>2, <1>3 DEF AccountInv, PaidInv
<1>6. CountInv'
  <2>1. OpenNow' = OpenNow
    BY <1>1 DEF OpenNow, SameProgress
  <2>2. \A c \in Clients : history'[c].outcome = history[c].outcome
    BY <1>1, <1>2 DEF History
  <2>3. DroppedByClose' = DroppedByClose
    BY <2>2 DEF DroppedByClose
  <2>4. ~closed /\ CountedDropped' = CountedDropped
    BY <1>1, DispatchShape DEF CountedDropped
  <2> QED BY <1>1, <1>3, <2>1, <2>3, <2>4 DEF AccountInv, CountInv
<1>7. BodyBudgetExact'
  <2>1. bufferedBodyBytes' = bufferedBodyBytes + conn'[current].reserved - conn[current].reserved
    BY <1>1, <1>2
  <2> QED BY <1>1, <2>1, BudgetOfChange DEF AccountInv, SameProgress
<1> QED BY <1>4, <1>5, <1>6, <1>7 DEF AccountInv

LEMMA ReleaseAccount == ASSUME IInv, AccountInv, ReleaseNext PROVE AccountInv'
<1> DEFINE c == Head(connections)
<1>1. /\ closed /\ closed' = closed /\ c \in Clients /\ PumpGoesOn
      /\ pc = "closing" /\ pc' = "closing"
      /\ conn \in [Clients -> Connection] /\ conn' \in [Clients -> Connection]
      /\ conn'[c].state = "CLOSED"
      /\ conn'[c].reserved = IF conn[c].state = "CLOSED" THEN conn[c].reserved ELSE 0
      /\ \A x \in Clients \ {c} : conn'[x] = conn[x]
      /\ bufferedBodyBytes' = bufferedBodyBytes + conn'[c].reserved - conn[c].reserved
      /\ history' = IF conn[c].state = "CLOSED" THEN history
                    ELSE [history EXCEPT ![c].outcome = "dropped"]
  BY ReleaseShape
<1> HIDE DEF c
<1>2. history \in [Clients -> History]
  BY DEF IInv, TypeOK
<1>3. DeliveryInv'
  <2>1. AccountOK(conn'[c], history'[c])
    BY <1>1 DEF AccountInv, DeliveryInv, AccountOK
  <2>2. ASSUME NEW x \in Clients \ {c} PROVE AccountOK(conn'[x], history'[x])
    BY <1>1, <1>2 DEF AccountInv, DeliveryInv
  <2> QED BY <2>1, <2>2 DEF DeliveryInv
<1>4. PaidInv'
  BY <1>1 DEF AccountInv, PaidInv, PumpGoesOn
<1>5. BodyBudgetExact'
  BY <1>1, BudgetOfChange DEF AccountInv
<1>6. Cardinality(OpenNow') + Cardinality(DroppedByClose')
        = Cardinality(OpenNow) + Cardinality(DroppedByClose)
  <2>1. /\ IsFiniteSet(OpenNow) /\ Cardinality(OpenNow) \in Nat
        /\ IsFiniteSet(DroppedByClose) /\ Cardinality(DroppedByClose) \in Nat
    BY FiniteConnections DEF OpenNow, DroppedByClose
  <2>2. CASE conn[c].state = "CLOSED"
    <3>1. OpenNow' = OpenNow /\ DroppedByClose' = DroppedByClose
      BY <1>1, <2>2 DEF OpenNow, DroppedByClose
    <3> QED BY <3>1
  <2>3. CASE conn[c].state # "CLOSED"
    <3>1. history[c].outcome = "none" /\ history'[c].outcome = "dropped"
          /\ \A x \in Clients \ {c} : history'[x] = history[x]
      BY <1>1, <1>2, <2>3 DEF AccountInv, DeliveryInv, AccountOK, History
    <3>2. OpenNow' = OpenNow \ {c} /\ c \in OpenNow
      BY <1>1, <2>3 DEF OpenNow
    <3>3. DroppedByClose' = DroppedByClose \cup {c} /\ c \notin DroppedByClose
      BY <1>1, <3>1 DEF DroppedByClose
    <3>4. /\ Cardinality(OpenNow') = Cardinality(OpenNow) - 1
          /\ Cardinality(DroppedByClose') = Cardinality(DroppedByClose) + 1
      BY <2>1, <3>2, <3>3, FS_AddElement, FS_RemoveElement
    <3> QED BY <2>1, <3>4
  <2> QED BY <2>2, <2>3
<1>7. CountInv'
  <2>1. CountedDropped' = CountedDropped
    BY <1>1 DEF CountedDropped
  <2> QED BY <1>1, <1>6, <2>1 DEF AccountInv, CountInv, PumpGoesOn
<1> QED BY <1>3, <1>4, <1>5, <1>7 DEF AccountInv

(* A step that leaves every connection alone. *)
LEMMA UntouchedQuiet ==
  ASSUME IInv, UNCHANGED <<conn, connections, bufferedBodyBytes, history>> PROVE Quiet
BY DEF Quiet, SameProgress, IInv, TypeOK

(* The visit whose handler closed the server: its connection is counted.   *)
LEMMA ClosedVisitShape ==
  ASSUME IInv, HandlerClosedServer
  PROVE  /\ Quiet /\ closed /\ closed' = closed /\ pumping' = pumping
         /\ pc = "handler" /\ pc' = "visit" /\ budget' = budget
         /\ stats'.dispatched = stats.dispatched
         /\ stats'.active = stats.active /\ stats'.accepted = stats.accepted
         /\ stats'.closed = stats.closed + 1
<1>1. closed /\ pc = "handler" /\ current \in Clients /\ connections = <<>>
  BY HandlerFacts DEF HandlerClosedServer, IInv, StageInv
<1>2. conn[current].state = "CLOSED"
  BY <1>1 DEF IInv, OrderInv, OpenSlots
<1>3. stats' = [stats EXCEPT !.visited = stats.visited + 1, !.closed = stats.closed + 1]
  BY <1>2 DEF HandlerClosedServer, EndVisit, VisitOver, ClosedCount
<1>4. stats \in [accepted : Nat, visited : Nat, dispatched : Nat, closed : Nat, active : Nat]
  BY DEF IInv, TypeOK
<1>5. Quiet
  BY UntouchedQuiet DEF HandlerClosedServer, server
<1> QED BY <1>1, <1>3, <1>4, <1>5 DEF HandlerClosedServer, EndVisit, VisitOver, server

LEMMA ClosedVisitAccount ==
  ASSUME IInv, AccountInv, HandlerClosedServer PROVE AccountInv'
<1>1. /\ Quiet /\ closed /\ closed' = closed /\ pumping' = pumping
      /\ pc = "handler" /\ pc' = "visit" /\ budget' = budget
      /\ stats'.dispatched = stats.dispatched
      /\ stats'.active = stats.active /\ stats'.accepted = stats.accepted
      /\ stats'.closed = stats.closed + 1
  BY ClosedVisitShape
<1>2. /\ \A c \in Clients : SameProgress(conn[c], conn'[c])
      /\ connections' = connections /\ history' = history
      /\ bufferedBodyBytes' = bufferedBodyBytes
  BY <1>1 DEF Quiet
<1>3. DeliveryInv'
  BY <1>2 DEF AccountInv, DeliveryInv, AccountOK, SameProgress
<1>4. PaidInv'
  BY <1>1 DEF AccountInv, PaidInv
<1>5. OpenNow' = OpenNow /\ DroppedByClose' = DroppedByClose
  BY <1>2 DEF OpenNow, DroppedByClose, SameProgress
<1>6. CountInv'
  <2>1. CountedDropped = 0 /\ CountedDropped' = 1
    BY <1>1 DEF CountedDropped
  <2>2. stats.active \in Nat /\ stats.accepted \in Nat /\ stats.closed \in Nat
    BY DEF IInv, TypeOK
  <2>3. pumping => stats.active + stats.accepted - stats.closed + CountedDropped
                     = stats'.active + stats'.accepted - stats'.closed + CountedDropped'
    BY <1>1, <2>1, <2>2
  <2> QED BY <1>1, <1>5, <2>3 DEF AccountInv, CountInv
<1>7. BodyBudgetExact'
  BY <1>2, BudgetOfQuiet DEF AccountInv, SameProgress
<1> QED BY <1>3, <1>4, <1>6, <1>7 DEF AccountInv

LEMMA EndClosedPumpShape ==
  ASSUME IInv, EndClosedPump
  PROVE  /\ Quiet /\ closed /\ closed' = closed /\ pumping /\ ~pumping'
         /\ pc = "visit" /\ connections = <<>>
<1>1. pc = "visit" /\ closed /\ pumping /\ connections = <<>>
  BY DEF EndClosedPump, IInv, StageInv
<1>2. Quiet
  BY UntouchedQuiet DEF EndClosedPump, PumpReturns
<1> QED BY <1>1, <1>2 DEF EndClosedPump, PumpReturns

LEMMA EndClosedPumpAccount ==
  ASSUME IInv, AccountInv, EndClosedPump PROVE AccountInv'
<1>1. /\ ~pumping' /\ closed' /\ \A c \in Clients : SameProgress(conn[c], conn'[c])
      /\ bufferedBodyBytes' = bufferedBodyBytes /\ history' = history
  BY EndClosedPumpShape DEF Quiet
<1>2. DeliveryInv'
  BY <1>1 DEF AccountInv, DeliveryInv, AccountOK, SameProgress
<1>3. BodyBudgetExact'
  BY <1>1, BudgetOfQuiet DEF AccountInv, SameProgress
<1> QED BY <1>1, <1>2, <1>3 DEF AccountInv, PaidInv, CountInv

(* A clock check that raises closes the next connection and counts it.     *)
LEMMA ClockCheckShape ==
  ASSUME IInv, ClockCheckThrows
  PROVE  LET c == connections[stats.visited + 1]
         IN  /\ ~closed /\ closed' = closed /\ c \in Clients
             /\ pc = "visit" /\ pc' = "visit" /\ pumping /\ pumping' = pumping
             /\ conn \in [Clients -> Connection] /\ conn' \in [Clients -> Connection]
             /\ conn[c].state \in {"READING_HEADERS", "READING_BODY",
                                   "READY_TO_DISPATCH", "WRITING_RESPONSE"}
             /\ conn'[c].state = "CLOSED" /\ conn'[c].bodyReceived = conn[c].bodyReceived
             /\ conn'[c].reserved = 0
             /\ \A x \in Clients \ {c} : conn'[x] = conn[x]
             /\ bufferedBodyBytes' = bufferedBodyBytes + conn'[c].reserved - conn[c].reserved
             /\ history' = [history EXCEPT ![c].outcome = "failed"]
             /\ budget' = budget /\ stats'.dispatched = stats.dispatched
             /\ stats'.active = stats.active /\ stats'.accepted = stats.accepted
             /\ stats'.closed = stats.closed + 1
<1> DEFINE c == connections[stats.visited + 1]
<1>1. /\ pc = "visit" /\ pc' = "visit" /\ ~closed /\ stats.visited < Visits
      /\ conn' = [conn EXCEPT ![c] = Released(conn[c])]
      /\ bufferedBodyBytes' = Reserve(conn[c], Released(conn[c]))
      /\ history' = [history EXCEPT ![c].outcome = "failed"]
      /\ budget' = budget /\ closed' = closed /\ pumping' = pumping
      /\ stats' = [stats EXCEPT !.visited = stats.visited + 1, !.closed = stats.closed + 1]
  BY DEF ClockCheckThrows, VisitOver, CaughtCount
<1>2. /\ pumping /\ stats.visited \in Nat /\ Len(connections) \in Nat
      /\ connections \in Seq(Clients) /\ conn \in [Clients -> Connection]
      /\ stats \in [accepted : Nat, visited : Nat, dispatched : Nat, closed : Nat, active : Nat]
      /\ \A x \in Clients : conn[x].state # "DISPATCHING"
  BY <1>1 DEF IInv, StageInv, Visiting, TypeOK
<1>3. stats.visited + 1 \in 1..Len(connections)
  <2> HIDE DEF c
  <2> QED BY <1>1, <1>2, OptionFacts DEF Visits, Smaller
<1>4. c \in Clients /\ conn[c] \in Connection
  BY <1>2, <1>3
<1>5. conn[c].state # "CLOSED"
  BY <1>1, <1>2, <1>3 DEF IInv, VisitInv
<1>6. conn[c].state \in {"READING_HEADERS", "READING_BODY", "READY_TO_DISPATCH",
                       "WRITING_RESPONSE"}
  BY <1>2, <1>4, <1>5 DEF Connection, ConnectionState
<1>7. /\ Released(conn[c]).state = "CLOSED" /\ Released(conn[c]).reserved = 0
      /\ Released(conn[c]).bodyReceived = conn[c].bodyReceived
  BY <1>4, <1>5 DEF Released, Connection
<1>8. conn' \in [Clients -> Connection]
  BY ClockCheckThrowsInv DEF IInv, TypeOK
<1> HIDE DEF c
<1>9. conn'[c] = Released(conn[c]) /\ \A x \in Clients \ {c} : conn'[x] = conn[x]
  BY <1>1, <1>2, <1>4
<1>10. /\ stats'.dispatched = stats.dispatched /\ stats'.active = stats.active
       /\ stats'.accepted = stats.accepted /\ stats'.closed = stats.closed + 1
  BY <1>1, <1>2
<1> QED BY <1>1, <1>2, <1>4, <1>6, <1>7, <1>8, <1>9, <1>10 DEF Reserve, c

LEMMA ClockCheckAccount ==
  ASSUME IInv, AccountInv, ClockCheckThrows PROVE AccountInv'
<1>1. PICK c \in Clients : c = connections[stats.visited + 1]
  BY ClockCheckShape
<1>2. /\ ~closed /\ closed' = closed /\ pumping /\ pumping' = pumping
      /\ conn \in [Clients -> Connection] /\ conn' \in [Clients -> Connection]
      /\ conn[c].state # "CLOSED" /\ conn'[c].state = "CLOSED"
      /\ conn'[c].reserved = 0
      /\ \A x \in Clients \ {c} : conn'[x] = conn[x]
      /\ bufferedBodyBytes' = bufferedBodyBytes + conn'[c].reserved - conn[c].reserved
      /\ history' = [history EXCEPT ![c].outcome = "failed"]
      /\ budget' = budget /\ stats'.dispatched = stats.dispatched
      /\ stats'.active = stats.active /\ stats'.accepted = stats.accepted
      /\ stats'.closed = stats.closed + 1
  BY <1>1, ClockCheckShape
<1>3. /\ history \in [Clients -> History]
      /\ stats \in [accepted : Nat, visited : Nat, dispatched : Nat, closed : Nat, active : Nat]
  BY DEF IInv, TypeOK
<1>4. /\ \A x \in Clients \ {c} : history'[x] = history[x]
      /\ history'[c].outcome = "failed"
  BY <1>2, <1>3 DEF History
<1>5. DeliveryInv'
  <2>1. AccountOK(conn'[c], history'[c])
    BY <1>2 DEF AccountOK
  <2>2. ASSUME NEW x \in Clients \ {c} PROVE AccountOK(conn'[x], history'[x])
    BY <1>2, <1>4 DEF AccountInv, DeliveryInv
  <2> QED BY <2>1, <2>2 DEF DeliveryInv
<1>6. PaidInv'
  BY <1>2 DEF AccountInv, PaidInv
<1>7. BodyBudgetExact'
  BY <1>2, BudgetOfChange DEF AccountInv
<1>8. CountInv'
  <2>1. OpenNow' = OpenNow \ {c} /\ c \in OpenNow
    BY <1>2 DEF OpenNow
  <2>2. IsFiniteSet(OpenNow) /\ Cardinality(OpenNow) \in Nat
    BY FiniteConnections DEF OpenNow
  <2>3. Cardinality(OpenNow') = Cardinality(OpenNow) - 1
    BY <2>1, <2>2, FS_RemoveElement
  <2>4. DroppedByClose = {} /\ DroppedByClose' = {}
    BY <1>2, <1>4 DEF AccountInv, CountInv, DroppedByClose
  <2>5. CountedDropped = 0 /\ CountedDropped' = 0 /\ Cardinality({}) = 0
    BY <1>2, FS_EmptySet DEF CountedDropped
  <2>6. Cardinality(OpenNow) = stats.active + stats.accepted - stats.closed
    BY <1>2, <1>3, <2>2, <2>4, <2>5 DEF AccountInv, CountInv
  <2>7. Cardinality(OpenNow') + Cardinality(DroppedByClose') =
           stats'.active + stats'.accepted - stats'.closed + CountedDropped'
    BY <1>2, <1>3, <2>2, <2>3, <2>4, <2>5, <2>6
  <2> QED BY <2>4, <2>7 DEF CountInv
<1> QED BY <1>5, <1>6, <1>7, <1>8 DEF AccountInv

-----------------------------------------------------------------------------
(* The steps, by what they do to the connections. *)

(* A step that ends no pump and does nothing to any connection. *)
QuietStep ==
  /\ Quiet
  /\ PumpGoesOn
  /\ closed' = closed /\ CountedDropped' = CountedDropped
  /\ ~(pc = "visit" /\ pc' = "idle")

(* close() begins. *)
Stops ==
  /\ Quiet /\ PumpGoesOn /\ ~closed /\ closed' /\ pc # "visit"
  /\ CountedDropped' = CountedDropped

LEMMA EndAcceptingQuiet == ASSUME IInv, NEW d \in Nat, EndAccepting(d) PROVE QuietStep
<1>1. /\ pc = "accept" /\ conn' = Elapse(d) /\ budget' = BudgetLater(d)
      /\ connections' = connections /\ bufferedBodyBytes' = bufferedBodyBytes
      /\ closed' = closed /\ pumping' = pumping /\ stats' = stats /\ history' = history
  BY DEF EndAccepting, server
<1>2. budget'.dispatches = budget.dispatches
  BY <1>1 DEF BudgetLater, IInv, TypeOK
<1>3. /\ conn' \in [Clients -> Connection]
      /\ \A c \in Clients : SameProgress(conn[c], conn'[c])
  BY <1>1, ElapseFacts DEF IInv, TypeOK
<1>4. CountedDropped' = CountedDropped
  BY <1>1 DEF CountedDropped, IInv, StageInv
<1> QED BY <1>1, <1>2, <1>3, <1>4 DEF QuietStep, Quiet, PumpGoesOn

LEMMA BeginVisitQuiet ==
  ASSUME IInv, NEW d \in Nat, NEW e \in Nat, BeginVisit(d, e) PROVE QuietStep
<1> DEFINE c == connections[stats.visited + 1]
           r == Aged(conn[c], d + e)
           s == [r EXCEPT !.starved = FALSE]
<1>1. /\ conn' = [Elapse(d + e) EXCEPT ![c] = s]
      /\ budget' = BudgetLater(d + e)
      /\ pc' \in {"read", "dispatch", "write"}
      /\ connections' = connections /\ bufferedBodyBytes' = bufferedBodyBytes
      /\ closed' = closed /\ pumping' = pumping /\ stats' = stats /\ history' = history
  BY DEF BeginVisit, server
<1>2. c \in Clients /\ conn \in [Clients -> Connection]
  <2>1. /\ pc = "visit" /\ stats.visited < Visits
        /\ stats.visited \in Nat /\ connections \in Seq(Clients)
    BY DEF BeginVisit, IInv, TypeOK
  <2>2. Len(connections) \in Nat
    BY <2>1
  <2>3. stats.visited < Len(connections)
    BY <2>1, <2>2, OptionFacts DEF Visits, Smaller
  <2> QED BY <2>1, <2>2, <2>3 DEF IInv, TypeOK
<1>3. s \in Connection /\ SameProgress(conn[c], s)
  <2>1. r \in Connection /\ SameProgress(conn[c], r)
    BY <1>2, AgedFacts
  <2> HIDE DEF r, c
  <2> QED BY <2>1 DEF Connection, SameProgress
<1>4. /\ conn' \in [Clients -> Connection]
      /\ \A b \in Clients : SameProgress(conn[b], conn'[b])
  <2>1. /\ Elapse(d + e) \in [Clients -> Connection]
        /\ \A b \in Clients : SameProgress(conn[b], Elapse(d + e)[b])
    BY <1>2, ElapseFacts
  <2> HIDE DEF c, s
  <2> QED BY <1>1, <1>2, <1>3, <2>1
<1>5. budget'.dispatches = budget.dispatches
  BY <1>1 DEF BudgetLater, IInv, TypeOK
<1>6. CountedDropped' = CountedDropped
  BY <1>1 DEF BeginVisit, CountedDropped
<1> HIDE DEF c, r, s
<1> QED BY <1>1, <1>4, <1>5, <1>6 DEF QuietStep, Quiet, PumpGoesOn

LEMMA RestQuiet ==
  ASSUME IInv, CloseReturns \/ CallAfterClose \/ UNCHANGED vars
  PROVE  QuietStep
<1>1. /\ conn' = conn /\ connections' = connections /\ history' = history
      /\ bufferedBodyBytes' = bufferedBodyBytes /\ closed' = closed
      /\ pumping' = pumping /\ budget' = budget /\ stats' = stats
      /\ (pc = "closing" /\ pc' \in {"handler", "idle"}) \/ pc' = pc
  BY DEF CloseReturns, CallAfterClose, vars, server, pumpVars
<1> QED BY <1>1, UntouchedQuiet DEF QuietStep, PumpGoesOn, CountedDropped

LEMMA CloseStops == ASSUME IInv, Close PROVE Stops
<1>1. /\ conn' = conn /\ connections' = connections /\ history' = history
      /\ bufferedBodyBytes' = bufferedBodyBytes /\ ~closed /\ closed'
      /\ pumping' = pumping /\ budget' = budget /\ stats' = stats
      /\ pc \in {"idle", "handler"} /\ pc' = "closing"
  BY DEF Close, pumpVars
<1> QED BY <1>1, UntouchedQuiet DEF Stops, PumpGoesOn, CountedDropped

(* Every step is one of these. *)
StepCase ==
  \/ QuietStep \/ Stops \/ VisitMove \/ ReleaseNext
  \/ HandlerClosedServer \/ EndClosedPump \/ ClockCheckThrows
  \/ \E d \in Nat : Pump(d) \/ EndPump(d) \/ Dispatch(d)
  \/ \E d \in Nat, c \in Clients, q \in Requests : AcceptClient(c, q, d)

LEMMA InPumpCases == ASSUME IInv, InPump PROVE StepCase
<1>1. CASE \E d \in ClockSteps \cup {0} :
             \/ \E c \in Clients, q \in Requests : AcceptClient(c, q, d)
             \/ EndAccepting(d)
             \/ EndPump(d)
             \/ \E e \in ClockSteps \cup {0} : BeginVisit(d, e)
             \/ RequestExpired(d)
             \/ ReceiveAll(d)
             \/ \E n \in 0..IoChunkBytes - 1 : ReceivePart(n, d) \/ ReceiveFails(n, d)
             \/ Dispatch(d)
             \/ DispatchRefused(d)
             \/ \E n \in ResponseLengths : HandlerReturns(n, d)
             \/ HandlerFails(d)
  <2>1. PICK d \in Nat :
          \/ \E c \in Clients, q \in Requests : AcceptClient(c, q, d)
          \/ EndAccepting(d)
          \/ EndPump(d)
          \/ \E e \in Nat : BeginVisit(d, e)
          \/ RequestExpired(d)
          \/ ReceiveAll(d)
          \/ \E n \in Nat : ReceivePart(n, d) \/ ReceiveFails(n, d)
          \/ Dispatch(d)
          \/ DispatchRefused(d)
          \/ \E n \in Positive : HandlerEnds(n, d)
    <3>1. \A n \in 0..IoChunkBytes - 1 : n \in Nat
      OBVIOUS
    <3>2. \A n \in ResponseLengths :
            (IF n > MaxResponseBytes THEN ErrorBytes ELSE n) \in Positive
      BY EnvironmentFacts
    <3>3. ErrorBytes \in Positive
      BY EnvironmentFacts
    <3> QED BY <1>1, <3>1, <3>2, <3>3, EnvironmentFacts DEF HandlerReturns, HandlerFails
  <2>2. CASE EndAccepting(d) \/ \E e \in Nat : BeginVisit(d, e)
    BY <2>2, EndAcceptingQuiet, BeginVisitQuiet DEF StepCase
  <2>3. CASE \/ RequestExpired(d) \/ ReceiveAll(d) \/ DispatchRefused(d)
             \/ \E n \in Nat : ReceivePart(n, d) \/ ReceiveFails(n, d)
             \/ \E n \in Positive : HandlerEnds(n, d)
    BY <2>3, RequestExpiredMove, ReceiveAllMove, ReceivePartMove, ReceiveFailsMove,
       DispatchRefusedMove, HandlerEndsMove DEF StepCase
  <2> QED BY <2>1, <2>2, <2>3 DEF StepCase
<1>2. CASE ReadRefused \/ VisitThrows \/ ResponseExpired \/ WriteRefused \/ SendAll
  BY <1>2, ReadRefusedMove, VisitThrowsMove, ResponseExpiredMove, WriteRefusedMove,
     SendAllMove DEF StepCase
<1>3. CASE \E reached \in 0..MaxResponseBytes + ErrorBytes :
             SendPart(reached) \/ SendFails(reached)
  BY <1>3, SendPartMove, SendFailsMove DEF StepCase
<1>4. CASE \/ HandlerClosedServer \/ EndClosedPump \/ ClockCheckThrows
           \/ CloseReturns \/ ReleaseNext
  BY <1>4, RestQuiet DEF StepCase
<1> QED BY <1>1, <1>2, <1>3, <1>4 DEF InPump

LEMMA StepCases == ASSUME IInv, [Next]_vars PROVE StepCase
<1>1. CASE \E d \in PumpGaps : Pump(d)
  BY <1>1, EnvironmentFacts DEF StepCase
<1>2. CASE Close
  BY <1>2, CloseStops DEF StepCase
<1>3. CASE CallAfterClose \/ UNCHANGED vars
  BY <1>3, RestQuiet DEF StepCase
<1> QED BY <1>1, <1>2, <1>3, InPumpCases DEF Next

LEMMA NextAccount == ASSUME IInv, AccountInv, [Next]_vars PROVE AccountInv'
<1>1. StepCase
  BY StepCases
<1>2. CASE QuietStep \/ Stops
  BY <1>2, QuietAccount DEF QuietStep, Stops
<1>3. CASE VisitMove \/ ReleaseNext
  BY <1>3, MoveAccount, ReleaseAccount
<1>4. CASE \E d \in Nat : Pump(d) \/ EndPump(d) \/ Dispatch(d)
  BY <1>4, PumpAccount, EndPumpAccount, DispatchAccount
<1>5. CASE \E d \in Nat, c \in Clients, q \in Requests : AcceptClient(c, q, d)
  BY <1>5, AcceptAccount
<1>6. CASE HandlerClosedServer \/ EndClosedPump \/ ClockCheckThrows
  BY <1>6, ClosedVisitAccount, EndClosedPumpAccount, ClockCheckAccount
<1> QED BY <1>1, <1>2, <1>3, <1>4, <1>5, <1>6 DEF StepCase

LEMMA InitAccount == ASSUME Init PROVE AccountInv
<1> DEFINE q == CHOOSE q \in Requests : TRUE
           held == [c \in Clients |-> conn[c].reserved]
<1>1. /\ conn \in [Clients -> {ClosedSlot(q)}] /\ history = [c \in Clients |-> NoHistory]
      /\ bufferedBodyBytes = 0 /\ ~pumping
  BY DEF Init
<1>2. ClosedSlot(q).state = "CLOSED" /\ ClosedSlot(q).reserved = 0
  BY DEF ClosedSlot
<1> HIDE DEF q
<1>3. \A c \in Clients : conn[c].state = "CLOSED" /\ conn[c].reserved = 0
  BY <1>1, <1>2
<1>4. DeliveryInv
  BY <1>3 DEF DeliveryInv, AccountOK
<1>5. BodyBudgetExact
  <2>1. held \in [Clients -> Int] /\ \A c \in Clients : held[c] = 0
    BY <1>3
  <2>2. IsFiniteSet(Clients)
    BY EnvironmentAssumption DEF EnvironmentAssumption
  <2> HIDE DEF held
  <2>3. Total(held) = 0
    BY <2>1, <2>2, TotalOfZeros
  <2> QED BY <1>1, <2>3 DEF BodyBudgetExact, held
<1>6. DroppedByClose = {}
  <2>1. \A c \in Clients : history[c].outcome = "none"
    BY <1>1 DEF NoHistory
  <2> QED BY <2>1 DEF DroppedByClose
<1> QED BY <1>1, <1>4, <1>5, <1>6 DEF AccountInv, PaidInv, CountInv

(* The accounts balance in every state of every run: what is sent against  *)
(* the write position, handlers against dispatches, closed connections     *)
(* against the pump's counter, reservations against the body budget.       *)
THEOREM SpecAccountInv == Spec => []AccountInv
<1>1. Init => AccountInv
  BY InitAccount
<1>2. IInv /\ AccountInv /\ [Next]_vars => AccountInv'
  BY NextAccount
<1> QED BY <1>1, <1>2, SpecIInv, PTL DEF Spec

(* The counter reserve() keeps is at every point the sum of what the       *)
(* connections hold: nothing leaks and nothing is given back twice.        *)
THEOREM SpecBodyBudgetExact == Spec => []BodyBudgetExact
<1>1. AccountInv => BodyBudgetExact
  BY DEF AccountInv
<1> QED BY <1>1, SpecAccountInv, PTL

-----------------------------------------------------------------------------
(* What steps never do. *)

(* Where a step is a move, the connections it does not visit, and their    *)
(* histories, are as they were.                                            *)
LEMMA OthersStay ==
  ASSUME IInv, NEW s \in Connection, VisitsTo(s), NEW c \in Clients \ {current}
  PROVE  SameProgress(conn[c], conn'[c]) /\ history'[c] = history[c]
BY MoveFacts DEF VisitsTo

LEMMA StepWithinBudget ==
  ASSUME IInv, AccountInv, [Next]_vars, NEW c \in Clients,
         history'[c].handled > history[c].handled
  PROVE  budget'.time > 0 /\ stats'.dispatched <= MaxDispatchesPerPump
<1>1. history \in [Clients -> History] /\ history[c].handled \in Nat
  BY DEF IInv, TypeOK, History
<1>2. ~ QuietStep /\ ~ Stops
  BY <1>1 DEF QuietStep, Stops, Quiet
<1>3. ~ VisitMove
  <2> SUFFICES ASSUME NEW s \in Connection, VisitsTo(s) PROVE FALSE
    BY DEF VisitMove
  <2>1. history'[c].handled = history[c].handled
    BY OthersStay DEF VisitsTo
  <2> QED BY <1>1, <2>1
<1>4. ~ ReleaseNext
  <2> SUFFICES ASSUME ReleaseNext PROVE FALSE
    OBVIOUS
  <2>1. Head(connections) \in Clients /\
        history' = IF conn[Head(connections)].state = "CLOSED" THEN history
                   ELSE [history EXCEPT ![Head(connections)].outcome = "dropped"]
    BY ReleaseShape
  <2>2. history'[c].handled = history[c].handled
    BY <1>1, <2>1 DEF History
  <2> QED BY <1>1, <2>2
<1>5. ASSUME NEW d \in Nat, Pump(d) \/ EndPump(d) PROVE FALSE
  <2>1. history'[c].handled = history[c].handled
    BY <1>5, PumpShape, EndPumpShape DEF Quiet
  <2> QED BY <1>1, <2>1
<1>6. ASSUME NEW d \in Nat, NEW x \in Clients, NEW q \in Requests, AcceptClient(x, q, d)
      PROVE  FALSE
  <2>1. history' = [history EXCEPT ![x] = NoHistory] /\ NoHistory.handled = 0
    BY <1>6, AcceptShape DEF NoHistory
  <2>2. history'[c].handled = history[c].handled \/ history'[c].handled = 0
    BY <1>1, <2>1
  <2> QED BY <1>1, <2>2
<1>12. ~ HandlerClosedServer /\ ~ EndClosedPump
  BY <1>1, ClosedVisitShape, EndClosedPumpShape DEF Quiet
<1>13. ~ ClockCheckThrows
  <2> SUFFICES ASSUME ClockCheckThrows PROVE FALSE
    OBVIOUS
  <2>1. PICK x \in Clients : history' = [history EXCEPT ![x].outcome = "failed"]
    BY ClockCheckShape
  <2>2. history'[c].handled = history[c].handled
    BY <1>1, <2>1 DEF History
  <2> QED BY <1>1, <2>2
<1>7. PICK d \in Nat : Dispatch(d)
  BY <1>2, <1>3, <1>4, <1>5, <1>6, <1>12, <1>13, StepCases DEF StepCase
<1>8. /\ pumping /\ MayDispatch(d)
      /\ budget' = [BudgetLater(d) EXCEPT !.dispatches = budget.dispatches - 1]
      /\ stats' = [stats EXCEPT !.dispatched = stats.dispatched + 1]
  BY <1>7, DispatchShape
<1>9. /\ budget \in [io : Nat, dispatches : Nat, time : Nat]
      /\ stats \in [accepted : Nat, visited : Nat, dispatched : Nat, closed : Nat, active : Nat]
      /\ stats.dispatched + budget.dispatches = MaxDispatchesPerPump
  BY <1>8 DEF IInv, TypeOK, AccountInv, PaidInv
<1>10. budget.dispatches > 0 /\ Left(budget.time, d) > 0
  BY <1>8 DEF MayDispatch
<1>11. budget'.time = Left(budget.time, d) /\ stats'.dispatched = stats.dispatched + 1
  BY <1>8, <1>9 DEF BudgetLater
<1> QED BY <1>9, <1>10, <1>11

(* A handler starts only while its pump has dispatches and time left.      *)
THEOREM SpecHandlersWithinBudget == Spec => HandlersWithinBudget
<1>1. ASSUME IInv, AccountInv, [Next]_vars
      PROVE  [\A c \in Clients :
                history'[c].handled > history[c].handled =>
                  budget'.time > 0 /\ stats'.dispatched <= MaxDispatchesPerPump]_vars
  BY <1>1, StepWithinBudget
<1> QED BY <1>1, SpecIInv, SpecAccountInv, PTL DEF Spec, HandlersWithinBudget

(* Which steps change what has been sent to a connection, or how it ended. *)
LEMMA DeliveryStep ==
  ASSUME IInv, [Next]_vars, NEW c \in Clients
  PROVE  \/ /\ history'[c].delivered = history[c].delivered
            /\ history'[c].outcome = history[c].outcome
         \/ conn[c].state = "CLOSED" /\ history'[c] = NoHistory
         \/ c = current /\ VisitMove
         \/ /\ history'[c].outcome \in {"failed", "dropped"}
            /\ history'[c].delivered = history[c].delivered
<1>1. StepCase /\ history \in [Clients -> History]
  BY StepCases DEF IInv, TypeOK
<1>2. CASE QuietStep \/ Stops
  BY <1>2 DEF QuietStep, Stops, Quiet
<1>3. CASE VisitMove
  BY <1>3, OthersStay DEF VisitMove
<1>4. CASE ReleaseNext
  <2>1. Head(connections) \in Clients /\
        history' = IF conn[Head(connections)].state = "CLOSED" THEN history
                   ELSE [history EXCEPT ![Head(connections)].outcome = "dropped"]
    BY <1>4, ReleaseShape
  <2> QED BY <1>1, <2>1 DEF History
<1>5. CASE \E d \in Nat : Pump(d) \/ EndPump(d)
  BY <1>5, PumpShape, EndPumpShape DEF Quiet
<1>6. CASE \E d \in Nat : Dispatch(d)
  <2>1. /\ current \in Clients
        /\ history' = [history EXCEPT ![current].handled = history[current].handled + 1]
    BY <1>6, DispatchShape
  <2> QED BY <1>1, <2>1 DEF History
<1>7. CASE \E d \in Nat, x \in Clients, q \in Requests : AcceptClient(x, q, d)
  <2>1. PICK x \in Clients :
          conn[x].state = "CLOSED" /\ history' = [history EXCEPT ![x] = NoHistory]
    BY <1>7, AcceptShape
  <2> QED BY <1>1, <2>1
<1>8. CASE HandlerClosedServer \/ EndClosedPump
  BY <1>8, ClosedVisitShape, EndClosedPumpShape DEF Quiet
<1>9. CASE ClockCheckThrows
  <2>1. PICK x \in Clients : history' = [history EXCEPT ![x].outcome = "failed"]
    BY <1>9, ClockCheckShape
  <2> QED BY <1>1, <2>1 DEF History
<1> QED BY <1>1, <1>2, <1>3, <1>4, <1>5, <1>6, <1>7, <1>8, <1>9 DEF StepCase

LEMMA StepDelivers ==
  ASSUME IInv, AccountInv, [Next]_vars, NEW c \in Clients,
         history[c].outcome = "none", history'[c].outcome = "completed"
  PROVE  history'[c].delivered = conn[c].length
<1>1. c = current /\ VisitMove
  BY DeliveryStep DEF NoHistory
<1>2. PICK s \in Connection : VisitsTo(s)
  BY <1>1 DEF VisitMove
<1>3. Completes(conn[c], history[c], s, history'[c]) \/ Waits(conn[c], history[c], s, history'[c])
  BY <1>1, <1>2
    DEF VisitsTo, Moved, Receives, Responds, Sends, Fails
<1>4. Completes(conn[c], history[c], s, history'[c])
  BY <1>3 DEF Waits
<1>5. /\ conn[c].state = "WRITING_RESPONSE" /\ AccountOK(conn[c], history[c])
      /\ conn[c].writePos \in Nat /\ conn[c].length \in Nat
  BY <1>4 DEF Completes, AccountInv, DeliveryInv, IInv, TypeOK, Connection, Positive
<1> QED BY <1>4, <1>5 DEF Completes, AccountOK

(* A connection is closed as complete only when the socket has taken every *)
(* byte of the response, each once, over however many partial sends.       *)
THEOREM SpecCompleteDelivery == Spec => CompleteDelivery
<1>1. ASSUME IInv, AccountInv, [Next]_vars
      PROVE  [\A c \in Clients :
                history[c].outcome = "none" /\ history'[c].outcome = "completed" =>
                  history'[c].delivered = conn[c].length]_vars
  BY <1>1, StepDelivers
<1> QED BY <1>1, SpecIInv, SpecAccountInv, PTL DEF Spec, CompleteDelivery

(* Which steps change a connection that is being read or written. *)
LEMMA ProgressStep ==
  ASSUME IInv, [Next]_vars, NEW c \in Clients, Reading(conn[c])
  PROVE  \/ SameProgress(conn[c], conn'[c])
         \/ c = current /\ VisitMove
         \/ conn'[c].state = "CLOSED" /\ conn'[c].bodyReceived = conn[c].bodyReceived
<1>1. StepCase
  BY StepCases
<1>2. CASE QuietStep \/ Stops
  BY <1>2 DEF QuietStep, Stops, Quiet
<1>3. CASE VisitMove
  BY <1>3, OthersStay DEF VisitMove
<1>4. CASE ReleaseNext
  BY <1>4, ReleaseShape DEF SameProgress
<1>5. CASE \E d \in Nat : Pump(d) \/ EndPump(d)
  BY <1>5, PumpShape, EndPumpShape DEF Quiet
<1>6. CASE \E d \in Nat : Dispatch(d)
  BY <1>6, DispatchShape DEF Reading
<1>7. CASE \E d \in Nat, x \in Clients, q \in Requests : AcceptClient(x, q, d)
  BY <1>7, AcceptShape DEF Reading
<1>8. CASE HandlerClosedServer \/ EndClosedPump
  BY <1>8, ClosedVisitShape, EndClosedPumpShape DEF Quiet
<1>9. CASE ClockCheckThrows
  BY <1>9, ClockCheckShape DEF SameProgress
<1> QED BY <1>1, <1>2, <1>3, <1>4, <1>5, <1>6, <1>7, <1>8, <1>9 DEF StepCase

LEMMA StepRespectsDeadlines ==
  ASSUME IInv, [Next]_vars, NEW c \in Clients
  PROVE  /\ Reading(conn[c]) /\ Overdue(conn[c]) =>
              /\ conn'[c].state \in {conn[c].state, "WRITING_RESPONSE", "CLOSED"}
              /\ conn'[c].bodyReceived = conn[c].bodyReceived
         /\ conn[c].state = "WRITING_RESPONSE" /\ conn[c].writeLeft = 0 =>
              history'[c].delivered = history[c].delivered
<1>1. ASSUME Reading(conn[c]), Overdue(conn[c])
      PROVE  /\ conn'[c].state \in {conn[c].state, "WRITING_RESPONSE", "CLOSED"}
             /\ conn'[c].bodyReceived = conn[c].bodyReceived
  <2>1. CASE SameProgress(conn[c], conn'[c])
    BY <2>1 DEF SameProgress
  <2>2. CASE c = current /\ VisitMove
    <3>1. PICK s \in Connection : VisitsTo(s)
      BY <2>2 DEF VisitMove
    <3>2. conn'[c] = s /\ Moved(conn[c], history[c], s, history'[c])
      BY <2>2, <3>1, MoveFacts DEF VisitsTo
    <3> QED BY <1>1, <3>2 DEF Moved, Waits, Receives, Responds, Sends, Completes, Fails,
                             SameProgress, Reading
  <2> QED BY <1>1, <2>1, <2>2, ProgressStep
<1>2. ASSUME conn[c].state = "WRITING_RESPONSE", conn[c].writeLeft = 0
      PROVE  history'[c].delivered = history[c].delivered
  <2>1. CASE c = current /\ VisitMove
    <3>1. PICK s \in Connection : VisitsTo(s)
      BY <2>1 DEF VisitMove
    <3>2. Moved(conn[c], history[c], s, history'[c])
      BY <2>1, <3>1 DEF VisitsTo
    <3> QED BY <1>2, <3>2 DEF Moved, Waits, Receives, Responds, Sends, Completes, Fails,
                             Reading
  <2> QED BY <1>2, <2>1, DeliveryStep
<1> QED BY <1>1, <1>2

(* Once its deadline or the idle timeout has passed, a request takes no    *)
(* further step towards its handler; a response past its deadline sends no *)
(* further byte.                                                           *)
THEOREM SpecOverdueNeverProgresses == Spec => OverdueNeverProgresses
<1>1. ASSUME IInv, [Next]_vars
      PROVE  [\A c \in Clients :
                /\ Reading(conn[c]) /\ Overdue(conn[c]) =>
                     /\ conn'[c].state \in {conn[c].state, "WRITING_RESPONSE", "CLOSED"}
                     /\ conn'[c].bodyReceived = conn[c].bodyReceived
                /\ conn[c].state = "WRITING_RESPONSE" /\ conn[c].writeLeft = 0 =>
                     history'[c].delivered = history[c].delivered]_vars
  BY <1>1, StepRespectsDeadlines
<1> QED BY <1>1, SpecIInv, PTL DEF Spec, OverdueNeverProgresses

(* What a pump leaves is what is open, and CountInv knows how many that    *)
(* are.                                                                    *)
LEMMA StepBalances ==
  ASSUME IInv, IInv', AccountInv, [Next]_vars, pc = "visit", pc' = "idle"
  PROVE  Len(connections') =
           stats.active + stats.accepted - stats.closed
             - (IF closed THEN Cardinality(DroppedByClose) - 1 ELSE 0)
<1>1. EndClosedPump \/ \E d \in Nat : EndPump(d)
  <2>1. ~ QuietStep /\ ~ Stops
    BY DEF QuietStep, Stops
  <2>2. ~ VisitMove /\ ~ ReleaseNext
    BY DEF VisitMove, VisitsTo, Visiting, ReleaseNext
  <2>3. ASSUME NEW d \in Nat PROVE ~ Pump(d) /\ ~ Dispatch(d)
    BY DEF Pump, Dispatch
  <2>4. ASSUME NEW d \in Nat, NEW c \in Clients, NEW q \in Requests
        PROVE  ~ AcceptClient(c, q, d)
    BY DEF AcceptClient
  <2>5. ~ HandlerClosedServer /\ ~ ClockCheckThrows
    BY DEF HandlerClosedServer, ClockCheckThrows, VisitOver
  <2> QED BY <2>1, <2>2, <2>3, <2>4, <2>5, StepCases DEF StepCase
<1>2. pumping /\ \A c \in Clients : SameProgress(conn[c], conn'[c])
  BY <1>1, EndPumpShape, EndClosedPumpShape DEF Quiet
<1>3. OpenNow' = OpenNow
  BY <1>2 DEF OpenNow, SameProgress
<1>4. Len(connections') = Cardinality(OpenNow)
  <2>1. Len(connections') = Cardinality(OpenNow')
    <3>1. OpenNow' = OpenSlots'
      <4>1. OpenSlots' \subseteq Clients
        <5>1. connections' \in Seq(Clients)
          BY DEF IInv, TypeOK
        <5> QED BY <5>1 DEF OpenSlots
      <4> QED BY <4>1 DEF IInv, VisitInv, OrderInv, OpenNow
    <3>2. /\ connections' \in Seq(Clients)
          /\ \A i, j \in 1..Len(connections') : connections'[i] = connections'[j] => i = j
      BY DEF IInv, TypeOK, OrderInv
    <3> QED BY <3>1, <3>2, ListLength DEF OpenSlots
  <2> QED BY <1>3, <2>1
<1>5. Cardinality(OpenNow) + Cardinality(DroppedByClose) =
        stats.active + stats.accepted - stats.closed + CountedDropped
  BY <1>2 DEF AccountInv, CountInv
<1>6. /\ Cardinality(OpenNow) \in Nat /\ Cardinality(DroppedByClose) \in Nat
      /\ stats.active \in Nat /\ stats.accepted \in Nat /\ stats.closed \in Nat
  BY FiniteConnections DEF OpenNow, DroppedByClose, IInv, TypeOK
<1>7. CASE closed
  <2>1. CountedDropped = 1
    BY <1>7 DEF CountedDropped
  <2>2. (IF closed THEN Cardinality(DroppedByClose) - 1 ELSE 0) =
           Cardinality(DroppedByClose) - 1
    BY <1>7
  <2>3. Cardinality(OpenNow) =
          stats.active + stats.accepted - stats.closed - (Cardinality(DroppedByClose) - 1)
    BY <1>5, <1>6, <2>1
  <2> QED BY <1>4, <2>2, <2>3
<1>8. CASE ~closed
  <2>1. Cardinality(DroppedByClose) = 0 /\ CountedDropped = 0
    BY <1>8, FS_EmptySet DEF AccountInv, CountInv, CountedDropped
  <2> QED BY <1>4, <1>5, <1>6, <1>8, <2>1
<1> QED BY <1>7, <1>8

(* A pump's counters add up, whatever ends its visits: what was open plus  *)
(* what was accepted less what was counted closed is what it leaves open.  *)
(* When a handler has closed the server they are off by the connections    *)
(* close() released beside the visited one, which nothing counts.          *)
THEOREM SpecStatsBalance == Spec => StatsBalance
<1>1. ASSUME IInv, IInv', AccountInv, [Next]_vars
      PROVE  [pc = "visit" /\ pc' = "idle" =>
                Len(connections') =
                  stats.active + stats.accepted - stats.closed
                    - (IF closed THEN Cardinality(DroppedByClose) - 1 ELSE 0)]_vars
  BY <1>1, StepBalances
<1> QED BY <1>1, SpecIInv, SpecAccountInv, PTL DEF Spec, StatsBalance

-----------------------------------------------------------------------------
(* Every step is a step of the exchange.                                   *)

(* The phase a connection r with history h is in. *)
PhaseFits(r, h, p) ==
  /\ r.state \in {"READING_HEADERS", "READING_BODY", "READY_TO_DISPATCH"} => p = "receiving"
  /\ r.state = "DISPATCHING" => p = "handling"
  /\ r.state = "WRITING_RESPONSE" => p = "answering"
  /\ r.state = "CLOSED" /\ h.outcome = "none" => p = "none"
  /\ r.state = "CLOSED" /\ h.outcome = "completed" => p = "delivered"
  /\ r.state = "CLOSED" /\ h.outcome \in {"failed", "dropped"} => p = "dropped"

(* State and outcome determine the phase. *)
LEMMA PhaseFacts ==
  ASSUME TypeOK, NEW c \in Clients
  PROVE  /\ PhaseFits(conn[c], history[c], PhaseOf(c))
         /\ conn[c].state \in ConnectionState
         /\ history[c].outcome \in {"none", "completed", "failed", "dropped"}
<1>1. conn[c] \in Connection /\ history[c] \in History
  BY DEF TypeOK
<1>2. /\ conn[c].state \in ConnectionState
      /\ history[c].outcome \in {"none", "completed", "failed", "dropped"}
  BY <1>1 DEF Connection, History
<1> QED BY <1>2 DEF PhaseFits, PhaseOf, ConnectionState

(* So the phase stays when they do. *)
LEMMA SamePhase ==
  ASSUME TypeOK, TypeOK', NEW c \in Clients,
         conn'[c].state = conn[c].state, history'[c].outcome = history[c].outcome
  PROVE  PhaseOf(c)' = PhaseOf(c)
BY DEF PhaseOf

(* The same of the state a step leads to. *)
LEMMA NextPhaseFacts ==
  ASSUME TypeOK', NEW c \in Clients
  PROVE  PhaseFits(conn'[c], history'[c], PhaseOf(c)')
<1>1. conn'[c] \in Connection /\ history'[c] \in History
  BY DEF TypeOK
<1>2. /\ conn'[c].state \in ConnectionState
      /\ history'[c].outcome \in {"none", "completed", "failed", "dropped"}
  BY <1>1 DEF Connection, History
<1> QED BY <1>2 DEF PhaseFits, PhaseOf, ConnectionState

(* A step that moves one exchange only. *)
LEMMA OneMoves ==
  ASSUME NEW c \in Clients, NEW p, closed' = closed, PhaseOf(c)' = p,
         \A x \in Clients \ {c} : PhaseOf(x)' = PhaseOf(x)
  PROVE  Exchange!Becomes(c, p)
BY DEF Exchange!Becomes

(* A step that moves none. *)
LEMMA NoneMoves ==
  ASSUME closed' = closed, \A x \in Clients : PhaseOf(x)' = PhaseOf(x)
  PROVE  UNCHANGED Exchange!vars
BY DEF Exchange!vars

LEMMA InitExchange == ASSUME Init PROVE Exchange!Init
<1> DEFINE q == CHOOSE q \in Requests : TRUE
<1>1. /\ conn \in [Clients -> {ClosedSlot(q)}] /\ history = [c \in Clients |-> NoHistory]
      /\ closed = FALSE
  BY DEF Init
<1>2. ClosedSlot(q).state = "CLOSED" /\ NoHistory.outcome = "none"
  BY DEF ClosedSlot, NoHistory
<1> HIDE DEF q
<1>3. \A c \in Clients : conn[c].state = "CLOSED" /\ history[c].outcome = "none"
  BY <1>1, <1>2
<1>4. \A c \in Clients : PhaseOf(c) = "none"
  BY <1>3 DEF PhaseOf
<1> QED BY <1>1, <1>4 DEF Exchange!Init

LEMMA QuietExchange ==
  ASSUME IInv, IInv', Quiet, closed' = closed PROVE UNCHANGED Exchange!vars
<1>1. \A x \in Clients : PhaseOf(x)' = PhaseOf(x)
  BY SamePhase DEF IInv, Quiet, SameProgress
<1> QED BY <1>1, NoneMoves

LEMMA StopExchange == ASSUME IInv, IInv', Stops PROVE Exchange!Next
<1>1. \A x \in Clients : PhaseOf(x)' = PhaseOf(x)
  BY SamePhase DEF IInv, Stops, Quiet, SameProgress
<1>2. Exchange!Stop
  BY <1>1 DEF Stops, Exchange!Stop, IInv, TypeOK
<1> QED BY <1>2 DEF Exchange!Next

LEMMA MoveExchange ==
  ASSUME IInv, IInv', AccountInv, VisitMove PROVE Exchange!Next \/ UNCHANGED Exchange!vars
<1>1. PICK s \in Connection : VisitsTo(s)
  BY DEF VisitMove
<1>2. PICK c \in Clients : c = current
  BY <1>1, MoveFacts
<1> DEFINE r == conn[c]
           h == history[c]
           g == history'[c]
<1>3. /\ ~closed /\ closed' = closed /\ r.state # "CLOSED" /\ conn'[c] = s
      /\ Moved(r, h, s, g)
  BY <1>1, <1>2, MoveFacts DEF VisitsTo
<1>4. \A x \in Clients \ {c} : PhaseOf(x)' = PhaseOf(x)
  BY <1>1, <1>2, OthersStay, SamePhase DEF SameProgress, IInv
<1>5. /\ PhaseFits(r, h, PhaseOf(c)) /\ PhaseFits(s, g, PhaseOf(c)')
      /\ h.outcome = "none"
  BY <1>3, PhaseFacts, NextPhaseFacts DEF IInv, AccountInv, DeliveryInv, AccountOK
<1>6. ASSUME NEW p, PhaseOf(c)' = p PROVE Exchange!Becomes(c, p)
  BY <1>3, <1>4, <1>6, OneMoves
<1>7. CASE Waits(r, h, s, g) \/ Receives(r, h, s, g) \/ Sends(r, h, s, g)
  <2>1. PhaseOf(c)' = PhaseOf(c)
    <3>1. CASE Waits(r, h, s, g)
      BY <1>3, <3>1, SamePhase DEF Waits, SameProgress, IInv
    <3>2. CASE Receives(r, h, s, g) \/ Sends(r, h, s, g)
      BY <1>5, <3>2 DEF Receives, Sends, Reading, PhaseFits
    <3> QED BY <1>7, <3>1, <3>2
  <2> QED BY <1>3, <1>4, <2>1, NoneMoves
<1>8. CASE Responds(r, h, s, g)
  <2>1. PhaseOf(c) \in {"receiving", "handling"} /\ PhaseOf(c)' = "answering"
    BY <1>5, <1>8 DEF Responds, Reading, PhaseFits
  <2>2. Exchange!Refuse(c) \/ Exchange!Answer(c)
    BY <1>3, <1>6, <2>1 DEF Exchange!Refuse, Exchange!Answer
  <2> QED BY <2>2 DEF Exchange!Next
<1>9. CASE Completes(r, h, s, g)
  <2>1. PhaseOf(c) = "answering" /\ PhaseOf(c)' = "delivered"
    BY <1>5, <1>9 DEF Completes, PhaseFits
  <2>2. Exchange!Deliver(c)
    BY <1>3, <1>6, <2>1 DEF Exchange!Deliver
  <2> QED BY <2>2 DEF Exchange!Next
<1>10. CASE Fails(r, h, s, g)
  <2>1. /\ PhaseOf(c) \in {"receiving", "handling", "answering"}
        /\ PhaseOf(c)' = "dropped"
    BY <1>5, <1>10 DEF Fails, Reading, PhaseFits
  <2>2. Exchange!Drop(c)
    BY <1>6, <2>1 DEF Exchange!Drop, Exchange!Over
  <2> QED BY <2>2 DEF Exchange!Next
<1> QED BY <1>3, <1>7, <1>8, <1>9, <1>10 DEF Moved

LEMMA AcceptExchange ==
  ASSUME IInv, IInv', NEW d \in Nat, NEW c \in Clients, NEW q \in Requests,
         AcceptClient(c, q, d)
  PROVE  Exchange!Next
<1>1. /\ ~closed /\ closed' = closed
      /\ conn[c].state = "CLOSED" /\ conn'[c].state = "READING_HEADERS"
      /\ \A x \in Clients \ {c} : SameProgress(conn[x], conn'[x])
      /\ history' = [history EXCEPT ![c] = NoHistory]
  BY AcceptShape
<1>2. \A x \in Clients \ {c} : history'[x] = history[x]
  BY <1>1 DEF IInv, TypeOK
<1>3. \A x \in Clients \ {c} : PhaseOf(x)' = PhaseOf(x)
  BY <1>1, <1>2, SamePhase DEF SameProgress, IInv
<1>4. PhaseOf(c) \in {"none", "delivered", "dropped"} /\ PhaseOf(c)' = "receiving"
  BY <1>1, PhaseFacts, NextPhaseFacts DEF PhaseFits, IInv
<1>5. Exchange!Becomes(c, "receiving")
  BY <1>1, <1>3, <1>4, OneMoves
<1>6. Exchange!Connect(c)
  BY <1>1, <1>4, <1>5 DEF Exchange!Connect, Exchange!Over
<1> QED BY <1>6 DEF Exchange!Next

LEMMA DispatchExchange ==
  ASSUME IInv, IInv', NEW d \in Nat, Dispatch(d) PROVE Exchange!Next
<1>1. PICK c \in Clients : c = current
  BY DispatchShape
<1>2. /\ ~closed /\ closed' = closed /\ pc = "dispatch"
      /\ conn[c].state = "READY_TO_DISPATCH" /\ conn'[c].state = "DISPATCHING"
      /\ \A x \in Clients \ {c} : SameProgress(conn[x], conn'[x])
      /\ history' = [history EXCEPT ![c].handled = history[c].handled + 1]
  BY <1>1, DispatchShape
<1>3. \A x \in Clients \ {c} : PhaseOf(x)' = PhaseOf(x)
  <2>1. \A x \in Clients \ {c} : history'[x] = history[x]
    BY <1>2 DEF IInv, TypeOK
  <2> QED BY <1>2, <2>1, SamePhase DEF SameProgress, IInv
<1>4. PhaseOf(c) = "receiving" /\ PhaseOf(c)' = "handling"
  BY <1>2, PhaseFacts, NextPhaseFacts DEF PhaseFits, IInv
<1>5. \A x \in Clients : PhaseOf(x) # "handling"
  <2>1. \A x \in Clients : conn[x].state # "DISPATCHING"
    BY <1>2 DEF IInv, StageInv
  <2> QED BY <2>1, PhaseFacts DEF PhaseFits, ConnectionState, IInv
<1>6. Exchange!Becomes(c, "handling")
  BY <1>2, <1>3, <1>4, OneMoves
<1>7. Exchange!Handle(c)
  BY <1>2, <1>4, <1>5, <1>6 DEF Exchange!Handle
<1> QED BY <1>7 DEF Exchange!Next

LEMMA ReleaseExchange ==
  ASSUME IInv, IInv', ReleaseNext PROVE Exchange!Next \/ UNCHANGED Exchange!vars
<1>1. PICK c \in Clients : c = Head(connections)
  BY ReleaseShape
<1>2. /\ closed /\ closed' = closed /\ conn'[c].state = "CLOSED"
      /\ \A x \in Clients \ {c} : conn'[x] = conn[x]
      /\ history' = IF conn[c].state = "CLOSED" THEN history
                    ELSE [history EXCEPT ![c].outcome = "dropped"]
  BY <1>1, ReleaseShape
<1>3. /\ \A x \in Clients \ {c} : history'[x] = history[x]
      /\ conn[c].state # "CLOSED" => history'[c].outcome = "dropped"
  BY <1>2 DEF IInv, TypeOK, History
<1>4. \A x \in Clients \ {c} : PhaseOf(x)' = PhaseOf(x)
  BY <1>2, <1>3, SamePhase DEF IInv
<1>5. CASE conn[c].state = "CLOSED"
  <2>1. PhaseOf(c)' = PhaseOf(c)
    BY <1>2, <1>5, SamePhase DEF IInv
  <2> QED BY <1>2, <1>4, <2>1, NoneMoves
<1>6. CASE conn[c].state # "CLOSED"
  <2>1. PhaseOf(c) \in {"receiving", "handling", "answering"} /\ PhaseOf(c)' = "dropped"
    BY <1>2, <1>3, <1>6, PhaseFacts, NextPhaseFacts DEF PhaseFits, ConnectionState, IInv
  <2>2. Exchange!Becomes(c, "dropped")
    BY <1>2, <1>4, <2>1, OneMoves
  <2>3. Exchange!Drop(c)
    BY <1>2, <2>1, <2>2 DEF Exchange!Drop, Exchange!Over
  <2> QED BY <2>3 DEF Exchange!Next
<1> QED BY <1>5, <1>6

LEMMA EndPumpExchange ==
  ASSUME IInv, IInv', NEW d \in Nat, EndPump(d) PROVE UNCHANGED Exchange!vars
<1>1. \A x \in Clients : PhaseOf(x)' = PhaseOf(x)
  BY EndPumpShape, SamePhase DEF IInv, SameProgress
<1> QED BY <1>1, EndPumpShape, NoneMoves

LEMMA ClockCheckExchange ==
  ASSUME IInv, IInv', ClockCheckThrows PROVE Exchange!Next
<1>1. PICK c \in Clients : c = connections[stats.visited + 1]
  BY ClockCheckShape
<1>2. /\ closed' = closed /\ conn'[c].state = "CLOSED"
      /\ conn[c].state \in {"READING_HEADERS", "READING_BODY", "READY_TO_DISPATCH",
                            "WRITING_RESPONSE"}
      /\ \A x \in Clients \ {c} : conn'[x] = conn[x]
      /\ history' = [history EXCEPT ![c].outcome = "failed"]
  BY <1>1, ClockCheckShape
<1>3. /\ \A x \in Clients \ {c} : history'[x] = history[x]
      /\ history'[c].outcome = "failed"
  BY <1>2 DEF IInv, TypeOK, History
<1>4. \A x \in Clients \ {c} : PhaseOf(x)' = PhaseOf(x)
  BY <1>2, <1>3, SamePhase DEF IInv
<1>5. PhaseOf(c) \in {"receiving", "answering"} /\ PhaseOf(c)' = "dropped"
  BY <1>2, <1>3, PhaseFacts, NextPhaseFacts DEF PhaseFits, IInv
<1>6. Exchange!Becomes(c, "dropped")
  BY <1>2, <1>4, <1>5, OneMoves
<1>7. Exchange!Drop(c)
  BY <1>5, <1>6 DEF Exchange!Drop, Exchange!Over
<1> QED BY <1>7 DEF Exchange!Next

(* Every step of the scheduler is a step of the exchanges, or none. *)
LEMMA StepExchange ==
  ASSUME IInv, IInv', AccountInv, [Next]_vars
  PROVE  Exchange!Next \/ UNCHANGED Exchange!vars
<1>1. StepCase
  BY StepCases
<1>2. CASE QuietStep \/ Stops
  BY <1>2, QuietExchange, StopExchange DEF QuietStep
<1>3. CASE VisitMove \/ ReleaseNext
  BY <1>3, MoveExchange, ReleaseExchange
<1>4. CASE \E d \in Nat : Pump(d) \/ EndPump(d) \/ Dispatch(d)
  BY <1>4, PumpShape, QuietExchange, EndPumpExchange, DispatchExchange
<1>5. CASE \E d \in Nat, c \in Clients, q \in Requests : AcceptClient(c, q, d)
  BY <1>5, AcceptExchange
<1>6. CASE HandlerClosedServer \/ EndClosedPump
  BY <1>6, ClosedVisitShape, EndClosedPumpShape, QuietExchange
<1>7. CASE ClockCheckThrows
  BY <1>7, ClockCheckExchange
<1> QED BY <1>1, <1>2, <1>3, <1>4, <1>5, <1>6, <1>7 DEF StepCase

(* Every behaviour of the scheduler is one HttpExchange allows: whatever   *)
(* sockets, budgets, deadlines and handlers do, each request is received,  *)
(* handled at most once or refused, answered once, and delivered whole or  *)
(* dropped; a stopped server handles and answers nothing.                  *)
THEOREM SpecImplementsExchange == Spec => ImplementsExchange
<1>1. Init => Exchange!Init
  BY InitExchange
<1>2. IInv /\ IInv' /\ AccountInv /\ [Next]_vars => [Exchange!Next]_(Exchange!vars)
  BY StepExchange
<1> QED BY <1>1, <1>2, SpecIInv, SpecAccountInv, PTL DEF Spec, ImplementsExchange, Exchange!Spec

=============================================================================
