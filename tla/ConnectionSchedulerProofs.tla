--------------------- MODULE ConnectionSchedulerProofs ---------------------
(***************************************************************************)
(* IInv is an invariant of ConnectionScheduler for every value of its      *)
(* constants, and with it the safety properties it implies.                *)
(***************************************************************************)
EXTENDS SchedulerInvariant, FiniteSetTheorems, SequenceTheorems, TLAPS

(* The assumptions about options and environment, as the provers use them. *)
LEMMA OptionFacts ==
  /\ MaxConnections \in Nat /\ MaxConnections > 0
  /\ MaxVisitsPerPump \in Nat /\ MaxVisitsPerPump > 0
  /\ MaxDispatchesPerPump \in Nat
  /\ IoChunkBytes \in Nat /\ IoChunkBytes > 0
  /\ MaxIoBytesPerVisit \in Nat
  /\ MaxIoBytesPerPump \in Nat
  /\ MaxBufferedBodyBytes \in Nat
  /\ RequestTimeout \in Nat
  /\ ResponseTimeout \in Nat
  /\ IdleTimeout \in Nat
  /\ MaxPumpSeconds \in Nat
BY OptionsAssumption DEF OptionsAssumption, ResolvedOptions, Positive

LEMMA EnvironmentFacts ==
  /\ NoClient \notin Clients
  /\ Requests \subseteq [head : Positive, body : Nat, accepted : BOOLEAN]
  /\ ErrorBytes \in Positive
  /\ ResponseLengths \subseteq Positive
  /\ PumpGaps \subseteq Nat
  /\ ClockSteps \cup {0} \subseteq Nat
BY EnvironmentAssumption DEF EnvironmentAssumption

-----------------------------------------------------------------------------
(* Connection records. *)

(* The fields neither a clock reading nor a refusal touches. *)
SameProgress(r, s) ==
  /\ s.state = r.state /\ s.req = r.req /\ s.headBytes = r.headBytes
  /\ s.bodyExpected = r.bodyExpected /\ s.bodyReceived = r.bodyReceived
  /\ s.length = r.length /\ s.writePos = r.writePos
  /\ s.reserved = r.reserved

(* A remaining time stays a natural number. *)
LEMMA LeftType == ASSUME NEW t \in Nat, NEW d \in Nat PROVE Left(t, d) \in Nat
BY DEF Left

LEMMA LeftOfInt == ASSUME NEW t \in Nat, NEW d \in Int PROVE Left(t, d) \in Nat
BY DEF Left

(* A clock reading moves a connection's timers and nothing else. *)
LEMMA AgedFacts ==
  ASSUME NEW r \in Connection, NEW d \in Nat
  PROVE  Aged(r, d) \in Connection /\ SameProgress(r, Aged(r, d))
<1>1. /\ Left(r.requestLeft, d) \in Nat
      /\ Left(r.idleLeft, d) \in Nat
      /\ Left(r.writeLeft, d) \in Nat
  BY LeftType DEF Connection
<1> QED BY <1>1 DEF Connection, Aged, SameProgress, Reading

(* They are all that ConnOK reads of a connection. *)
LEMMA ConnOKOfProgress ==
  ASSUME NEW r, NEW s, NEW h, SameProgress(r, s), ConnOK(r, h)
  PROVE  ConnOK(s, h)
BY DEF SameProgress, ConnOK, HandledOnce, Reading

(* A response can be started for any connection, for whatever reason. *)
LEMMA StartResponseFacts ==
  ASSUME NEW r \in Connection, NEW n \in Positive, NEW h \in History, ConnOK(r, h)
  PROVE  /\ StartResponse(r, n) \in Connection
         /\ ConnOK(StartResponse(r, n), h)
         /\ StartResponse(r, n).state = "WRITING_RESPONSE"
         /\ StartResponse(r, n).reserved = r.reserved
<1> DEFINE s == StartResponse(r, n)
<1>1. s \in Connection
  <2>1. 1 \in Positive /\ n \in Nat
    BY DEF Positive
  <2> QED BY <2>1, OptionFacts DEF StartResponse, Connection, ConnectionState
<1>2. /\ s.state = "WRITING_RESPONSE" /\ s.reserved = r.reserved
      /\ s.req = r.req /\ s.bodyReceived = r.bodyReceived
      /\ s.writePos = 1 /\ s.length = n
  BY DEF StartResponse, Connection
<1>3. ConnOK(s, h)
  <2> HIDE DEF s
  <2> QED BY <1>2 DEF ConnOK, HandledOnce, Reading, Positive
<1> QED BY <1>1, <1>2, <1>3

(* Closing a connection gives back what it holds, and may be repeated. *)
LEMMA ReleasedFacts ==
  ASSUME NEW r \in Connection, NEW h \in History, HandledOnce(r, h)
  PROVE  /\ Released(r) \in Connection
         /\ ConnOK(Released(r), h)
         /\ Released(r).state = "CLOSED"
         /\ Released(r).reserved <= r.reserved
<1> DEFINE s == Released(r)
<1>1. s \in Connection
  BY DEF Released, Connection, ConnectionState
<1>2. /\ s.state = "CLOSED" /\ s.reserved \in {0, r.reserved} /\ r.reserved \in Nat
      /\ s.req = r.req /\ s.bodyReceived = r.bodyReceived
  BY DEF Released, Connection
<1>3. ConnOK(s, h)
  <2> HIDE DEF s
  <2> QED BY <1>2 DEF ConnOK, HandledOnce, Reading
<1>4. s.reserved <= r.reserved
  <2> HIDE DEF s
  <2> QED BY <1>2
<1> QED BY <1>1, <1>2, <1>3, <1>4

(* Body bytes never exceed the declared length; the request is ready when  *)
(* exactly that many have arrived.                                         *)
LEMMA AppendBodyFacts ==
  ASSUME NEW r \in Connection, NEW n \in Nat, NEW h \in History,
         r.req.accepted, r.bodyExpected = r.req.body,
         r.bodyReceived < r.bodyExpected, h.handled = 0
  PROVE  /\ AppendBody(r, n) \in Connection
         /\ ConnOK(AppendBody(r, n), h)
         /\ AppendBody(r, n).state \in {"READING_BODY", "READY_TO_DISPATCH"}
         /\ AppendBody(r, n).reserved = r.reserved
<1> DEFINE needed == r.bodyExpected - r.bodyReceived
           taken == Smaller(n, needed)
           s == AppendBody(r, n)
           received == r.bodyReceived + taken
           state == IF taken = needed THEN "READY_TO_DISPATCH" ELSE "READING_BODY"
<1>1. r.bodyReceived \in Nat /\ r.bodyExpected \in Nat
  BY DEF Connection
<1>2. taken \in Nat /\ needed \in Nat /\ taken <= needed
  BY <1>1 DEF Smaller
<1>3. s = [r EXCEPT !.bodyReceived = received, !.state = state]
  BY DEF AppendBody, Whole
<1>4. received \in Nat /\ state \in ConnectionState
  BY <1>1, <1>2 DEF ConnectionState
<1>5. /\ s \in Connection
      /\ s.reserved = r.reserved /\ s.req = r.req /\ s.bodyExpected = r.bodyExpected
      /\ s.bodyReceived = received
      /\ s.state = state
  <2> HIDE DEF s, received, state
  <2> QED BY <1>3, <1>4 DEF Connection
<1> HIDE DEF taken, s
<1>6. taken = needed => s.bodyReceived = s.req.body
  BY <1>1, <1>2, <1>5
<1>7. taken # needed => s.bodyReceived < s.bodyExpected
  BY <1>1, <1>2, <1>5
<1>8. ConnOK(s, h)
  BY <1>5, <1>6, <1>7 DEF ConnOK, HandledOnce, Reading
<1> QED BY <1>5, <1>8 DEF s

(* A request, read to the end of its head, is refused, ready, or waits for *)
(* its body; its reservation is one that fits.                             *)
LEMMA HeadCompleteFacts ==
  ASSUME NEW r \in Connection, NEW rest \in Nat, NEW h \in History,
         ConnOK(r, h), r.state = "READING_HEADERS",
         bufferedBodyBytes \in Int, WithinBodyBudget
  PROVE  /\ HeadComplete(r, rest) \in Connection
         /\ ConnOK(HeadComplete(r, rest), h)
         /\ HeadComplete(r, rest).state \in
              {"READING_BODY", "READY_TO_DISPATCH", "WRITING_RESPONSE"}
         /\ bufferedBodyBytes + HeadComplete(r, rest).reserved - r.reserved
              <= MaxBufferedBodyBytes
<1> DEFINE q == r.req
           parsed == [r EXCEPT !.headBytes = 0, !.bodyExpected = q.body, !.reserved = q.body]
           ready == [parsed EXCEPT !.state = "READY_TO_DISPATCH"]
           refused == ~q.accepted \/ (q.body > 0 /\ ~Fits(q))
<1>1. /\ r.reserved = 0 /\ r.bodyReceived = 0 /\ h.handled = 0
      /\ q \in Requests /\ q.body \in Nat /\ MaxBufferedBodyBytes \in Nat
  BY EnvironmentFacts, OptionFacts DEF ConnOK, HandledOnce, Reading, Connection
<1>2. /\ parsed \in Connection
      /\ parsed.req = q /\ parsed.bodyExpected = q.body /\ parsed.reserved = q.body
      /\ parsed.bodyReceived = 0
  BY <1>1 DEF Connection
<1>3. CASE refused
  <2>1. HeadComplete(r, rest) = StartResponse(r, ErrorBytes)
    BY <1>3 DEF HeadComplete, Reject
  <2> QED BY <1>1, <2>1, StartResponseFacts, EnvironmentFacts DEF WithinBodyBudget
<1>4. CASE ~refused /\ q.body = 0
  <2>1. HeadComplete(r, rest) = ready
    BY <1>4 DEF HeadComplete
  <2>2. /\ ready \in Connection /\ ready.state = "READY_TO_DISPATCH"
        /\ ready.req = q /\ ready.reserved = 0 /\ ready.bodyReceived = 0
    BY <1>2, <1>4 DEF Connection, ConnectionState
  <2>3. ConnOK(ready, h)
    <3> HIDE DEF ready
    <3> QED BY <1>1, <1>4, <2>2 DEF ConnOK, HandledOnce, Reading
  <2> HIDE DEF ready
  <2> QED BY <1>1, <2>1, <2>2, <2>3 DEF WithinBodyBudget
<1>5. CASE ~refused /\ q.body # 0
  <2>1. HeadComplete(r, rest) = AppendBody(parsed, rest)
    BY <1>5 DEF HeadComplete
  <2>2. q.accepted /\ bufferedBodyBytes + q.body <= MaxBufferedBodyBytes
    BY <1>1, <1>5 DEF Fits
  <2> HIDE DEF parsed
  <2>3. /\ AppendBody(parsed, rest) \in Connection
        /\ ConnOK(AppendBody(parsed, rest), h)
        /\ AppendBody(parsed, rest).state \in {"READING_BODY", "READY_TO_DISPATCH"}
        /\ AppendBody(parsed, rest).reserved = q.body
    BY <1>1, <1>2, <1>5, <2>2, AppendBodyFacts
  <2> QED BY <1>1, <2>1, <2>2, <2>3
<1> QED BY <1>3, <1>4, <1>5

(* What arrives, in head or body. *)
LEMMA ConsumeFacts ==
  ASSUME NEW r \in Connection, NEW n \in Nat, NEW h \in History,
         ConnOK(r, h), Reading(r), bufferedBodyBytes \in Int, WithinBodyBudget
  PROVE  /\ Consume(r, n) \in Connection
         /\ ConnOK(Consume(r, n), h)
         /\ Reading(Consume(r, n))
            \/ Consume(r, n).state \in {"READY_TO_DISPATCH", "WRITING_RESPONSE"}
         /\ bufferedBodyBytes + Consume(r, n).reserved - r.reserved
              <= MaxBufferedBodyBytes
<1>1. /\ r.req \in Requests /\ r.req.head \in Nat /\ r.headBytes \in Nat
      /\ r.reserved \in Nat /\ MaxBufferedBodyBytes \in Nat
  BY EnvironmentFacts, OptionFacts DEF Connection, Positive
<1>2. CASE r.state = "READING_BODY"
  <2>1. Consume(r, n) = AppendBody(r, n)
    BY <1>2 DEF Consume
  <2>2. /\ r.req.accepted /\ r.bodyExpected = r.req.body
        /\ r.bodyReceived < r.bodyExpected /\ h.handled = 0
    BY <1>2 DEF ConnOK, HandledOnce, Reading
  <2> QED BY <1>1, <2>1, <2>2, AppendBodyFacts DEF Reading, WithinBodyBudget
<1>3. CASE r.state = "READING_HEADERS" /\ r.headBytes + n < r.req.head
  <2> DEFINE s == [r EXCEPT !.headBytes = r.headBytes + n]
  <2>1. Consume(r, n) = s
    BY <1>3 DEF Consume
  <2>2. r.headBytes + n \in Nat
    BY <1>1
  <2>3. /\ s \in Connection /\ s.state = r.state /\ s.req = r.req
        /\ s.reserved = r.reserved /\ s.bodyReceived = r.bodyReceived
    BY <2>2 DEF Connection
  <2> HIDE DEF s
  <2>4. ConnOK(s, h)
    BY <1>3, <2>3 DEF ConnOK, HandledOnce, Reading
  <2> QED BY <1>1, <1>3, <2>1, <2>3, <2>4 DEF Reading, WithinBodyBudget
<1>4. CASE r.state = "READING_HEADERS" /\ ~(r.headBytes + n < r.req.head)
  <2> DEFINE rest == r.headBytes + n - r.req.head
  <2>1. Consume(r, n) = HeadComplete(r, rest) /\ rest \in Nat
    BY <1>1, <1>4 DEF Consume
  <2> HIDE DEF rest
  <2> QED BY <1>4, <2>1, HeadCompleteFacts DEF Reading
<1> QED BY <1>2, <1>3, <1>4 DEF Reading

-----------------------------------------------------------------------------
(* Clock readings and visits. *)

(* A clock reading leaves every connection well formed. *)
LEMMA ElapseFacts ==
  ASSUME NEW d \in Nat, conn \in [Clients -> Connection]
  PROVE  /\ Elapse(d) \in [Clients -> Connection]
         /\ \A c \in Clients : SameProgress(conn[c], Elapse(d)[c])
BY AgedFacts DEF Elapse

(* What the visited connection, now r, does next. *)
GoesOn(r, io) ==
  \/ Continue("read", io) /\ Reading(r)
  \/ Continue("dispatch", io) /\ r.state = "READY_TO_DISPATCH"
  \/ Continue("write", io) /\ r.state = "WRITING_RESPONSE"
  \/ EndVisit(r)

(* A function on 1..m is a sequence of length m. *)
LEMMA FunctionIsSequence ==
  ASSUME NEW S, NEW m \in Nat, NEW f \in [1..m -> S]
  PROVE  f \in Seq(S) /\ Len(f) = m
<1>1. f \in Seq(S)
  BY SeqDef
<1>2. Len(f) \in Nat /\ DOMAIN f = 1..Len(f)
  BY <1>1, LenProperties
<1>3. DOMAIN f = 1..m
  OBVIOUS
<1> QED BY <1>1, <1>2, <1>3, SMT

(* What a place in the list holds, and that the list repeats nothing. *)
LEMMA ListFacts ==
  ASSUME TypeOK, OrderInv
  PROVE  /\ Len(connections) \in Nat
         /\ \A i \in 1..Len(connections) :
              connections[i] \in Clients
         /\ \A i, j \in 1..Len(connections) : connections[i] = connections[j] => i = j
<1>1. connections \in Seq(Clients)
  BY DEF TypeOK
<1> QED BY <1>1 DEF OrderInv

(* A step of a visit in which the connection becomes r. *)
LEMMA VisitStep ==
  ASSUME IInv, NEW d \in Nat, NEW io \in Nat, NEW r \in Connection,
         io <= visitIo, ~closed, pc \in Visiting \cup {"handler"},
         Update(r, io, d), GoesOn(r, io),
         history' \in [Clients -> History],
         \A c \in Clients \ {current} : history'[c] = history[c],
         history'[current].skipped = history[current].skipped,
         ConnOK(r, history'[current]), r.state # "DISPATCHING",
         bufferedBodyBytes + r.reserved - conn[current].reserved <= MaxBufferedBodyBytes
  PROVE  IInv'
<1> USE DEF IInv
<1>1. /\ current \in Clients /\ pumping
      /\ stats.visited < Len(connections)
      /\ connections[stats.visited + 1] = current
      /\ stats.visited \in Nat /\ Len(connections) \in Nat
  BY DEF StageInv, VisitInv, TypeOK
<1>2. /\ connections' = connections /\ closed' = closed
      /\ pumping' = pumping
  BY DEF Update, GoesOn, Continue, EndVisit, VisitOver
<1>3. /\ conn' \in [Clients -> Connection]
      /\ conn'[current] = r
      /\ \A c \in Clients \ {current} : SameProgress(conn[c], conn'[c])
  BY <1>1, ElapseFacts DEF Update, TypeOK
<1>4. \A c \in Clients \ {current} : conn'[c].state = conn[c].state
  BY <1>3 DEF SameProgress
<1>5. /\ budget' \in [io : Nat, dispatches : Nat, time : Nat]
      /\ visitIo' \in Nat /\ visitIo' <= budget'.io
  <2>1. /\ visitIo \in Nat /\ budget.io \in Nat /\ visitIo <= budget.io
        /\ budget.dispatches \in Nat /\ Left(budget.time, d) \in Nat
    BY LeftType DEF TypeOK, VisitWithinPumpBudget
  <2>2. budget' = [io |-> budget.io - io, dispatches |-> budget.dispatches,
                   time |-> Left(budget.time, d)]
    BY DEF TypeOK, Update, BudgetLater
  <2>3. visitIo' \in {0, visitIo - io}
    BY DEF GoesOn, Continue, EndVisit, VisitOver
  <2> QED BY <2>1, <2>2, <2>3
<1>6. /\ bufferedBodyBytes' \in Int /\ bufferedBodyBytes' <= MaxBufferedBodyBytes
  <2>1. bufferedBodyBytes' = bufferedBodyBytes + r.reserved - conn[current].reserved
    BY DEF Update, Reserve
  <2>2. r.reserved \in Int /\ conn[current].reserved \in Int
    BY <1>1 DEF TypeOK, Connection
  <2> QED BY <2>1, <2>2 DEF TypeOK
<1>7. /\ stats' \in [accepted : Nat, visited : Nat, dispatched : Nat, closed : Nat,
                      active : Nat]
      /\ stats'.visited = IF EndVisit(r) THEN stats.visited + 1 ELSE stats.visited
  <2>1. CASE EndVisit(r)
    <3> DEFINE visited == stats.visited + 1
               count == stats.closed + ClosedCount(r)
    <3>1. visited \in Nat /\ count \in Nat
      <4>1. stats.visited \in Nat /\ stats.closed \in Nat
        BY DEF TypeOK
      <4>2. ClosedCount(r) \in Nat
        BY DEF ClosedCount
      <4> QED BY <4>1, <4>2
    <3>2. stats' = [stats EXCEPT !.visited = visited, !.closed = count]
      BY <2>1 DEF EndVisit, VisitOver
    <3> HIDE DEF visited, count
    <3>3. /\ stats' \in [accepted : Nat, visited : Nat, dispatched : Nat, closed : Nat,
                          active : Nat]
          /\ stats'.visited = visited
      BY <3>1, <3>2 DEF TypeOK
    <3> QED BY <2>1, <3>3 DEF visited
  <2>2. CASE ~EndVisit(r)
    BY <2>2 DEF GoesOn, Continue, TypeOK
  <2> QED BY <2>1, <2>2
<1>8. \/ /\ EndVisit(r) /\ pc' = "visit" /\ current' = NoClient /\ visitIo' = 0
      \/ /\ ~EndVisit(r) /\ pc' \in Visiting /\ current' = current
         /\ r.state # "CLOSED"
         /\ pc' = "read" => Reading(r)
         /\ pc' = "dispatch" => r.state = "READY_TO_DISPATCH"
         /\ pc' = "write" => r.state = "WRITING_RESPONSE"
  BY DEF GoesOn, Continue, EndVisit, VisitOver, Visiting, Reading
<1>9. TypeOK'
  BY <1>1, <1>2, <1>3, <1>5, <1>6, <1>7, <1>8 DEF TypeOK, Visiting
<1>10. ConnInv'
  <2> SUFFICES ASSUME NEW c \in Clients PROVE ConnOK(conn'[c], history'[c])
    BY DEF ConnInv
  <2>1. CASE c = current
    BY <2>1, <1>3
  <2>2. CASE c # current
    BY <2>2, <1>3, ConnOKOfProgress DEF ConnInv
  <2> QED BY <2>1, <2>2
<1>11. StageInv'
  <2>1. \A c \in Clients : conn'[c].state # "DISPATCHING"
    BY <1>3, <1>4 DEF StageInv
  <2>2. NoClient \notin Clients
    BY EnvironmentFacts
  <2>3. CASE EndVisit(r)
    BY <1>1, <1>2, <1>8, <2>1, <2>2, <2>3 DEF StageInv, BetweenVisits, Visiting, StageFits
  <2>4. CASE ~EndVisit(r)
    BY <1>1, <1>2, <1>3, <1>8, <2>1, <2>2, <2>4
      DEF StageInv, BetweenVisits, Visiting, StageFits
  <2> QED BY <2>3, <2>4
<1>12. VisitInv'
  <2>1. /\ pc' \in Visiting \cup {"visit"}
        /\ pc' \in Visiting => pc' # "visit" /\ ~EndVisit(r)
    BY <1>8 DEF Visiting
  <2>2. /\ stats'.visited <= Len(connections)
        /\ \A i \in stats'.visited + 1 .. Len(connections) :
             conn'[connections[i]].state # "CLOSED"
    <3> SUFFICES ASSUME NEW i \in stats'.visited + 1 .. Len(connections)
                 PROVE  conn'[connections[i]].state # "CLOSED"
      BY <1>1, <1>7
    <3>1. /\ i \in 1..Len(connections) /\ i \in stats.visited + 1 .. Len(connections)
          /\ stats.visited + 1 \in 1..Len(connections)
          /\ EndVisit(r) => i # stats.visited + 1
      <4> DEFINE v == stats'.visited
      <4>1. v = IF EndVisit(r) THEN stats.visited + 1 ELSE stats.visited
        BY <1>7
      <4>2. /\ stats.visited \in Nat /\ Len(connections) \in Nat
            /\ stats.visited < Len(connections) /\ i \in v + 1 .. Len(connections)
        BY <1>1
      <4> HIDE DEF v
      <4> QED BY <4>1, <4>2
    <3>2. connections[i] \in Clients /\ conn[connections[i]].state # "CLOSED"
      BY <3>1, ListFacts DEF VisitInv
    <3>3. EndVisit(r) => connections[i] # current
      BY <3>1, <1>1, ListFacts
    <3> QED BY <1>3, <1>4, <1>8, <3>2, <3>3
  <2>3. pc' \in Visiting => stats'.visited = stats.visited /\ current' = current
    BY <2>1, <1>7, <1>8
  <2>4. pc' \notin {"idle", "accept", "handler"}
    BY <2>1 DEF Visiting
  <2> QED BY <1>1, <1>2, <2>1, <2>2, <2>3, <2>4 DEF VisitInv
<1>13. OrderInv'
  <2>1. current \in OpenSlots
    BY <1>1 DEF OpenSlots
  <2> QED BY <1>2, <1>4, <2>1 DEF OrderInv, OpenSlots
<1>14. GapInv'
  <2>1. \A i \in 1..Len(connections) : connections[i] \in Clients
    BY DEF TypeOK
  <2>2. \A c \in Clients : history'[c].skipped = history[c].skipped
    OBVIOUS
  <2> QED BY <1>2, <2>1, <2>2 DEF GapInv
<1>15. WithinBodyBudget' /\ VisitWithinPumpBudget'
  BY <1>5, <1>6 DEF WithinBodyBudget, VisitWithinPumpBudget
<1> QED BY <1>9, <1>10, <1>11, <1>12, <1>13, <1>14, <1>15

-----------------------------------------------------------------------------
(* The visited connection is refused, failed, or fed. *)

(* A visit is over open connections only, of a server that is not closed. *)
LEMMA VisitFacts ==
  ASSUME IInv, pc \in Visiting
  PROVE  /\ ~closed /\ pc \in Visiting \cup {"handler"}
         /\ current \in Clients
         /\ conn[current] \in Connection
         /\ history[current] \in History
         /\ history \in [Clients -> History]
         /\ ConnOK(conn[current], history[current])
         /\ HandledOnce(conn[current], history[current])
         /\ StageFits(conn[current])
         /\ conn[current].state # "DISPATCHING"
         /\ conn[current].reserved \in Nat
         /\ visitIo \in Nat
         /\ bufferedBodyBytes \in Int /\ bufferedBodyBytes <= MaxBufferedBodyBytes
<1>1. ~closed /\ current \in Clients
  BY DEF IInv, StageInv, Visiting
<1>2. conn[current] \in Connection /\ history[current] \in History
  BY <1>1 DEF IInv, TypeOK
<1>3. ConnOK(conn[current], history[current])
  BY <1>1 DEF IInv, ConnInv
<1>4. conn[current].state # "DISPATCHING"
  BY <1>1 DEF IInv, StageInv, Visiting
<1> QED BY <1>1, <1>2, <1>3, <1>4
         DEF IInv, TypeOK, StageInv, ConnOK, WithinBodyBudget, Connection

(* ConnOK reads only handled of a history. *)
LEMMA NoteFacts ==
  ASSUME history \in [Clients -> History], current \in Clients, NEW sent \in Nat,
         NEW outcome \in {"none", "completed", "failed"}, Note(outcome, sent)
  PROVE  /\ history' \in [Clients -> History]
         /\ \A c \in Clients \ {current} : history'[c] = history[c]
         /\ history'[current].skipped = history[current].skipped
         /\ history'[current].handled = history[current].handled
<1> DEFINE h == history[current]
           total == h.delivered + sent
           g == [[h EXCEPT !.outcome = outcome] EXCEPT !.delivered = total]
<1>1. history' = [history EXCEPT ![current] = g]
  BY DEF Note
<1>2. h \in History /\ total \in Nat
  BY DEF History
<1>3. g \in History /\ g.skipped = h.skipped /\ g.handled = h.handled
  <2> HIDE DEF h, total
  <2> QED BY <1>2 DEF History
<1> HIDE DEF g
<1> QED BY <1>1, <1>3

(* A refused connection is marked and keeps its place in its request. *)
LEMMA RefuseStep ==
  ASSUME IInv, pc \in Visiting, NEW d \in Nat, Refuse(d)
  PROVE  IInv'
<1> DEFINE r == [conn[current] EXCEPT !.starved = TRUE]
<1>1. /\ r \in Connection /\ r.state = conn[current].state /\ r.req = conn[current].req
      /\ r.bodyReceived = conn[current].bodyReceived
      /\ r.bodyExpected = conn[current].bodyExpected
      /\ r.reserved = conn[current].reserved
      /\ r.writePos = conn[current].writePos /\ r.length = conn[current].length
  BY VisitFacts DEF Connection
<1>2. Update(r, 0, d) /\ EndVisit(r) /\ history' = history
  BY DEF Refuse
<1> HIDE DEF r
<1>3. ConnOK(r, history[current])
  BY <1>1, VisitFacts DEF ConnOK, HandledOnce, Reading
<1>4. bufferedBodyBytes + r.reserved - conn[current].reserved <= MaxBufferedBodyBytes
  BY <1>1, VisitFacts, OptionFacts
<1> QED BY <1>1, <1>2, <1>3, <1>4, VisitFacts, VisitStep DEF GoesOn

(* A failed connection is closed, whatever the socket took. *)
LEMMA FailStep ==
  ASSUME IInv, pc \in Visiting, NEW r \in Connection, NEW io \in Nat,
         io <= visitIo, Fail(r, io), HandledOnce(r, history[current]),
         r.reserved = conn[current].reserved
  PROVE  IInv'
<1> DEFINE s == Released(r)
<1>1. Update(s, io, 0) /\ EndVisit(s) /\ Note("failed", io)
  BY DEF Fail
<1>2. s \in Connection /\ s.state = "CLOSED" /\ s.reserved <= r.reserved
  BY ReleasedFacts, VisitFacts
<1> HIDE DEF s
<1>3. /\ history' \in [Clients -> History]
      /\ \A c \in Clients \ {current} : history'[c] = history[c]
      /\ history'[current].skipped = history[current].skipped
      /\ history'[current].handled = history[current].handled
  BY <1>1, VisitFacts, NoteFacts
<1>4. ConnOK(s, history'[current])
  <2>1. HandledOnce(r, history'[current]) /\ history'[current] \in History
    BY <1>3, VisitFacts DEF HandledOnce
  <2> QED BY <2>1, ReleasedFacts DEF s
<1>5. bufferedBodyBytes + s.reserved - conn[current].reserved <= MaxBufferedBodyBytes
  <2>1. s.reserved \in Nat
    BY <1>2 DEF Connection
  <2> QED BY <1>2, <2>1, VisitFacts, OptionFacts
<1> QED BY <1>1, <1>2, <1>3, <1>4, <1>5, VisitFacts, VisitStep DEF GoesOn

(* A visit of which the history is not told. *)
LEMMA SilentStep ==
  ASSUME IInv, pc \in Visiting, NEW r \in Connection, NEW io \in Nat, NEW d \in Nat,
         io <= visitIo, Update(r, io, d), GoesOn(r, io), history' = history,
         ConnOK(r, history[current]), r.state # "DISPATCHING",
         bufferedBodyBytes + r.reserved - conn[current].reserved <= MaxBufferedBodyBytes
  PROVE  IInv'
BY VisitFacts, VisitStep

-----------------------------------------------------------------------------
(* The actions of a visit. *)

LEMMA RequestExpiredInv ==
  ASSUME IInv, NEW d \in Nat, RequestExpired(d) PROVE IInv'
<1> DEFINE r == StartResponse(conn[current], ErrorBytes)
<1>1. pc \in Visiting /\ Update(r, 0, d) /\ Continue("write", 0) /\ history' = history
  BY DEF RequestExpired, Reject, Visiting
<1>2. /\ r \in Connection /\ r.state = "WRITING_RESPONSE"
      /\ ConnOK(r, history[current]) /\ r.reserved = conn[current].reserved
  BY <1>1, VisitFacts, StartResponseFacts, EnvironmentFacts
<1> HIDE DEF r
<1>3. bufferedBodyBytes + r.reserved - conn[current].reserved <= MaxBufferedBodyBytes
  BY <1>1, <1>2, VisitFacts, OptionFacts
<1> QED BY <1>1, <1>2, <1>3, VisitFacts, SilentStep DEF GoesOn

LEMMA ReadRefusedInv == ASSUME IInv, ReadRefused PROVE IInv'
BY RefuseStep DEF ReadRefused, Visiting

(* What a receive is asked for is positive and within the allowance. *)
LEMMA WantedFacts ==
  ASSUME IInv, MayReceive
  PROVE  /\ pc \in Visiting /\ Reading(conn[current])
         /\ Wanted \in Nat /\ Wanted <= visitIo
<1>1. pc \in Visiting /\ pc = "read" /\ visitIo > 0
  BY DEF MayReceive, Visiting
<1>2. Reading(conn[current])
  BY <1>1, VisitFacts DEF StageFits
<1>3. /\ Chunk \in Nat /\ Chunk <= visitIo
  BY <1>1, VisitFacts, OptionFacts DEF Chunk, Smaller
<1>4. conn[current].state = "READING_BODY" =>
        /\ conn[current].bodyExpected - conn[current].bodyReceived \in Nat
  BY <1>1, VisitFacts DEF ConnOK, Connection
<1> QED BY <1>1, <1>2, <1>3, <1>4, VisitFacts DEF Wanted, Smaller

(* The connection after a receive. *)
LEMMA ReceiveFacts ==
  ASSUME IInv, MayReceive, NEW n \in Nat
  PROVE  /\ AfterReceiving(n) \in Connection
         /\ ConnOK(AfterReceiving(n), history[current])
         /\ \/ Reading(AfterReceiving(n))
            \/ AfterReceiving(n).state \in {"READY_TO_DISPATCH", "WRITING_RESPONSE"}
         /\ bufferedBodyBytes + AfterReceiving(n).reserved - conn[current].reserved
              <= MaxBufferedBodyBytes
<1> DEFINE r == [conn[current] EXCEPT !.idleLeft = IdleTimeout]
<1>1. /\ conn[current] \in Connection /\ ConnOK(conn[current], history[current])
      /\ Reading(conn[current]) /\ history[current] \in History
      /\ bufferedBodyBytes \in Int /\ bufferedBodyBytes <= MaxBufferedBodyBytes
      /\ conn[current].reserved \in Nat
  BY VisitFacts, WantedFacts
<1>2. CASE n = 0
  BY <1>1, <1>2, OptionFacts DEF AfterReceiving
<1>3. CASE n # 0
  <2>1. AfterReceiving(n) = Consume(r, n)
    BY <1>3 DEF AfterReceiving
  <2>2. r \in Connection /\ SameProgress(conn[current], r)
    BY <1>1, OptionFacts DEF Connection, SameProgress
  <2> HIDE DEF r
  <2>3. ConnOK(r, history[current]) /\ Reading(r) /\ r.reserved = conn[current].reserved
    BY <1>1, <2>2, ConnOKOfProgress DEF SameProgress, Reading
  <2> QED BY <1>1, <2>1, <2>2, <2>3, ConsumeFacts DEF WithinBodyBudget
<1> QED BY <1>2, <1>3

LEMMA ReceiveAllInv == ASSUME IInv, NEW d \in Nat, ReceiveAll(d) PROVE IInv'
<1> DEFINE r == AfterReceiving(Wanted)
<1>1. /\ MayReceive /\ Update(r, Wanted, d) /\ history' = history
      /\ (Reading(r) /\ Continue("read", Wanted)) \/ AfterInput(r, Wanted)
  BY DEF ReceiveAll
<1>2. /\ pc \in Visiting /\ Wanted \in Nat /\ Wanted <= visitIo
      /\ r \in Connection /\ ConnOK(r, history[current])
      /\ Reading(r) \/ r.state \in {"READY_TO_DISPATCH", "WRITING_RESPONSE"}
      /\ bufferedBodyBytes + r.reserved - conn[current].reserved <= MaxBufferedBodyBytes
  BY <1>1, WantedFacts, ReceiveFacts
<1> HIDE DEF r
<1>3. GoesOn(r, Wanted)
  BY <1>1 DEF AfterInput, GoesOn
<1>4. r.state # "DISPATCHING"
  BY <1>2 DEF Reading
<1> QED BY <1>1, <1>2, <1>3, <1>4, SilentStep

LEMMA ReceivePartInv ==
  ASSUME IInv, NEW n \in Nat, NEW d \in Nat, ReceivePart(n, d) PROVE IInv'
<1> DEFINE r == AfterReceiving(n)
<1>1. /\ MayReceive /\ n < Wanted /\ Update(r, n, d) /\ history' = history
      /\ AfterInput(r, n)
  BY DEF ReceivePart
<1>2. /\ pc \in Visiting /\ n <= visitIo
      /\ r \in Connection /\ ConnOK(r, history[current])
      /\ Reading(r) \/ r.state \in {"READY_TO_DISPATCH", "WRITING_RESPONSE"}
      /\ bufferedBodyBytes + r.reserved - conn[current].reserved <= MaxBufferedBodyBytes
  BY <1>1, WantedFacts, VisitFacts, ReceiveFacts
<1> HIDE DEF r
<1>3. GoesOn(r, n) /\ r.state # "DISPATCHING"
  BY <1>1, <1>2 DEF AfterInput, GoesOn, Reading
<1> QED BY <1>1, <1>2, <1>3, SilentStep

LEMMA ReceiveFailsInv ==
  ASSUME IInv, NEW n \in Nat, NEW d \in Nat, ReceiveFails(n, d) PROVE IInv'
<1> DEFINE r == AfterReceiving(n)
           s == Released(r)
<1>1. MayReceive /\ n < Wanted
  BY DEF ReceiveFails
<1>2. /\ pc \in Visiting /\ n <= visitIo
      /\ r \in Connection /\ ConnOK(r, history[current])
      /\ Reading(r) \/ r.state \in {"READY_TO_DISPATCH", "WRITING_RESPONSE"}
      /\ bufferedBodyBytes + r.reserved - conn[current].reserved <= MaxBufferedBodyBytes
  BY <1>1, WantedFacts, VisitFacts, ReceiveFacts
<1>3. CASE ~Reading(r)
  <2>1. Update(r, n, d) /\ AfterInput(r, n) /\ history' = history
    BY <1>3 DEF ReceiveFails
  <2>2. GoesOn(r, n) /\ r.state # "DISPATCHING"
    BY <1>2, <2>1 DEF AfterInput, GoesOn, Reading
  <2> QED BY <1>2, <2>1, <2>2, SilentStep
<1>4. CASE Reading(r)
  <2>1. Update(s, n, d) /\ AfterInput(s, n) /\ Note("failed", 0)
    BY <1>4 DEF ReceiveFails
  <2>2. /\ history' \in [Clients -> History]
        /\ \A c \in Clients \ {current} : history'[c] = history[c]
        /\ history'[current].skipped = history[current].skipped
        /\ history'[current].handled = history[current].handled
    BY <1>2, <2>1, VisitFacts, NoteFacts
  <2>3. HandledOnce(r, history'[current]) /\ history'[current] \in History
    BY <1>2, <2>2, VisitFacts DEF ConnOK, HandledOnce
  <2>4. /\ s \in Connection /\ ConnOK(s, history'[current]) /\ s.state = "CLOSED"
        /\ s.reserved <= r.reserved /\ s.reserved \in Nat /\ r.reserved \in Nat
    BY <1>2, <2>3, ReleasedFacts DEF Connection
  <2> HIDE DEF s, r
  <2>5. GoesOn(s, n)
    BY <2>1, <2>4 DEF AfterInput, GoesOn
  <2>6. bufferedBodyBytes + s.reserved - conn[current].reserved <= MaxBufferedBodyBytes
    BY <1>2, <2>4, VisitFacts, OptionFacts
  <2> QED BY <1>2, <2>1, <2>2, <2>4, <2>5, <2>6, VisitFacts, VisitStep
<1> QED BY <1>3, <1>4

LEMMA ResponseExpiredInv == ASSUME IInv, ResponseExpired PROVE IInv'
<1>1. pc \in Visiting /\ Fail(conn[current], 0)
  BY DEF ResponseExpired, Visiting
<1> QED BY <1>1, VisitFacts, FailStep

LEMMA WriteRefusedInv == ASSUME IInv, WriteRefused PROVE IInv'
BY RefuseStep DEF WriteRefused, Visiting

(* A send is asked for at least one byte and at most the allowance, within *)
(* the response.                                                           *)
LEMMA AskedFacts ==
  ASSUME IInv, MaySend
  PROVE  /\ pc \in Visiting /\ conn[current].state = "WRITING_RESPONSE"
         /\ LastAsked \in Nat /\ LastAsked <= conn[current].length
         /\ conn[current].writePos \in Nat /\ conn[current].writePos > 0
         /\ conn[current].length \in Nat
         /\ conn[current].writePos <= LastAsked
         /\ LastAsked - conn[current].writePos + 1 <= visitIo
<1>1. pc \in Visiting /\ pc = "write" /\ visitIo > 0
  BY DEF MaySend, Visiting
<1>2. Chunk \in Nat /\ Chunk > 0 /\ Chunk <= visitIo
  BY <1>1, VisitFacts, OptionFacts DEF Chunk, Smaller
<1>3. conn[current].state = "WRITING_RESPONSE"
  BY <1>1, VisitFacts DEF StageFits
<1>4. /\ conn[current].writePos \in Nat /\ conn[current].writePos > 0
      /\ conn[current].length \in Nat /\ conn[current].writePos <= conn[current].length
  BY <1>1, <1>3, VisitFacts DEF ConnOK, Connection, Positive
<1> QED BY <1>1, <1>2, <1>3, <1>4, VisitFacts DEF LastAsked, Smaller

(* The connection once the socket has taken the bytes up to reached.       *)
LEMMA SentFacts ==
  ASSUME IInv, MaySend, NEW reached \in conn[current].writePos - 1 .. LastAsked
  PROVE  /\ SentUpTo(reached) \in Connection
         /\ Sent(reached) \in Nat /\ Sent(reached) <= visitIo
         /\ HandledOnce(SentUpTo(reached), history[current])
         /\ SentUpTo(reached).writePos = reached + 1
         /\ SentUpTo(reached).length = conn[current].length
         /\ SentUpTo(reached).state = "WRITING_RESPONSE"
         /\ SentUpTo(reached).reserved = conn[current].reserved
<1> DEFINE r == [conn[current] EXCEPT !.writePos = reached + 1]
<1>1. /\ reached \in Nat /\ Sent(reached) \in Nat /\ Sent(reached) <= visitIo
  BY AskedFacts, VisitFacts DEF Sent
<1>2. reached + 1 \in Positive
  BY <1>1 DEF Positive
<1>3. /\ r \in Connection /\ r.writePos = reached + 1 /\ r.length = conn[current].length
      /\ r.state = "WRITING_RESPONSE" /\ r.reserved = conn[current].reserved
      /\ r.req = conn[current].req /\ r.bodyReceived = conn[current].bodyReceived
  BY <1>2, AskedFacts, VisitFacts DEF Connection
<1>4. SentUpTo(reached) = r
  BY DEF SentUpTo
<1> HIDE DEF r
<1>5. HandledOnce(r, history[current])
  BY <1>3, AskedFacts, VisitFacts DEF HandledOnce
<1> QED BY <1>1, <1>3, <1>4, <1>5

(* What is still to be sent leaves the connection well formed. *)
LEMMA StillSending ==
  ASSUME NEW r \in Connection, NEW h, HandledOnce(r, h),
         r.state = "WRITING_RESPONSE", r.writePos <= r.length
  PROVE  ConnOK(r, h)
BY DEF ConnOK, Reading

LEMMA SendAllInv == ASSUME IInv, SendAll PROVE IInv'
<1> DEFINE r == SentUpTo(LastAsked)
           s == Released(r)
           n == Sent(LastAsked)
<1>1. MaySend
  BY DEF SendAll
<1>2. LastAsked \in conn[current].writePos - 1 .. LastAsked
  BY <1>1, AskedFacts
<1>3. /\ r \in Connection /\ n \in Nat /\ n <= visitIo
      /\ HandledOnce(r, history[current]) /\ r.state = "WRITING_RESPONSE"
      /\ r.reserved = conn[current].reserved /\ pc \in Visiting
      /\ r.writePos \in Nat /\ r.length \in Nat
  BY <1>1, <1>2, AskedFacts, SentFacts DEF Connection, Positive
<1>4. CASE r.writePos > r.length
  <2>1. Update(s, n, 0) /\ EndVisit(s) /\ Note("completed", n)
    BY <1>4 DEF SendAll
  <2>2. /\ history' \in [Clients -> History]
        /\ \A c \in Clients \ {current} : history'[c] = history[c]
        /\ history'[current].skipped = history[current].skipped
        /\ history'[current].handled = history[current].handled
    BY <1>3, <2>1, VisitFacts, NoteFacts
  <2>3. HandledOnce(r, history'[current]) /\ history'[current] \in History
    BY <1>3, <2>2, VisitFacts DEF HandledOnce
  <2>4. /\ s \in Connection /\ ConnOK(s, history'[current]) /\ s.state = "CLOSED"
        /\ s.reserved <= r.reserved /\ s.reserved \in Nat
    BY <1>3, <2>3, ReleasedFacts DEF Connection
  <2> HIDE DEF r, s, n
  <2>5. bufferedBodyBytes + s.reserved - conn[current].reserved <= MaxBufferedBodyBytes
    BY <1>3, <2>4, VisitFacts, OptionFacts
  <2> QED BY <1>3, <2>1, <2>2, <2>4, <2>5, VisitFacts, VisitStep DEF GoesOn
<1>5. CASE ~(r.writePos > r.length)
  <2>1. /\ Update(r, n, 0) /\ Note("none", n)
        /\ Continue("write", n) \/ EndVisit(r)
    BY <1>5 DEF SendAll
  <2> HIDE DEF r, n
  <2>2. /\ history' \in [Clients -> History]
        /\ \A c \in Clients \ {current} : history'[c] = history[c]
        /\ history'[current].skipped = history[current].skipped
        /\ history'[current].handled = history[current].handled
    BY <1>3, <2>1, VisitFacts, NoteFacts
  <2>3. HandledOnce(r, history'[current])
    BY <1>3, <2>2, VisitFacts DEF HandledOnce
  <2>4. ConnOK(r, history'[current])
    BY <1>3, <1>5, <2>3, StillSending
  <2>5. bufferedBodyBytes + r.reserved - conn[current].reserved <= MaxBufferedBodyBytes
    BY <1>3, VisitFacts, OptionFacts
  <2> QED BY <1>3, <2>1, <2>2, <2>4, <2>5, VisitFacts, VisitStep DEF GoesOn
<1> QED BY <1>4, <1>5

LEMMA SendPartInv == ASSUME IInv, NEW reached, SendPart(reached) PROVE IInv'
<1> DEFINE r == SentUpTo(reached)
           n == Sent(reached)
<1>1. /\ MaySend /\ reached \in conn[current].writePos - 1 .. LastAsked - 1
      /\ Update(r, n, 0) /\ EndVisit(r) /\ Note("none", n)
  BY DEF SendPart
<1>2. /\ reached \in conn[current].writePos - 1 .. LastAsked
      /\ reached + 1 <= conn[current].length /\ pc \in Visiting
  BY <1>1, AskedFacts
<1>3. /\ r \in Connection /\ n \in Nat /\ n <= visitIo
      /\ HandledOnce(r, history[current]) /\ r.state = "WRITING_RESPONSE"
      /\ r.reserved = conn[current].reserved
      /\ r.writePos <= r.length
  BY <1>1, <1>2, SentFacts
<1> HIDE DEF r, n
<1>4. /\ history' \in [Clients -> History]
      /\ \A c \in Clients \ {current} : history'[c] = history[c]
      /\ history'[current].skipped = history[current].skipped
      /\ history'[current].handled = history[current].handled
  BY <1>1, <1>2, <1>3, VisitFacts, NoteFacts
<1>5. ConnOK(r, history'[current])
  <2>1. HandledOnce(r, history'[current])
    BY <1>2, <1>3, <1>4, VisitFacts DEF HandledOnce
  <2> QED BY <1>3, <2>1, StillSending
<1>6. bufferedBodyBytes + r.reserved - conn[current].reserved <= MaxBufferedBodyBytes
  BY <1>2, <1>3, VisitFacts, OptionFacts
<1> QED BY <1>1, <1>2, <1>3, <1>4, <1>5, <1>6, VisitFacts, VisitStep DEF GoesOn

LEMMA SendFailsInv == ASSUME IInv, NEW reached, SendFails(reached) PROVE IInv'
<1>1. /\ MaySend /\ reached \in conn[current].writePos - 1 .. LastAsked - 1
      /\ Fail(SentUpTo(reached), Sent(reached))
  BY DEF SendFails
<1>2. reached \in conn[current].writePos - 1 .. LastAsked /\ pc \in Visiting
  BY <1>1, AskedFacts
<1> QED BY <1>1, <1>2, SentFacts, FailStep

LEMMA DispatchRefusedInv ==
  ASSUME IInv, NEW d \in Nat, DispatchRefused(d) PROVE IInv'
BY RefuseStep DEF DispatchRefused, Visiting

(* The handler starts: the only step that makes a connection DISPATCHING. *)
LEMMA DispatchInv == ASSUME IInv, NEW d \in Nat, Dispatch(d) PROVE IInv'
<1> DEFINE p == conn[current]
           r == Dispatched(p)
           g == [history[current] EXCEPT !.handled = history[current].handled + 1]
<1>1. /\ pc = "dispatch" /\ pc' = "handler"
      /\ MayDispatch(d)
      /\ conn' = [Elapse(d) EXCEPT ![current] = r]
      /\ bufferedBodyBytes' = Reserve(p, r)
      /\ budget' = [BudgetLater(d) EXCEPT !.dispatches = budget.dispatches - 1]
      /\ stats' = [stats EXCEPT !.dispatched = stats.dispatched + 1]
      /\ history' = [history EXCEPT ![current] = g]
      /\ connections' = connections /\ closed' = closed /\ pumping' = pumping
      /\ current' = current /\ visitIo' = visitIo
  BY DEF Dispatch, BudgetLater, visitVars
<1>2. /\ pc \in Visiting /\ current \in Clients /\ ~closed
      /\ p \in Connection /\ p.state = "READY_TO_DISPATCH" /\ ConnOK(p, history[current])
      /\ history[current] \in History /\ p.reserved \in Nat
      /\ bufferedBodyBytes \in Int /\ bufferedBodyBytes <= MaxBufferedBodyBytes
      /\ visitIo \in Nat
  BY <1>1, VisitFacts DEF StageFits, Visiting
<1>3. /\ r \in Connection /\ r.state = "DISPATCHING" /\ r.reserved = 0
      /\ r.req = p.req /\ r.bodyReceived = p.bodyReceived
  BY <1>2 DEF Dispatched, Connection, ConnectionState
<1>4. /\ g \in History /\ g.handled = 1 /\ g.skipped = history[current].skipped
  <2>1. history[current].handled = 0
    BY <1>2 DEF ConnOK
  <2> QED BY <1>2, <2>1 DEF History
<1>5. ConnOK(r, g)
  <2>1. p.req.accepted /\ p.bodyReceived = p.req.body
    BY <1>2 DEF ConnOK
  <2> HIDE DEF p, r, g
  <2> QED BY <1>3, <1>4, <2>1 DEF ConnOK, HandledOnce, Reading
<1>6. /\ conn' \in [Clients -> Connection]
      /\ conn'[current] = r
      /\ \A c \in Clients \ {current} : SameProgress(conn[c], conn'[c])
  BY <1>1, <1>2, <1>3, ElapseFacts DEF IInv, TypeOK
<1>7. /\ history' \in [Clients -> History]
      /\ history'[current] = g
      /\ \A c \in Clients \ {current} : history'[c] = history[c]
  BY <1>1, <1>2, <1>4 DEF IInv, TypeOK
<1>8. \A c \in Clients \ {current} : conn'[c].state = conn[c].state
  BY <1>6 DEF SameProgress
<1>9. /\ budget' \in [io : Nat, dispatches : Nat, time : Nat] /\ budget'.io = budget.io
  <2>1. /\ Left(budget.time, d) \in Nat /\ budget.dispatches - 1 \in Nat
        /\ budget \in [io : Nat, dispatches : Nat, time : Nat]
    BY <1>1, LeftType DEF MayDispatch, IInv, TypeOK
  <2>2. budget' = [io |-> budget.io, dispatches |-> budget.dispatches - 1,
                   time |-> Left(budget.time, d)]
    BY <1>1, <2>1 DEF BudgetLater
  <2> QED BY <2>1, <2>2
<1>10. /\ bufferedBodyBytes' \in Int /\ bufferedBodyBytes' <= MaxBufferedBodyBytes
  BY <1>1, <1>2, <1>3, OptionFacts DEF Reserve
<1>11. /\ stats' \in [accepted : Nat, visited : Nat, dispatched : Nat, closed : Nat,
                       active : Nat]
       /\ stats'.visited = stats.visited
  <2>1. stats \in [accepted : Nat, visited : Nat, dispatched : Nat, closed : Nat,
                   active : Nat]
    BY DEF IInv, TypeOK
  <2>2. stats' = [stats EXCEPT !.dispatched = @ + 1]
    BY <1>1
  <2> HIDE DEF p, r, g
  <2> QED BY ONLY <2>1, <2>2
<1> HIDE DEF p, r, g
<1>12. TypeOK'
  BY <1>1, <1>6, <1>7, <1>9, <1>10, <1>11 DEF IInv, TypeOK
<1>13. ConnInv'
  <2> SUFFICES ASSUME NEW c \in Clients PROVE ConnOK(conn'[c], history'[c])
    BY DEF ConnInv
  <2>1. CASE c = current
    BY <2>1, <1>5, <1>6, <1>7
  <2>2. CASE c # current
    BY <2>2, <1>6, <1>7, ConnOKOfProgress DEF IInv, ConnInv
  <2> QED BY <2>1, <2>2
<1>14. StageInv'
  <2>1. \A c \in Clients : conn'[c].state = "DISPATCHING" => c = current
    BY <1>1, <1>8 DEF IInv, StageInv
  <2>2. pumping
    BY <1>2 DEF IInv, StageInv
  <2> QED BY <1>1, <1>2, <1>3, <1>6, <2>1, <2>2
          DEF StageInv, BetweenVisits, Visiting, StageFits
<1>15. VisitInv'
  <2>1. /\ stats.visited < Len(connections) /\ connections[stats.visited + 1] = current
        /\ \A i \in stats.visited + 1 .. Len(connections) :
             conn[connections[i]].state # "CLOSED"
        /\ \A i \in stats.visited + 1 .. Len(connections) : connections[i] \in Clients
        /\ stats.visited \in Nat /\ Len(connections) \in Nat
    BY <1>2 DEF IInv, VisitInv, TypeOK
  <2>2. \A i \in stats.visited + 1 .. Len(connections) :
           conn'[connections[i]].state # "CLOSED"
    BY <1>3, <1>6, <1>8, <2>1
  <2> QED BY <1>1, <1>11, <2>1, <2>2 DEF VisitInv
<1>16. OrderInv'
  <2>1. \A c \in Clients : conn'[c].state # "CLOSED" => conn[c].state # "CLOSED"
    BY <1>2, <1>8 DEF p
  <2> QED BY <1>1, <2>1 DEF IInv, OrderInv, OpenSlots
<1>17. GapInv'
  <2>1. \A i \in 1..Len(connections) : connections[i] \in Clients
    BY DEF IInv, TypeOK
  <2>2. \A c \in Clients : history'[c].skipped = history[c].skipped
    BY <1>4, <1>7
  <2> QED BY <1>1, <2>1, <2>2 DEF IInv, GapInv
<1>18. WithinBodyBudget' /\ VisitWithinPumpBudget'
  BY <1>1, <1>9, <1>10 DEF IInv, WithinBodyBudget, VisitWithinPumpBudget
<1> QED BY <1>12, <1>13, <1>14, <1>15, <1>16, <1>17, <1>18 DEF IInv

(* While a handler runs its connection is DISPATCHING, unless the handler  *)
(* has closed the server.                                                  *)
LEMMA HandlerFacts ==
  ASSUME IInv, pc = "handler"
  PROVE  /\ current \in Clients /\ pumping
         /\ conn[current] \in Connection /\ history[current] \in History
         /\ ConnOK(conn[current], history[current])
         /\ conn[current].reserved \in Nat
         /\ StillDispatching <=> ~closed
<1>1. current \in Clients /\ pumping
  BY DEF IInv, StageInv, Visiting
<1>2. ~closed => StillDispatching
  BY <1>1 DEF IInv, StageInv, StageFits, StillDispatching
<1>3. closed => ~StillDispatching
  <2>1. closed => OpenSlots = {}
    BY DEF IInv, StageInv, OpenSlots
  <2> QED BY <1>1, <2>1 DEF IInv, OrderInv, StillDispatching
<1> QED BY <1>1, <1>2, <1>3 DEF IInv, TypeOK, ConnInv, Connection

LEMMA HandlerEndsInv ==
  ASSUME IInv, NEW n \in Positive, NEW d \in Nat, HandlerEnds(n, d) PROVE IInv'
<1> DEFINE r == StartResponse(conn[current], n)
<1>1. /\ pc = "handler" /\ StillDispatching
      /\ Update(r, 0, d) /\ Continue("write", 0) /\ history' = history
  BY DEF HandlerEnds
<1>2. /\ r \in Connection /\ r.state = "WRITING_RESPONSE"
      /\ ConnOK(r, history[current]) /\ r.reserved = conn[current].reserved
  BY <1>1, HandlerFacts, StartResponseFacts
<1> HIDE DEF r
<1>3. bufferedBodyBytes + r.reserved - conn[current].reserved <= MaxBufferedBodyBytes
  BY <1>1, <1>2, HandlerFacts, OptionFacts DEF IInv, WithinBodyBudget, TypeOK
<1>4. 0 <= visitIo /\ history \in [Clients -> History]
  BY DEF IInv, TypeOK
<1> QED BY <1>1, <1>2, <1>3, <1>4, HandlerFacts, VisitStep DEF GoesOn

(* An error in a visit closes the visited connection. *)
LEMMA VisitThrowsInv == ASSUME IInv, VisitThrows PROVE IInv'
<1> DEFINE s == Released(conn[current])
<1>1. /\ Update(s, 0, 0) /\ VisitOver(1) /\ Note("failed", 0)
      /\ pc \in Visiting \cup {"handler"} /\ (pc = "handler" => StillDispatching)
  BY DEF VisitThrows, CaughtCount, Visiting
<1>2. /\ ~closed /\ current \in Clients
      /\ conn[current] \in Connection /\ history[current] \in History
      /\ ConnOK(conn[current], history[current]) /\ conn[current].reserved \in Nat
  BY <1>1, VisitFacts, HandlerFacts DEF Visiting
<1>3. /\ history \in [Clients -> History] /\ 0 <= visitIo
      /\ bufferedBodyBytes \in Int /\ bufferedBodyBytes <= MaxBufferedBodyBytes
  BY DEF IInv, TypeOK, WithinBodyBudget
<1>4. HandledOnce(conn[current], history[current])
  BY <1>2 DEF ConnOK
<1>5. /\ s \in Connection /\ s.state = "CLOSED" /\ s.reserved <= conn[current].reserved
      /\ s.reserved \in Nat
  BY <1>2, <1>4, ReleasedFacts DEF Connection
<1>6. /\ history' \in [Clients -> History]
      /\ \A c \in Clients \ {current} : history'[c] = history[c]
      /\ history'[current].skipped = history[current].skipped
      /\ history'[current].handled = history[current].handled
  BY <1>1, <1>2, <1>3, NoteFacts
<1>7. ConnOK(s, history'[current])
  <2>1. HandledOnce(conn[current], history'[current]) /\ history'[current] \in History
    BY <1>2, <1>4, <1>6 DEF HandledOnce
  <2> QED BY <1>2, <2>1, ReleasedFacts
<1> HIDE DEF s
<1>8. GoesOn(s, 0)
  BY <1>1, <1>5 DEF GoesOn, EndVisit, ClosedCount
<1>9. bufferedBodyBytes + s.reserved - conn[current].reserved <= MaxBufferedBodyBytes
  BY <1>2, <1>3, <1>5, OptionFacts
<1> QED BY <1>1, <1>2, <1>3, <1>5, <1>6, <1>7, <1>8, <1>9, VisitStep

(* The visit of a handler that closed the server ends with nothing listed. *)
LEMMA HandlerClosedServerInv == ASSUME IInv, HandlerClosedServer PROVE IInv'
<1>1. closed /\ pc = "handler" /\ pumping
  BY HandlerFacts DEF HandlerClosedServer
<1>2. /\ connections' = connections /\ conn' = conn /\ history' = history
      /\ budget' = budget /\ bufferedBodyBytes' = bufferedBodyBytes /\ closed' = closed
      /\ pc' = "visit" /\ pumping' = pumping
      /\ current' = NoClient /\ visitIo' = 0
  BY <1>1 DEF HandlerClosedServer, EndVisit, VisitOver, server
<1>3. connections = <<>> /\ OpenSlots = {} /\ OpenSlots' = {}
  BY <1>1, <1>2 DEF IInv, StageInv, OpenSlots
<1>4. \A c \in Clients : conn[c].state = "CLOSED"
  BY <1>3 DEF IInv, OrderInv
<1>5. stats' \in [accepted : Nat, visited : Nat, dispatched : Nat, closed : Nat,
                  active : Nat]
  <2> DEFINE visited == stats.visited + 1
             count == stats.closed + ClosedCount(conn[current])
  <2>1. stats' = [stats EXCEPT !.visited = visited, !.closed = count]
    BY DEF HandlerClosedServer, EndVisit, VisitOver
  <2>2. stats.visited \in Nat /\ stats.closed \in Nat
    BY DEF IInv, TypeOK
  <2>3. ClosedCount(conn[current]) \in Nat
    BY DEF ClosedCount
  <2>4. visited \in Nat /\ count \in Nat
    BY <2>2, <2>3
  <2> HIDE DEF visited, count
  <2> QED BY <2>1, <2>4 DEF IInv, TypeOK
<1>6. TypeOK' /\ ConnInv' /\ WithinBodyBudget'
  BY <1>2, <1>5 DEF IInv, TypeOK, ConnInv, WithinBodyBudget
<1>7. StageInv'
  BY <1>1, <1>2, <1>3, <1>4, EnvironmentFacts
    DEF StageInv, BetweenVisits, Visiting, StageFits
<1>8. VisitInv' /\ OrderInv' /\ GapInv'
  BY <1>1, <1>2, <1>3, <1>4 DEF IInv, VisitInv, OrderInv, GapInv, Visiting, OpenSlots
<1>9. VisitWithinPumpBudget'
  BY <1>2 DEF IInv, VisitWithinPumpBudget, TypeOK
<1> QED BY <1>6, <1>7, <1>8, <1>9 DEF IInv

(* The pump of a closed server ends with nothing listed. *)
LEMMA EndClosedPumpInv == ASSUME IInv, EndClosedPump PROVE IInv'
<1>1. /\ closed /\ pc = "visit"
      /\ connections' = connections /\ conn' = conn /\ history' = history
      /\ bufferedBodyBytes' = bufferedBodyBytes /\ closed' = closed
      /\ pc' = "idle" /\ pumping' = FALSE /\ stats' = NoStats /\ budget' = NoBudget
      /\ current' = current /\ visitIo' = visitIo
  BY DEF EndClosedPump, PumpReturns, visitVars
<1>2. current = NoClient /\ visitIo = 0
  BY <1>1 DEF IInv, StageInv, BetweenVisits
<1>3. connections = <<>> /\ OpenSlots = {} /\ OpenSlots' = {}
  BY <1>1 DEF IInv, StageInv, OpenSlots
<1>4. \A c \in Clients : conn[c].state = "CLOSED"
  BY <1>3 DEF IInv, OrderInv
<1>5. /\ NoStats \in [accepted : Nat, visited : Nat, dispatched : Nat, closed : Nat,
                      active : Nat]
      /\ NoBudget \in [io : Nat, dispatches : Nat, time : Nat] /\ NoBudget.io = 0
  BY DEF NoStats, NoBudget
<1>6. TypeOK' /\ ConnInv' /\ WithinBodyBudget'
  BY <1>1, <1>5 DEF IInv, TypeOK, ConnInv, WithinBodyBudget
<1>7. StageInv'
  BY <1>1, <1>2, <1>3, <1>4, EnvironmentFacts
    DEF StageInv, BetweenVisits, Visiting, StageFits
<1>8. VisitInv' /\ OrderInv' /\ GapInv'
  BY <1>1, <1>3, <1>4 DEF IInv, VisitInv, OrderInv, GapInv, Visiting, OpenSlots
<1>9. VisitWithinPumpBudget'
  BY <1>1, <1>2, <1>5 DEF VisitWithinPumpBudget
<1> QED BY <1>6, <1>7, <1>8, <1>9 DEF IInv

-----------------------------------------------------------------------------
(* The actions around the visits. *)

(* A step that only moves timers, and perhaps what was skipped. *)
LEMMA QuietConn ==
  ASSUME IInv, \A c \in Clients : SameProgress(conn[c], conn'[c]),
         \A c \in Clients : history'[c].handled = history[c].handled
  PROVE  ConnInv' /\ \A c \in Clients : conn'[c].state = conn[c].state
<1>1. ConnInv'
  <2> SUFFICES ASSUME NEW c \in Clients PROVE ConnOK(conn'[c], history'[c])
    BY DEF ConnInv
  <2>1. ConnOK(conn'[c], history[c])
    BY ConnOKOfProgress DEF IInv, ConnInv
  <2> QED BY <2>1 DEF ConnOK, HandledOnce
<1> QED BY <1>1 DEF SameProgress

LEMMA PumpInv == ASSUME IInv, NEW d \in Nat, Pump(d) PROVE IInv'
<1>1. /\ ~closed /\ ~pumping /\ pumping' = TRUE /\ pc' = "accept" /\ conn' = Elapse(d)
      /\ budget' = [io |-> MaxIoBytesPerPump, dispatches |-> MaxDispatchesPerPump,
                    time |-> MaxPumpSeconds]
      /\ stats' = [NoStats EXCEPT !.active = Len(connections)]
      /\ connections' = connections /\ bufferedBodyBytes' = bufferedBodyBytes
      /\ closed' = closed /\ current' = current /\ visitIo' = visitIo
      /\ history' = history
      /\ pc \in {"idle", "handler"}
  BY DEF Pump, MayPump, server, visitVars
<1>2. pc = "idle" /\ current = NoClient /\ visitIo = 0
  BY <1>1 DEF IInv, StageInv, BetweenVisits
<1>3. /\ conn' \in [Clients -> Connection]
      /\ \A c \in Clients : SameProgress(conn[c], conn'[c])
  BY <1>1, ElapseFacts DEF IInv, TypeOK
<1>4. ConnInv' /\ \A c \in Clients : conn'[c].state = conn[c].state
  BY <1>1, <1>3, QuietConn
<1>5. /\ stats' \in [accepted : Nat, visited : Nat, dispatched : Nat, closed : Nat,
                      active : Nat]
      /\ stats'.visited = 0
  <2>1. Len(connections) \in Nat
    BY DEF IInv, TypeOK
  <2>2. stats' = [accepted |-> 0, visited |-> 0, dispatched |-> 0, closed |-> 0,
                  active |-> Len(connections)]
    BY <1>1 DEF NoStats
  <2> QED BY <2>1, <2>2
<1>6. TypeOK'
  BY <1>1, <1>2, <1>3, <1>5, OptionFacts DEF IInv, TypeOK
<1>7. StageInv'
  BY <1>1, <1>2, <1>4, EnvironmentFacts DEF IInv, StageInv, BetweenVisits, Visiting, StageFits
<1>8. VisitInv' /\ OrderInv' /\ GapInv'
  <2>1. OpenSlots' = OpenSlots /\ OpenSlots \subseteq Clients
    BY <1>1 DEF OpenSlots, IInv, TypeOK
  <2> QED BY <1>1, <1>2, <1>4, <1>5, <2>1
          DEF IInv, VisitInv, OrderInv, GapInv, Visiting
<1>9. WithinBodyBudget' /\ VisitWithinPumpBudget'
  BY <1>1, <1>2, OptionFacts DEF IInv, WithinBodyBudget, VisitWithinPumpBudget
<1> QED BY <1>4, <1>6, <1>7, <1>8, <1>9 DEF IInv

(* A new connection joins at the back, in a slot the list does not hold. *)
LEMMA AcceptClientInv ==
  ASSUME IInv, NEW d \in Nat, NEW c \in Clients, NEW q \in Requests, AcceptClient(c, q, d)
  PROVE  IInv'
<1> DEFINE r == NewConnection(q, MaxPumpSeconds - Left(budget.time, d))
<1>1. /\ pc = "accept" /\ Len(connections) < MaxConnections /\ conn[c].state = "CLOSED"
      /\ connections' = Append(connections, c)
      /\ conn' = [Elapse(d) EXCEPT ![c] = r]
      /\ budget' = [budget EXCEPT !.time = Left(budget.time, d)]
      /\ stats' = [stats EXCEPT !.accepted = stats.accepted + 1]
      /\ history' = [history EXCEPT ![c] = NoHistory]
      /\ bufferedBodyBytes' = bufferedBodyBytes /\ closed' = closed
      /\ pumping' = pumping /\ pc' = pc /\ current' = current /\ visitIo' = visitIo
  BY DEF AcceptClient, MayAccept, BudgetLater, visitVars
<1>2. /\ connections \in Seq(Clients) /\ Len(connections) \in Nat
      /\ connections' \in Seq(Clients) /\ Len(connections') = Len(connections) + 1
      /\ connections'[Len(connections) + 1] = c
      /\ \A i \in 1..Len(connections) : /\ connections'[i] = connections[i]
                                        /\ connections[i] \in Clients
      /\ MaxConnections \in Nat
  <2>1. connections \in Seq(Clients)
    BY DEF IInv, TypeOK
  <2> QED BY <1>1, <2>1, OptionFacts
<1>3. /\ current = NoClient /\ visitIo = 0 /\ stats.visited = 0 /\ ~closed /\ pumping
      /\ \A b \in OpenSlots : conn[b].state # "CLOSED"
  BY <1>1 DEF IInv, StageInv, VisitInv, BetweenVisits, Visiting
<1>4. c \notin OpenSlots /\ OpenSlots \subseteq Clients
      /\ OpenSlots' = OpenSlots \cup {c}
  BY <1>1, <1>2, <1>3 DEF OpenSlots
<1>5. /\ r \in Connection /\ r.state = "READING_HEADERS" /\ r.reserved = 0
      /\ r.bodyReceived = 0
  <2> DEFINE since == MaxPumpSeconds - Left(budget.time, d)
             request == Left(RequestTimeout, since)
             idle == Left(IdleTimeout, since)
  <2>1. Left(budget.time, d) \in Nat
    BY LeftType DEF IInv, TypeOK
  <2>2. since \in Int
    BY <2>1, OptionFacts
  <2>3. request \in Nat /\ idle \in Nat
    BY <2>2, LeftOfInt, OptionFacts
  <2>4. r = [ClosedSlot(q) EXCEPT !.state = "READING_HEADERS", !.requestLeft = request,
                                  !.idleLeft = idle]
    BY DEF NewConnection
  <2>5. 1 \in Positive
    BY DEF Positive
  <2>6. /\ ClosedSlot(q) \in Connection /\ ClosedSlot(q).reserved = 0
        /\ ClosedSlot(q).bodyReceived = 0
    BY <2>5 DEF ClosedSlot, Connection, ConnectionState
  <2> HIDE DEF r, request, idle
  <2> QED BY <2>3, <2>4, <2>6 DEF Connection, ConnectionState
<1>6. NoHistory \in History /\ NoHistory.handled = 0 /\ NoHistory.skipped = 0
  BY DEF NoHistory, History
<1> HIDE DEF r
<1>7. /\ conn' \in [Clients -> Connection] /\ conn'[c] = r
      /\ \A b \in Clients \ {c} : SameProgress(conn[b], conn'[b])
      /\ history' \in [Clients -> History] /\ history'[c] = NoHistory
      /\ \A b \in Clients \ {c} : history'[b] = history[b]
  BY <1>1, <1>5, <1>6, ElapseFacts DEF IInv, TypeOK
<1>8. \A b \in Clients \ {c} : conn'[b].state = conn[b].state
  BY <1>7 DEF SameProgress
<1>9. /\ budget' \in [io : Nat, dispatches : Nat, time : Nat] /\ budget'.io = budget.io
      /\ stats' \in [accepted : Nat, visited : Nat, dispatched : Nat, closed : Nat,
                     active : Nat]
      /\ stats'.visited = stats.visited
  <2>1. Left(budget.time, d) \in Nat
    BY LeftType DEF IInv, TypeOK
  <2>2. budget' \in [io : Nat, dispatches : Nat, time : Nat] /\ budget'.io = budget.io
    BY <1>1, <2>1 DEF IInv, TypeOK
  <2>3. /\ stats' \in [accepted : Nat, visited : Nat, dispatched : Nat, closed : Nat,
                       active : Nat]
        /\ stats'.visited = stats.visited
    <3> DEFINE count == stats.accepted + 1
    <3>1. stats \in [accepted : Nat, visited : Nat, dispatched : Nat, closed : Nat,
                     active : Nat]
      BY DEF IInv, TypeOK
    <3>2. count \in Nat /\ stats' = [stats EXCEPT !.accepted = count]
      BY <1>1, <3>1
    <3> HIDE DEF count
    <3> QED BY <3>1, <3>2
  <2> QED BY <2>2, <2>3
<1>10. TypeOK'
  BY <1>1, <1>2, <1>7, <1>9 DEF IInv, TypeOK
<1>11. ConnInv'
  <2> SUFFICES ASSUME NEW b \in Clients PROVE ConnOK(conn'[b], history'[b])
    BY DEF ConnInv
  <2>1. CASE b = c
    BY <2>1, <1>5, <1>6, <1>7 DEF ConnOK, HandledOnce, Reading
  <2>2. CASE b # c
    BY <2>2, <1>7, ConnOKOfProgress DEF IInv, ConnInv
  <2> QED BY <2>1, <2>2
<1>12. StageInv'
  BY <1>1, <1>3, <1>5, <1>7, <1>8, EnvironmentFacts
    DEF IInv, StageInv, BetweenVisits, Visiting
<1>13. VisitInv'
  <2>1. \A b \in OpenSlots' : conn'[b].state # "CLOSED"
    BY <1>3, <1>4, <1>5, <1>7, <1>8
  <2> QED BY <1>1, <1>3, <1>9, <2>1 DEF VisitInv, Visiting
<1>14. OrderInv'
  <2>1. \A i, j \in 1..Len(connections') : connections'[i] = connections'[j] => i = j
    <3>1. \A i \in 1..Len(connections) : connections[i] # c
      BY <1>4 DEF OpenSlots
    <3> QED BY <1>2, <3>1 DEF IInv, OrderInv
  <2>2. \A b \in Clients : conn'[b].state # "CLOSED" => b \in OpenSlots'
    BY <1>4, <1>8 DEF IInv, OrderInv
  <2>3. Len(connections') <= MaxConnections
    BY <1>1, <1>2
  <2> QED BY <2>1, <2>2, <2>3 DEF OrderInv
<1>15. GapInv'
  <2> SUFFICES ASSUME NEW i \in 1..Len(connections')
               PROVE  history'[connections'[i]].skipped + i <= MaxConnections
    BY DEF GapInv
  <2>1. CASE i = Len(connections) + 1
    BY <2>1, <1>1, <1>2, <1>6, <1>7
  <2>2. CASE i # Len(connections) + 1
    <3>1. i \in 1..Len(connections) /\ connections[i] # c
      BY <2>2, <1>2, <1>4 DEF OpenSlots
    <3> QED BY <3>1, <1>2, <1>7 DEF IInv, GapInv
  <2> QED BY <2>1, <2>2
<1>16. WithinBodyBudget' /\ VisitWithinPumpBudget'
  BY <1>1, <1>9 DEF IInv, WithinBodyBudget, VisitWithinPumpBudget
<1> QED BY <1>10, <1>11, <1>12, <1>13, <1>14, <1>15, <1>16 DEF IInv

LEMMA EndAcceptingInv == ASSUME IInv, NEW d \in Nat, EndAccepting(d) PROVE IInv'
<1>1. /\ pc = "accept" /\ pc' = "visit"
      /\ conn' = Elapse(d)
      /\ budget' = [budget EXCEPT !.time = Left(budget.time, d)]
      /\ connections' = connections /\ bufferedBodyBytes' = bufferedBodyBytes
      /\ closed' = closed /\ pumping' = pumping /\ stats' = stats
      /\ current' = current /\ visitIo' = visitIo /\ history' = history
  BY DEF EndAccepting, BudgetLater, server, visitVars
<1>2. /\ conn' \in [Clients -> Connection]
      /\ \A c \in Clients : SameProgress(conn[c], conn'[c])
  BY <1>1, ElapseFacts DEF IInv, TypeOK
<1>3. ConnInv' /\ \A c \in Clients : conn'[c].state = conn[c].state
  BY <1>1, <1>2, QuietConn
<1>4. budget' \in [io : Nat, dispatches : Nat, time : Nat] /\ budget'.io = budget.io
  <2>1. Left(budget.time, d) \in Nat
    BY LeftType DEF IInv, TypeOK
  <2> QED BY <1>1, <2>1 DEF IInv, TypeOK
<1>5. TypeOK'
  BY <1>1, <1>2, <1>4 DEF IInv, TypeOK
<1>6. StageInv'
  BY <1>1, <1>3, EnvironmentFacts DEF IInv, StageInv, BetweenVisits, Visiting, StageFits
<1>7. VisitInv'
  <2>1. /\ stats.visited = 0 /\ Len(connections) \in Nat
        /\ \A c \in OpenSlots : c \in Clients /\ conn[c].state # "CLOSED"
    BY <1>1 DEF IInv, VisitInv, OpenSlots, TypeOK
  <2>2. \A i \in 1..Len(connections) : conn'[connections[i]].state # "CLOSED"
    BY <1>3, <2>1 DEF OpenSlots
  <2> QED BY <1>1, <2>1, <2>2 DEF VisitInv, Visiting
<1>8. OrderInv' /\ GapInv'
  BY <1>1, <1>3 DEF IInv, OrderInv, GapInv, OpenSlots
<1>9. WithinBodyBudget' /\ VisitWithinPumpBudget'
  BY <1>1, <1>4 DEF IInv, WithinBodyBudget, VisitWithinPumpBudget
<1> QED BY <1>3, <1>5, <1>6, <1>7, <1>8, <1>9 DEF IInv

(* A visit starts at the stage the connection's state asks for, with an    *)
(* allowance the pump can still afford.                                    *)
LEMMA BeginVisitInv ==
  ASSUME IInv, NEW d \in Nat, NEW e \in Nat, BeginVisit(d, e) PROVE IInv'
<1> DEFINE c == connections[stats.visited + 1]
           r == Aged(conn[c], d + e)
           s == [r EXCEPT !.starved = FALSE]
<1>1. /\ pc = "visit" /\ stats.visited < Visits
      /\ current' = c
      /\ conn' = [Elapse(d + e) EXCEPT ![c] = s]
      /\ budget' = [budget EXCEPT !.time = Left(budget.time, d + e)]
      /\ visitIo' = Allowance
      /\ pc' = IF Reading(r) THEN "read"
               ELSE IF r.state = "READY_TO_DISPATCH" THEN "dispatch" ELSE "write"
      /\ connections' = connections /\ bufferedBodyBytes' = bufferedBodyBytes
      /\ closed' = closed /\ pumping' = pumping /\ stats' = stats /\ history' = history
  BY DEF BeginVisit, BudgetLater, server
<1>2. /\ ~closed /\ pumping /\ stats.visited \in Nat /\ Len(connections) \in Nat
      /\ connections \in Seq(Clients)
  <2>1. ~closed /\ pumping
    BY <1>1 DEF BeginVisit, IInv, StageInv, Visiting
  <2>2. stats.visited \in Nat /\ connections \in Seq(Clients)
    BY DEF IInv, TypeOK
  <2>3. Len(connections) \in Nat
    BY <2>2
  <2> QED BY <2>1, <2>2, <2>3
<1>3. stats.visited < Len(connections)
  <2>1. stats.visited < Visits /\ stats.visited \in Nat /\ Len(connections) \in Nat
    BY <1>1, <1>2
  <2> HIDE DEF c, r, s
  <2> QED BY <2>1, OptionFacts DEF Visits, Smaller
<1>4. c \in Clients /\ conn[c] \in Connection /\ conn[c].state # "CLOSED"
  <2>1. /\ stats.visited + 1 \in stats.visited + 1 .. Len(connections)
        /\ stats.visited + 1 \in 1..Len(connections)
    BY <1>2, <1>3
  <2>2. c \in Clients
    BY <1>2, <2>1
  <2>3. conn[c] \in Connection
    BY <2>2 DEF IInv, TypeOK
  <2>4. conn[c].state # "CLOSED"
    BY <1>1, <1>2, <2>1 DEF IInv, VisitInv
  <2> QED BY <2>2, <2>3, <2>4
<1>5. conn[c].state # "DISPATCHING" /\ conn[c].state \in ConnectionState
  BY <1>1, <1>4 DEF IInv, StageInv, Connection
<1>6. d + e \in Nat
  OBVIOUS
<1>7. /\ s \in Connection /\ SameProgress(conn[c], s) /\ r.state = conn[c].state
      /\ s.state = r.state
  <2>1. r \in Connection /\ SameProgress(conn[c], r)
    BY <1>4, <1>6, AgedFacts
  <2> HIDE DEF r, c
  <2> QED BY <2>1 DEF Connection, SameProgress
<1> HIDE DEF r, s
<1>8. /\ conn' \in [Clients -> Connection] /\ conn'[c] = s
      /\ \A b \in Clients : SameProgress(conn[b], conn'[b])
  <2>1. /\ Elapse(d + e) \in [Clients -> Connection]
        /\ \A b \in Clients : SameProgress(conn[b], Elapse(d + e)[b])
    BY <1>6, ElapseFacts DEF IInv, TypeOK
  <2> HIDE DEF c
  <2> QED BY <1>1, <1>4, <1>7, <2>1
<1>9. ConnInv' /\ \A b \in Clients : conn'[b].state = conn[b].state
  BY <1>1, <1>8, QuietConn
<1>10. /\ budget' \in [io : Nat, dispatches : Nat, time : Nat]
       /\ budget'.io = budget.io
       /\ visitIo' \in Nat /\ visitIo' <= budget.io
  <2>1. Left(budget.time, d + e) \in Nat
    BY <1>6, LeftType DEF IInv, TypeOK
  <2>2. budget' \in [io : Nat, dispatches : Nat, time : Nat] /\ budget'.io = budget.io
    BY <1>1, <2>1 DEF IInv, TypeOK
  <2>3. Allowance \in Nat /\ Allowance <= budget.io
    BY OptionFacts DEF Allowance, Smaller, IInv, TypeOK
  <2> QED BY <1>1, <2>2, <2>3
<1>11. /\ pc' \in Visiting
       /\ pc' = "read" => Reading(s)
       /\ pc' = "dispatch" => s.state = "READY_TO_DISPATCH"
       /\ pc' = "write" => s.state = "WRITING_RESPONSE"
  BY <1>1, <1>4, <1>5, <1>7 DEF Visiting, Reading, ConnectionState
<1>12. TypeOK'
  <2> HIDE DEF c
  <2> QED BY <1>1, <1>4, <1>8, <1>10, <1>11 DEF IInv, TypeOK, Visiting
<1>13. StageInv'
  <2>1. \A b \in Clients : conn'[b].state # "DISPATCHING"
    BY <1>1, <1>9 DEF IInv, StageInv
  <2> HIDE DEF c
  <2> QED BY <1>1, <1>2, <1>4, <1>8, <1>11, <2>1
          DEF StageInv, BetweenVisits, Visiting, StageFits
<1>14. VisitInv'
  <2>1. \A i \in stats.visited + 1 .. Len(connections) :
          connections[i] \in Clients /\ conn[connections[i]].state # "CLOSED"
    BY <1>1, <1>2 DEF IInv, VisitInv
  <2>2. \A i \in stats.visited + 1 .. Len(connections) :
          conn'[connections[i]].state # "CLOSED"
    BY <1>9, <2>1
  <2> QED BY <1>1, <1>2, <1>3, <1>11, <2>2 DEF VisitInv, Visiting
<1>15. OrderInv' /\ GapInv'
  BY <1>1, <1>9 DEF IInv, OrderInv, GapInv, OpenSlots
<1>16. WithinBodyBudget' /\ VisitWithinPumpBudget'
  BY <1>1, <1>10 DEF IInv, WithinBodyBudget, VisitWithinPumpBudget
<1> QED BY <1>9, <1>12, <1>13, <1>14, <1>15, <1>16 DEF IInv

(* A clock check that raises closes the next connection of the list. *)
LEMMA ClockCheckThrowsInv == ASSUME IInv, ClockCheckThrows PROVE IInv'
<1> DEFINE n == stats.visited
           c == connections[n + 1]
           s == Released(conn[c])
           g == [history[c] EXCEPT !.outcome = "failed"]
<1>1. /\ pc = "visit" /\ pc' = "visit" /\ ~closed /\ n < Visits
      /\ conn' = [conn EXCEPT ![c] = s]
      /\ bufferedBodyBytes' = Reserve(conn[c], s)
      /\ current' = NoClient /\ visitIo' = 0 /\ budget' = budget
      /\ connections' = connections /\ closed' = closed /\ pumping' = pumping
  BY DEF ClockCheckThrows, VisitOver
<1>2. /\ pumping /\ n \in Nat /\ Len(connections) \in Nat /\ connections \in Seq(Clients)
      /\ \A c1 \in Clients : conn[c1].state # "DISPATCHING"
  BY <1>1 DEF IInv, StageInv, Visiting, TypeOK
<1>3. n + 1 \in 1..Len(connections)
  <2> HIDE DEF n, c, s
  <2> QED BY <1>1, <1>2, OptionFacts DEF Visits, Smaller
<1>4. /\ c \in Clients /\ conn[c] \in Connection /\ history[c] \in History
      /\ HandledOnce(conn[c], history[c])
  <2>1. c \in Clients
    BY <1>2, <1>3
  <2> QED BY <2>1 DEF IInv, TypeOK, ConnInv, ConnOK
<1>5. /\ g \in History /\ g.skipped = history[c].skipped /\ g.handled = history[c].handled
      /\ history' = [history EXCEPT ![c] = g]
  <2>1. g \in History /\ g.skipped = history[c].skipped /\ g.handled = history[c].handled
    BY <1>4 DEF History
  <2>2. history' = [history EXCEPT ![c] = g]
    BY DEF ClockCheckThrows
  <2> QED BY <2>1, <2>2
<1>6. /\ s \in Connection /\ s.state = "CLOSED" /\ s.reserved <= conn[c].reserved
      /\ ConnOK(s, g) /\ s.reserved \in Nat /\ conn[c].reserved \in Nat
  <2>1. HandledOnce(conn[c], g)
    <3> HIDE DEF g, c
    <3> QED BY <1>4, <1>5 DEF HandledOnce
  <2> HIDE DEF g, c
  <2> QED BY <1>4, <1>5, <2>1, ReleasedFacts DEF Connection
<1>7. /\ stats' \in [accepted : Nat, visited : Nat, dispatched : Nat, closed : Nat,
                      active : Nat]
      /\ stats'.visited = n + 1
  <2> DEFINE visited == stats.visited + 1
             count == stats.closed + 1
  <2>1. stats' = [stats EXCEPT !.visited = visited, !.closed = count]
    BY DEF ClockCheckThrows, VisitOver, CaughtCount
  <2>2. stats.visited \in Nat /\ stats.closed \in Nat
    BY DEF IInv, TypeOK
  <2>3. visited \in Nat /\ count \in Nat
    BY <2>2
  <2>4. stats \in [accepted : Nat, visited : Nat, dispatched : Nat, closed : Nat,
                   active : Nat]
    BY DEF IInv, TypeOK
  <2> HIDE DEF visited, count, n
  <2>5. /\ stats' \in [accepted : Nat, visited : Nat, dispatched : Nat, closed : Nat,
                        active : Nat]
        /\ stats'.visited = visited
    BY <2>1, <2>3, <2>4
  <2> QED BY <2>5 DEF visited, n
<1> HIDE DEF c, s, g
<1>8. /\ conn' \in [Clients -> Connection] /\ conn'[c] = s
      /\ \A b \in Clients \ {c} : conn'[b] = conn[b]
      /\ history' \in [Clients -> History] /\ history'[c] = g
      /\ \A b \in Clients \ {c} : history'[b] = history[b]
  BY <1>1, <1>4, <1>5, <1>6 DEF IInv, TypeOK
<1>9. /\ bufferedBodyBytes' \in Int /\ bufferedBodyBytes' <= MaxBufferedBodyBytes
  <2>1. bufferedBodyBytes \in Int /\ bufferedBodyBytes <= MaxBufferedBodyBytes
    BY DEF IInv, TypeOK, WithinBodyBudget
  <2>2. bufferedBodyBytes' = bufferedBodyBytes + s.reserved - conn[c].reserved
    BY <1>1 DEF Reserve
  <2> QED BY <1>6, <2>1, <2>2, OptionFacts
<1>10. TypeOK'
  BY <1>1, <1>2, <1>7, <1>8, <1>9 DEF IInv, TypeOK
<1>11. ConnInv'
  BY <1>6, <1>8 DEF IInv, ConnInv
<1>12. StageInv'
  <2>1. \A b \in Clients : conn'[b].state # "DISPATCHING"
    BY <1>2, <1>6, <1>8
  <2> QED BY <1>1, <1>2, <2>1, EnvironmentFacts
          DEF StageInv, BetweenVisits, Visiting, StageFits
<1>13. VisitInv'
  <2> DEFINE m == stats'.visited
  <2>1. m = n + 1
    BY <1>7
  <2> HIDE DEF m, n
  <2>2. m <= Len(connections)
    BY <1>2, <1>3, <2>1
  <2>3. ASSUME NEW i \in m + 1 .. Len(connections)
        PROVE  conn'[connections[i]].state # "CLOSED"
    <3>1. i \in 1..Len(connections) /\ i \in n + 1 .. Len(connections) /\ i # n + 1
      BY <1>2, <2>1
    <3>2. connections[i] \in Clients /\ conn[connections[i]].state # "CLOSED"
      BY <1>1, <3>1, ListFacts DEF IInv, VisitInv, n
    <3>3. connections[i] # c
      BY <1>3, <3>1, ListFacts DEF IInv, c, n
    <3> QED BY <1>8, <3>2, <3>3
  <2> QED BY <1>1, <2>2, <2>3 DEF VisitInv, Visiting, m
<1>14. OrderInv'
  <2>1. \A b \in Clients : conn'[b].state # "CLOSED" => conn[b].state # "CLOSED"
    BY <1>6, <1>8
  <2> QED BY <1>1, <2>1 DEF IInv, OrderInv, OpenSlots
<1>15. GapInv'
  <2>1. \A i \in 1..Len(connections) : connections[i] \in Clients
    BY <1>2
  <2>2. \A b \in Clients : history'[b].skipped = history[b].skipped
    BY <1>5, <1>8
  <2> QED BY <1>1, <2>1, <2>2 DEF IInv, GapInv
<1>16. WithinBodyBudget' /\ VisitWithinPumpBudget'
  BY <1>1, <1>9 DEF IInv, TypeOK, WithinBodyBudget, VisitWithinPumpBudget
<1> QED BY <1>10, <1>11, <1>12, <1>13, <1>14, <1>15, <1>16 DEF IInv

-----------------------------------------------------------------------------
(* Closing the server. *)

LEMMA CloseInv == ASSUME IInv, Close PROVE IInv'
<1>1. /\ pc \in {"idle", "handler"} /\ ~closed /\ closed' = TRUE /\ pc' = "closing"
      /\ connections' = connections /\ conn' = conn
      /\ bufferedBodyBytes' = bufferedBodyBytes /\ pumping' = pumping
      /\ budget' = budget /\ stats' = stats /\ current' = current
      /\ visitIo' = visitIo /\ history' = history
  BY DEF Close, pumpVars, visitVars
<1>2. TypeOK' /\ ConnInv' /\ WithinBodyBudget' /\ VisitWithinPumpBudget'
  BY <1>1 DEF IInv, TypeOK, ConnInv, WithinBodyBudget, VisitWithinPumpBudget
<1>3. StageInv'
  <2>1. \A c \in Clients : conn[c].state = "DISPATCHING" => c = current
    BY DEF IInv, StageInv
  <2>2. pumping <=> current \in Clients
    BY <1>1, EnvironmentFacts DEF IInv, StageInv, BetweenVisits, Visiting
  <2>3. ~pumping => visitIo = 0
    BY <1>1 DEF IInv, StageInv, BetweenVisits, Visiting
  <2> QED BY <1>1, <2>1, <2>2, <2>3 DEF StageInv, BetweenVisits, Visiting
<1>4. VisitInv' /\ OrderInv' /\ GapInv'
  BY <1>1 DEF IInv, VisitInv, OrderInv, GapInv, OpenSlots, Visiting
<1> QED BY <1>2, <1>3, <1>4 DEF IInv

(* The loop of close() takes the connections off the list one by one. *)
LEMMA ReleaseNextInv == ASSUME IInv, ReleaseNext PROVE IInv'
<1> DEFINE c == Head(connections)
           s == Released(conn[c])
           g == IF conn[c].state = "CLOSED" THEN history[c]
                ELSE [history[c] EXCEPT !.outcome = "dropped"]
<1>1. /\ pc = "closing" /\ connections # <<>>
      /\ connections' = Tail(connections)
      /\ conn' = [conn EXCEPT ![c] = s]
      /\ bufferedBodyBytes' = Reserve(conn[c], s)
      /\ closed' = closed /\ pumping' = pumping /\ budget' = budget /\ stats' = stats
      /\ pc' = pc /\ current' = current /\ visitIo' = visitIo
  BY DEF ReleaseNext, pumpVars, visitVars
<1>2. /\ connections \in Seq(Clients) /\ Len(connections) \in Nat
      /\ MaxConnections \in Nat
  BY OptionFacts DEF IInv, TypeOK
<1>3. /\ c \in Clients /\ c = connections[1] /\ Len(connections) > 0
      /\ connections' \in Seq(Clients) /\ Len(connections') = Len(connections) - 1
      /\ \A i \in 1..Len(connections) - 1 : connections'[i] = connections[i + 1]
      /\ \A i \in 1..Len(connections) : connections[i] \in Clients
  BY <1>1, <1>2
<1>4. conn[c] \in Connection /\ history[c] \in History /\ ConnOK(conn[c], history[c])
  BY <1>3 DEF IInv, TypeOK, ConnInv
<1>5. /\ g \in History /\ g.skipped = history[c].skipped /\ g.handled = history[c].handled
      /\ history' = [history EXCEPT ![c] = g]
  <2>1. g \in History /\ g.skipped = history[c].skipped /\ g.handled = history[c].handled
    BY <1>4 DEF History
  <2>2. history' = [history EXCEPT ![c] = g]
    <3>1. history \in [Clients -> History]
      BY DEF IInv, TypeOK
    <3>2. history' = IF conn[c].state = "CLOSED" THEN history
                     ELSE [history EXCEPT ![c].outcome = "dropped"]
      BY DEF ReleaseNext
    <3> QED BY <1>3, <3>1, <3>2
  <2> QED BY <2>1, <2>2
<1>6. /\ s \in Connection /\ s.state = "CLOSED" /\ s.reserved <= conn[c].reserved
      /\ ConnOK(s, g) /\ s.reserved \in Nat /\ conn[c].reserved \in Nat
  <2>1. HandledOnce(conn[c], g)
    <3> HIDE DEF g, c
    <3> QED BY <1>4, <1>5 DEF ConnOK, HandledOnce
  <2> HIDE DEF g, c
  <2> QED BY <1>4, <1>5, <2>1, ReleasedFacts DEF Connection
<1> HIDE DEF c, s, g
<1>7. /\ conn' \in [Clients -> Connection] /\ conn'[c] = s
      /\ \A b \in Clients \ {c} : conn'[b] = conn[b]
      /\ history' \in [Clients -> History] /\ history'[c] = g
      /\ \A b \in Clients \ {c} : history'[b] = history[b]
  BY <1>1, <1>3, <1>5, <1>6 DEF IInv, TypeOK
<1>8. /\ bufferedBodyBytes' \in Int /\ bufferedBodyBytes' <= MaxBufferedBodyBytes
  <2>1. bufferedBodyBytes \in Int /\ bufferedBodyBytes <= MaxBufferedBodyBytes
    BY DEF IInv, TypeOK, WithinBodyBudget
  <2>2. bufferedBodyBytes' = bufferedBodyBytes + s.reserved - conn[c].reserved
    BY <1>1 DEF Reserve
  <2> QED BY <1>6, <2>1, <2>2, OptionFacts
<1>9. TypeOK'
  BY <1>1, <1>3, <1>7, <1>8 DEF IInv, TypeOK
<1>10. ConnInv'
  BY <1>6, <1>7 DEF IInv, ConnInv
<1>11. StageInv'
  BY <1>1, <1>6, <1>7 DEF IInv, StageInv, BetweenVisits, Visiting
<1>12. VisitInv'
  BY <1>1 DEF IInv, StageInv, VisitInv, Visiting
<1>13. OrderInv'
  <2>1. \A i, j \in 1..Len(connections') : connections'[i] = connections'[j] => i = j
    <3> SUFFICES ASSUME NEW i \in 1..Len(connections'), NEW j \in 1..Len(connections'),
                        connections'[i] = connections'[j]
                 PROVE  i = j
      OBVIOUS
    <3>1. /\ connections[i + 1] = connections[j + 1]
          /\ i + 1 \in 1..Len(connections) /\ j + 1 \in 1..Len(connections)
      BY <1>2, <1>3
    <3>2. i + 1 = j + 1
      BY <3>1 DEF IInv, OrderInv
    <3> QED BY <3>2, <1>2, <1>3
  <2>2. ASSUME NEW b \in Clients, conn'[b].state # "CLOSED" PROVE b \in OpenSlots'
    <3>1. b # c /\ conn[b].state # "CLOSED"
      BY <2>2, <1>6, <1>7
    <3>2. PICK i \in 1..Len(connections) : connections[i] = b
      BY <3>1 DEF IInv, OrderInv, OpenSlots
    <3>3. i - 1 \in 1..Len(connections') /\ connections'[i - 1] = b
      BY <1>2, <1>3, <3>1, <3>2
    <3> QED BY <3>3 DEF OpenSlots
  <2>3. Len(connections') <= MaxConnections
    BY <1>2, <1>3 DEF IInv, OrderInv
  <2> QED BY <2>1, <2>2, <2>3 DEF OrderInv
<1>14. GapInv'
  <2> SUFFICES ASSUME NEW i \in 1..Len(connections')
               PROVE  history'[connections'[i]].skipped + i <= MaxConnections
    BY DEF GapInv
  <2>1. /\ i + 1 \in 1..Len(connections) /\ connections'[i] = connections[i + 1]
        /\ connections'[i] \in Clients
    BY <1>2, <1>3
  <2>2. history'[connections'[i]].skipped = history[connections'[i]].skipped
    BY <1>5, <1>7, <2>1
  <2>3. history[connections[i + 1]].skipped + (i + 1) <= MaxConnections
    BY <2>1 DEF IInv, GapInv
  <2>4. history[connections[i + 1]].skipped \in Nat
    BY <2>1 DEF IInv, TypeOK, History
  <2> QED BY <1>2, <2>1, <2>2, <2>3, <2>4
<1>15. WithinBodyBudget' /\ VisitWithinPumpBudget'
  BY <1>1, <1>8 DEF IInv, WithinBodyBudget, VisitWithinPumpBudget
<1> QED BY <1>9, <1>10, <1>11, <1>12, <1>13, <1>14, <1>15 DEF IInv

LEMMA CloseReturnsInv == ASSUME IInv, CloseReturns PROVE IInv'
<1>1. /\ pc = "closing" /\ connections = <<>>
      /\ pc' = IF pumping THEN "handler" ELSE "idle"
      /\ connections' = connections /\ conn' = conn /\ closed' = closed
      /\ bufferedBodyBytes' = bufferedBodyBytes /\ pumping' = pumping
      /\ budget' = budget /\ stats' = stats /\ current' = current
      /\ visitIo' = visitIo /\ history' = history
  BY DEF CloseReturns, server, pumpVars, visitVars
<1>2. OpenSlots = {} /\ OpenSlots' = {}
  BY <1>1 DEF OpenSlots
<1>3. \A c \in Clients : conn[c].state = "CLOSED"
  BY <1>2 DEF IInv, OrderInv
<1>4. TypeOK' /\ ConnInv' /\ WithinBodyBudget' /\ VisitWithinPumpBudget'
  BY <1>1 DEF IInv, TypeOK, ConnInv, WithinBodyBudget, VisitWithinPumpBudget
<1>5. StageInv'
  BY <1>1, <1>2, <1>3, EnvironmentFacts
    DEF IInv, TypeOK, StageInv, BetweenVisits, Visiting, StageFits
<1>6. VisitInv' /\ OrderInv' /\ GapInv'
  BY <1>1, <1>2, <1>3 DEF IInv, StageInv, VisitInv, OrderInv, GapInv, Visiting
<1> QED BY <1>4, <1>5, <1>6 DEF IInv

-----------------------------------------------------------------------------
(* The service order after a pump. *)

(* Place numbers the kept connections from 1 up, so that the new order     *)
(* holds each of them once, and nothing else.                              *)
LEMMA ReorderFacts ==
  ASSUME connections \in Seq(Clients), NEW n \in Nat
  PROVE  /\ Cardinality(Kept) \in 0..Len(connections)
         /\ Reorder(n) \in Seq(Clients)
         /\ Len(Reorder(n)) = Cardinality(Kept)
         /\ \A k \in 1..Cardinality(Kept) :
              \E i \in Kept : Place(i, n) = k /\ Reorder(n)[k] = connections[i]
         /\ \A i \in Kept : /\ Place(i, n) \in 1..Cardinality(Kept)
                           /\ Reorder(n)[Place(i, n)] = connections[i]
<1> DEFINE size == Cardinality(Kept)
           Ahead(i) == {j \in Kept : Before(j, i, n)}
           place == [i \in Kept |-> Place(i, n)]
<1>1. /\ IsFiniteSet(Kept) /\ size \in Nat /\ size <= Len(connections)
      /\ Kept \subseteq 1..Len(connections) /\ Kept \subseteq Nat
  <2>1. Len(connections) \in Nat
    OBVIOUS
  <2>2. Kept \subseteq 1..Len(connections)
    BY DEF Kept
  <2>3. /\ IsFiniteSet(1..Len(connections))
        /\ Cardinality(1..Len(connections)) <= Len(connections)
    BY <2>1, FS_Interval
  <2>4. IsFiniteSet(Kept) /\ Cardinality(Kept) <= Cardinality(1..Len(connections))
    BY <2>2, <2>3, FS_Subset
  <2>5. size \in Nat /\ Cardinality(1..Len(connections)) \in Nat
    BY <2>3, <2>4, FS_CardinalityType
  <2> QED BY <2>1, <2>2, <2>3, <2>4, <2>5
<1>2. \A i : Group(i, n) \in {1, 2, 3}
  BY DEF Group
<1>3. \A i \in Kept : IsFiniteSet(Ahead(i)) /\ Cardinality(Ahead(i)) \in Nat
  BY <1>1, FS_Subset, FS_CardinalityType
<1>4. \A i : Place(i, n) = Cardinality(Ahead(i)) + 1
  BY DEF Place
<1>5. \A i \in Kept : Place(i, n) \in 1..size
  <2> SUFFICES ASSUME NEW i \in Kept PROVE Place(i, n) \in 1..size
    OBVIOUS
  <2>1. ~Before(i, i, n)
    BY <1>1, <1>2 DEF Before
  <2>2. Ahead(i) \subseteq Kept \ {i}
    BY <2>1
  <2>3. IsFiniteSet(Kept \ {i}) /\ Cardinality(Kept \ {i}) = size - 1
    BY <1>1, FS_RemoveElement
  <2>4. Cardinality(Ahead(i)) <= size - 1
    BY <2>2, <2>3, FS_Subset
  <2> HIDE DEF Ahead, size
  <2> QED BY <1>1, <1>3, <1>4, <2>4
<1>6. ASSUME NEW i \in Kept, NEW j \in Kept, Before(i, j, n)
      PROVE  Place(i, n) < Place(j, n)
  <2>1. Ahead(i) \subseteq Ahead(j) \ {i}
    <3> SUFFICES ASSUME NEW k \in Kept, Before(k, i, n)
                 PROVE  Before(k, j, n) /\ k # i
      OBVIOUS
    <3> QED BY <1>1, <1>2, <1>6 DEF Before
  <2>2. i \in Ahead(j)
    BY <1>6
  <2>3. /\ IsFiniteSet(Ahead(j) \ {i})
        /\ Cardinality(Ahead(j) \ {i}) = Cardinality(Ahead(j)) - 1
    BY <1>3, <2>2, FS_RemoveElement
  <2>4. Cardinality(Ahead(i)) <= Cardinality(Ahead(j)) - 1
    BY <2>1, <2>3, FS_Subset
  <2> HIDE DEF Ahead
  <2> QED BY <1>3, <1>4, <2>4
<1>7. \A i, j \in Kept : Place(i, n) = Place(j, n) => i = j
  <2> SUFFICES ASSUME NEW i \in Kept, NEW j \in Kept, i # j
               PROVE  Place(i, n) # Place(j, n)
    OBVIOUS
  <2>1. Before(i, j, n) \/ Before(j, i, n)
    BY <1>1, <1>2 DEF Before
  <2>2. Place(i, n) < Place(j, n) \/ Place(j, n) < Place(i, n)
    BY <1>6, <2>1
  <2> QED BY <1>1, <1>5, <2>2
<1>8. \A k \in 1..size : \E i \in Kept : Place(i, n) = k
  <2>1. place \in Injection(Kept, 1..size)
    BY <1>5, <1>7 DEF Injection, IsInjective
  <2>2. IsFiniteSet(1..size) /\ Cardinality(1..size) = size
    BY <1>1, FS_Interval
  <2>3. place \in Surjection(Kept, 1..size)
    <3> HIDE DEF place
    <3> QED BY <1>1, <2>1, <2>2, FS_Injection
  <2> QED BY <2>3 DEF Surjection
<1>9. ASSUME NEW k \in 1..size, NEW i \in Kept, Place(i, n) = k
      PROVE  Reorder(n)[k] = connections[i]
  <2>1. (CHOOSE j \in Kept : Place(j, n) = k) = i
    BY <1>7, <1>9
  <2> QED BY <2>1 DEF Reorder
<1>10. \A k \in 1..size : Reorder(n)[k] \in Clients
  BY <1>1, <1>8, <1>9
<1>11. Reorder(n) \in Seq(Clients) /\ Len(Reorder(n)) = size
  <2>1. /\ DOMAIN Reorder(n) = 1..size
        /\ Reorder(n) = [k \in 1..size |-> Reorder(n)[k]]
    BY DEF Reorder
  <2>2. Reorder(n) \in [1..size -> Clients]
    BY <1>10, <2>1
  <2>3. size \in Nat
    BY <1>1
  <2> HIDE DEF size
  <2> QED BY <2>2, <2>3, FunctionIsSequence
<1>12. size \in 0..Len(connections)
  BY <1>1
<1>13. \A k \in 1..size : \E i \in Kept : Place(i, n) = k /\ Reorder(n)[k] = connections[i]
  BY <1>8, <1>9
<1>14. \A i \in Kept : Place(i, n) \in 1..size /\ Reorder(n)[Place(i, n)] = connections[i]
  BY <1>5, <1>9
<1> QED BY <1>11, <1>12, <1>13, <1>14

(* A connection the pump did not reach moves up by at least as many places *)
(* as the pump visited.                                                    *)
LEMMA UnreachedMovesUp ==
  ASSUME connections \in Seq(Clients), NEW n \in Nat, NEW i \in Kept, i > n
  PROVE  Place(i, n) <= i - n
<1> DEFINE ahead == {j \in Kept : Before(j, i, n)}
<1>1. Kept \subseteq Nat /\ i \in Nat
  BY DEF Kept
<1>2. ahead \subseteq n + 1 .. i - 1
  <2> SUFFICES ASSUME NEW j \in Kept, Before(j, i, n)
               PROVE  j \in n + 1 .. i - 1
    OBVIOUS
  <2> QED BY <1>1 DEF Before, Group
<1>3. IsFiniteSet(n + 1 .. i - 1) /\ Cardinality(n + 1 .. i - 1) = i - 1 - n
  <2> DEFINE a == n + 1
             b == i - 1
  <2>1. a \in Int /\ b \in Int /\ (IF a > b THEN 0 ELSE b - a + 1) = i - 1 - n
    BY <1>1
  <2> HIDE DEF a, b
  <2>2. IsFiniteSet(a .. b) /\ Cardinality(a .. b) = i - 1 - n
    BY <2>1, FS_Interval
  <2> QED BY <2>2 DEF a, b
<1>4. Cardinality(ahead) <= i - 1 - n /\ Cardinality(ahead) \in Nat
  <2> HIDE DEF ahead
  <2>1. IsFiniteSet(ahead) /\ Cardinality(ahead) <= Cardinality(n + 1 .. i - 1)
    BY <1>2, <1>3, FS_Subset
  <2>2. Cardinality(ahead) \in Nat
    BY <2>1, FS_CardinalityType
  <2> QED BY <1>3, <2>1, <2>2
<1>5. Place(i, n) = Cardinality(ahead) + 1
  BY DEF Place
<1> HIDE DEF ahead
<1> QED BY <1>1, <1>4, <1>5

LEMMA EndPumpInv == ASSUME IInv, NEW d \in Nat, EndPump(d) PROVE IInv'
<1> DEFINE n == stats.visited
           Unreached(c) == \E i \in n + 1 .. Len(connections) : connections[i] = c
           Skips(c) == IF Unreached(c) THEN history[c].skipped + 1 ELSE 0
<1>1. /\ pc = "visit" /\ pc' = "idle"
      /\ n = Visits \/ n > 0
      /\ connections' = Reorder(n)
      /\ conn' = Elapse(d)
      /\ budget' = NoBudget /\ stats' = NoStats /\ pumping' = FALSE
      /\ history' = [c \in Clients |-> [history[c] EXCEPT !.skipped = Skips(c)]]
      /\ bufferedBodyBytes' = bufferedBodyBytes /\ closed' = closed
      /\ current' = current /\ visitIo' = visitIo
  BY DEF EndPump, PumpReturns, visitVars
<1>2. /\ connections \in Seq(Clients) /\ Len(connections) \in Nat
      /\ n \in Nat /\ ~closed /\ current = NoClient /\ visitIo = 0
      /\ MaxConnections \in Nat /\ Len(connections) <= MaxConnections
      /\ \A i \in 1..Len(connections) : connections[i] \in Clients
  <2>1. connections \in Seq(Clients) /\ n \in Nat
    BY DEF IInv, TypeOK
  <2>2. ~closed /\ current = NoClient /\ visitIo = 0
    BY <1>1 DEF EndPump, IInv, StageInv, BetweenVisits
  <2> QED BY <2>1, <2>2, OptionFacts DEF IInv, OrderInv
<1>3. /\ conn' \in [Clients -> Connection]
      /\ \A c \in Clients : SameProgress(conn[c], conn'[c])
  BY <1>1, ElapseFacts DEF IInv, TypeOK
<1>4. /\ history' \in [Clients -> History]
      /\ \A c \in Clients : /\ history'[c].handled = history[c].handled
                           /\ history'[c].skipped = Skips(c)
  <2> SUFFICES ASSUME NEW c \in Clients
               PROVE  /\ history'[c] \in History
                      /\ history'[c].handled = history[c].handled
                      /\ history'[c].skipped = Skips(c)
    BY <1>1
  <2>1. history[c] \in History
    BY DEF IInv, TypeOK
  <2>2. Skips(c) \in Nat
    BY <2>1 DEF History
  <2>3. history'[c] = [history[c] EXCEPT !.skipped = Skips(c)]
    BY <1>1
  <2> HIDE DEF Skips
  <2> QED BY <2>1, <2>2, <2>3 DEF History
<1>5. ConnInv' /\ \A c \in Clients : conn'[c].state = conn[c].state
  BY <1>3, <1>4, QuietConn
<1> HIDE DEF n, Skips
<1>6. /\ Cardinality(Kept) \in 0..Len(connections)
      /\ connections' \in Seq(Clients) /\ Len(connections') = Cardinality(Kept)
      /\ \A k \in 1..Cardinality(Kept) :
           \E i \in Kept : Place(i, n) = k /\ connections'[k] = connections[i]
      /\ \A i \in Kept : /\ Place(i, n) \in 1..Cardinality(Kept)
                        /\ connections'[Place(i, n)] = connections[i]
  BY <1>1, <1>2, ReorderFacts
<1>7. /\ Kept \subseteq 1..Len(connections)
      /\ \A i \in 1..Len(connections) : i \in Kept <=> conn[connections[i]].state # "CLOSED"
  BY DEF Kept
<1>8. TypeOK'
  BY <1>1, <1>2, <1>3, <1>4, <1>6 DEF IInv, TypeOK, NoBudget, NoStats
<1>9. StageInv'
  <2>1. \A c \in Clients : conn'[c].state # "DISPATCHING"
    BY <1>1, <1>5 DEF IInv, StageInv
  <2> QED BY <1>1, <1>2, <2>1, EnvironmentFacts
          DEF StageInv, BetweenVisits, Visiting, StageFits
<1>10. VisitInv'
  <2>1. ASSUME NEW c \in OpenSlots' PROVE conn'[c].state # "CLOSED"
    <3>1. PICK k \in 1..Cardinality(Kept) : connections'[k] = c
      BY <1>6 DEF OpenSlots
    <3>2. PICK i \in Kept : connections'[k] = connections[i]
      BY <1>6
    <3> QED BY <1>2, <1>5, <1>7, <3>1, <3>2
  <2> QED BY <1>1, <2>1 DEF VisitInv, Visiting
<1>11. OrderInv'
  <2>1. ASSUME NEW k \in 1..Len(connections'), NEW l \in 1..Len(connections'),
               connections'[k] = connections'[l]
        PROVE  k = l
    <3>1. PICK i \in Kept : Place(i, n) = k /\ connections'[k] = connections[i]
      BY <1>6
    <3>2. PICK j \in Kept : Place(j, n) = l /\ connections'[l] = connections[j]
      BY <1>6
    <3>3. i = j
      BY <1>7, <2>1, <3>1, <3>2 DEF IInv, OrderInv
    <3> QED BY <3>1, <3>2, <3>3
  <2>2. ASSUME NEW c \in Clients, conn'[c].state # "CLOSED" PROVE c \in OpenSlots'
    <3>1. c \in OpenSlots /\ conn[c].state # "CLOSED"
      BY <1>5, <2>2 DEF IInv, OrderInv
    <3>2. PICK i \in 1..Len(connections) : connections[i] = c
      BY <3>1 DEF OpenSlots
    <3>3. i \in Kept
      BY <1>7, <3>1, <3>2
    <3>4. Place(i, n) \in 1..Len(connections') /\ connections'[Place(i, n)] = c
      BY <1>6, <3>2, <3>3
    <3> QED BY <3>4 DEF OpenSlots
  <2>3. Len(connections') <= MaxConnections
    BY <1>2, <1>6
  <2> QED BY <2>1, <2>2, <2>3 DEF OrderInv
<1>12. GapInv'
  <2> SUFFICES ASSUME NEW k \in 1..Len(connections')
               PROVE  history'[connections'[k]].skipped + k <= MaxConnections
    BY DEF GapInv
  <2>1. PICK i \in Kept : Place(i, n) = k /\ connections'[k] = connections[i]
    BY <1>6
  <2>2. i \in 1..Len(connections) /\ connections[i] \in Clients
    BY <1>2, <1>7
  <2>3. history'[connections'[k]].skipped = Skips(connections[i])
    BY <1>4, <2>1, <2>2
  <2>4. CASE i > n
    <3>1. Skips(connections[i]) = history[connections[i]].skipped + 1
      BY <1>2, <2>2, <2>4 DEF Skips
    <3>2. k <= i - n
      BY <1>2, <2>1, <2>4, UnreachedMovesUp
    <3>3. n > 0
      <4>1. Len(connections) > 0
        BY <1>2, <2>2
      <4>2. Visits > 0
        BY <4>1, OptionFacts DEF Visits, Smaller
      <4>3. n = Visits \/ n > 0
        BY <1>1
      <4> QED BY <4>2, <4>3
    <3>4. history[connections[i]].skipped + i <= MaxConnections
      BY <2>2 DEF IInv, GapInv
    <3>5. history[connections[i]].skipped \in Nat
      BY <2>2 DEF IInv, TypeOK, History
    <3>6. k \in Nat /\ i \in Nat /\ n \in Nat
      BY <1>2, <1>6, <2>2
    <3>7. history'[connections'[k]].skipped = history[connections[i]].skipped + 1
      BY <2>3, <3>1
    <3> QED BY <3>2, <3>3, <3>4, <3>5, <3>6, <3>7, OptionFacts
  <2>5. CASE ~(i > n)
    <3>1. Skips(connections[i]) = 0
      <4>1. \A j \in n + 1 .. Len(connections) : connections[j] # connections[i]
        BY <1>2, <2>2, <2>5 DEF IInv, OrderInv
      <4> QED BY <4>1 DEF Skips
    <3> QED BY <1>2, <1>6, <2>3, <3>1
  <2> QED BY <2>4, <2>5
<1>13. WithinBodyBudget' /\ VisitWithinPumpBudget'
  BY <1>1, <1>2 DEF IInv, WithinBodyBudget, VisitWithinPumpBudget, NoBudget
<1> QED BY <1>5, <1>8, <1>9, <1>10, <1>11, <1>12, <1>13 DEF IInv

-----------------------------------------------------------------------------
(* The specification. *)

LEMMA InitInv == ASSUME Init PROVE IInv
<1> DEFINE q == CHOOSE q \in Requests : TRUE
<1>1. q \in Requests
  BY EnvironmentAssumption DEF EnvironmentAssumption
<1>2. 1 \in Positive
  BY DEF Positive
<1>3. /\ ClosedSlot(q) \in Connection /\ ClosedSlot(q).state = "CLOSED"
  BY <1>1, <1>2 DEF ClosedSlot, Connection, ConnectionState
<1>4. NoHistory \in History /\ NoHistory.handled = 0
  BY DEF NoHistory, History
<1>5. /\ connections = <<>> /\ conn \in [Clients -> {ClosedSlot(q)}]
      /\ bufferedBodyBytes = 0 /\ closed = FALSE /\ pumping = FALSE /\ budget = NoBudget
      /\ stats = NoStats /\ pc = "idle" /\ current = NoClient /\ visitIo = 0
      /\ history = [c \in Clients |-> NoHistory]
  BY DEF Init
<1> HIDE DEF q
<1>6. /\ conn \in [Clients -> Connection] /\ \A c \in Clients : conn[c].state = "CLOSED"
      /\ history \in [Clients -> History] /\ \A c \in Clients : history[c].handled = 0
  BY <1>3, <1>4, <1>5
<1>7. TypeOK
  <2>1. connections \in Seq(Clients)
    BY <1>5
  <2>2. budget \in [io : Nat, dispatches : Nat, time : Nat]
    BY <1>5 DEF NoBudget
  <2>3. stats \in [accepted : Nat, visited : Nat, dispatched : Nat, closed : Nat,
                  active : Nat]
    BY <1>5 DEF NoStats
  <2>4. bufferedBodyBytes \in Int /\ visitIo \in Nat
    BY <1>5
  <2>5. closed \in BOOLEAN /\ pumping \in BOOLEAN /\ pc = "idle" /\ current = NoClient
    BY <1>5
  <2> QED BY <1>6, <2>1, <2>2, <2>3, <2>4, <2>5 DEF TypeOK
<1>8. ConnInv
  BY <1>6 DEF ConnInv, ConnOK, HandledOnce, Reading
<1>9. OpenSlots = {} /\ Len(connections) = 0
  BY <1>5 DEF OpenSlots
<1>10. StageInv /\ VisitInv
  BY <1>5, <1>6, <1>9, EnvironmentFacts
    DEF StageInv, VisitInv, BetweenVisits, Visiting, StageFits
<1>11. OrderInv /\ GapInv
  BY <1>6, <1>9, OptionFacts DEF OrderInv, GapInv
<1>12. WithinBodyBudget /\ VisitWithinPumpBudget
  BY <1>5, OptionFacts DEF WithinBodyBudget, VisitWithinPumpBudget, NoBudget
<1> QED BY <1>7, <1>8, <1>10, <1>11, <1>12 DEF IInv

LEMMA InPumpInv == ASSUME IInv, InPump PROVE IInv'
<1>1. CASE \E d \in ClockSteps \cup {0} :
             \/ \E c \in Clients, q \in Requests : AcceptClient(c, q, d)
             \/ EndAccepting(d)
             \/ EndPump(d)
             \/ \E e \in ClockSteps \cup {0} : BeginVisit(d, e)
             \/ RequestExpired(d)
             \/ ReceiveAll(d)
             \/ \E n \in 0..IoChunkBytes - 1 : ReceivePart(n, d) \/ ReceiveFails(n, d)
             \/ Dispatch(d)
             \/ DispatchRefused(d)
             \/ \E n \in ResponseLengths : HandlerReturns(n, d)
             \/ HandlerFails(d)
  <2>1. PICK d \in Nat :
          \/ \E c \in Clients, q \in Requests : AcceptClient(c, q, d)
          \/ EndAccepting(d)
          \/ EndPump(d)
          \/ \E e \in Nat : BeginVisit(d, e)
          \/ RequestExpired(d)
          \/ ReceiveAll(d)
          \/ \E n \in Nat : ReceivePart(n, d) \/ ReceiveFails(n, d)
          \/ Dispatch(d)
          \/ DispatchRefused(d)
          \/ \E n \in Positive : HandlerEnds(n, d)
    <3>1. \A n \in 0..IoChunkBytes - 1 : n \in Nat
      OBVIOUS
    <3>2. \A n \in ResponseLengths :
            (IF n > MaxResponseBytes THEN ErrorBytes ELSE n) \in Positive
      BY EnvironmentFacts
    <3>3. ErrorBytes \in Positive
      BY EnvironmentFacts
    <3> QED BY <1>1, <3>1, <3>2, <3>3, EnvironmentFacts DEF HandlerReturns, HandlerFails
  <2> QED BY <2>1, AcceptClientInv, EndAcceptingInv, EndPumpInv, BeginVisitInv,
             RequestExpiredInv, ReceiveAllInv, ReceivePartInv, ReceiveFailsInv,
             DispatchInv, DispatchRefusedInv, HandlerEndsInv
<1>2. CASE \/ ReadRefused \/ VisitThrows \/ HandlerClosedServer \/ ResponseExpired
           \/ EndClosedPump \/ ClockCheckThrows
  BY <1>2, ReadRefusedInv, VisitThrowsInv, HandlerClosedServerInv, ResponseExpiredInv,
     EndClosedPumpInv, ClockCheckThrowsInv
<1>3. CASE WriteRefused \/ SendAll \/ ReleaseNext \/ CloseReturns
  BY <1>3, WriteRefusedInv, SendAllInv, ReleaseNextInv, CloseReturnsInv
<1>4. CASE \E reached \in 0..MaxResponseBytes + ErrorBytes :
             SendPart(reached) \/ SendFails(reached)
  BY <1>4, SendPartInv, SendFailsInv
<1> QED BY <1>1, <1>2, <1>3, <1>4 DEF InPump

LEMMA StutterInv == ASSUME IInv, UNCHANGED vars PROVE IInv'
BY DEF IInv, TypeOK, ConnInv, StageInv, VisitInv, OrderInv, GapInv, WithinBodyBudget,
   VisitWithinPumpBudget, StageFits, OpenSlots, vars, server, pumpVars, visitVars

LEMMA NextInv == ASSUME IInv, [Next]_vars PROVE IInv'
<1>1. CASE \E d \in PumpGaps : Pump(d)
  BY <1>1, PumpInv, EnvironmentFacts
<1>2. CASE CallAfterClose \/ UNCHANGED vars
  BY <1>2, StutterInv DEF CallAfterClose
<1> QED BY <1>1, <1>2, InPumpInv, CloseInv DEF Next

(* IInv holds at every program point of every run of the scheduler,        *)
(* whatever clients, handlers, sockets and clocks do.                      *)
THEOREM SpecIInv == Spec => []IInv
<1>1. Init => IInv
  BY InitInv
<1>2. IInv /\ [Next]_vars => IInv'
  BY NextInv
<1> QED BY <1>1, <1>2, PTL DEF Spec

(* Every variable keeps its type: no counter goes below zero, no response  *)
(* is written past its end.                                                *)
THEOREM SpecTypeOK == Spec => []TypeOK
<1>1. IInv => TypeOK
  BY DEF IInv
<1> QED BY <1>1, SpecIInv, PTL

(* A handler runs at most once per connection, and only for a request the  *)
(* parser accepted and whose declared body has arrived in full.            *)
THEOREM SpecHandlerOnce == Spec => []HandlerOnce
<1>1. IInv => HandlerOnce
  BY DEF IInv, ConnInv, ConnOK, HandledOnce, HandlerOnce
<1> QED BY <1>1, SpecIInv, PTL

(* A handler that calls pump() starts no other handler. *)
THEOREM SpecOneHandler == Spec => []OneHandler
<1>1. IInv => OneHandler
  BY DEF IInv, StageInv, OneHandler
<1> QED BY <1>1, SpecIInv, PTL

(* After close(), by the host or by a handler, nothing is open or listed.  *)
THEOREM SpecClosedForGood == Spec => []ClosedForGood
<1>1. ASSUME IInv, closed, pc # "closing"
      PROVE  connections = <<>> /\ \A c \in Clients : conn[c].state = "CLOSED"
  <2>1. connections = <<>>
    BY <1>1 DEF IInv, StageInv
  <2>2. OpenSlots = {}
    BY <2>1 DEF OpenSlots
  <2> QED BY <1>1, <2>1, <2>2 DEF IInv, OrderInv
<1>2. IInv => ClosedForGood
  BY <1>1 DEF ClosedForGood
<1> QED BY <1>2, SpecIInv, PTL

(* The service order lists every open connection once, and no more than    *)
(* maxConnections of them, however pumps reorder it.                       *)
THEOREM SpecServiceOrder == Spec => []ServiceOrder
<1>1. IInv => ServiceOrder
  BY DEF IInv, OrderInv, VisitInv, ServiceOrder
<1> QED BY <1>1, SpecIInv, PTL

(* A connection a pump did not reach comes closer to the front in every    *)
(* pump: it is visited within maxConnections pumps.                        *)
THEOREM SpecVisitGapBounded == Spec => []VisitGapBounded
<1>1. IInv => VisitGapBounded
  BY DEF IInv, GapInv, VisitGapBounded
<1> QED BY <1>1, SpecIInv, PTL

(* Declared bodies held together stay within maxBufferedBodyBytes. *)
THEOREM SpecWithinBodyBudget == Spec => []WithinBodyBudget
<1>1. IInv => WithinBodyBudget
  BY DEF IInv
<1> QED BY <1>1, SpecIInv, PTL

(* A visit never has more I/O to spend than its pump has left. *)
THEOREM SpecVisitWithinPumpBudget == Spec => []VisitWithinPumpBudget
<1>1. IInv => VisitWithinPumpBudget
  BY DEF IInv
<1> QED BY <1>1, SpecIInv, PTL

=============================================================================
