------------------------ MODULE ConnectionScheduler ------------------------
(***************************************************************************)
(* The connection machinery behind HttpServer (tslua-http, scheduler.ts):  *)
(* non-blocking connections whose state survives between pumps, serviced   *)
(* round-robin within per-pump budgets.                                    *)
(*                                                                         *)
(* One thread runs everything, so a step is the code between two points    *)
(* where the outside decides something: a clock reading, a socket call, or *)
(* the request handler.  The handler is the one callback that may re-enter *)
(* the scheduler (pump, close), so it has a program point of its own.      *)
(*                                                                         *)
(* Time is kept as distances: requestLeft, idleLeft, writeLeft and the     *)
(* budget's time are the code's deadlines minus lastNow, never below zero. *)
(* A clock reading moves lastNow forward by some d; a clock that was set   *)
(* back is d = 0, which is what now() makes of it.                         *)
(*                                                                         *)
(* A member of Clients is a slot for a Connection object: once closed, the *)
(* slot stands for the next connection.  Payloads are lengths.             *)
(*                                                                         *)
(* An operator headed MISTAKE is used by no action: it is a plausible slip *)
(* in the definition that follows it, there to confirm that the properties *)
(* would notice.                                                           *)
(***************************************************************************)
EXTENDS Integers, Sequences, FiniteSets

CONSTANTS
  Clients,               (* slots for Connection objects                      *)
  NoClient,              (* no connection is being visited                    *)
  Requests,              (* what a client may send: head and body length, and *)
                         (* whether the head parser accepts the head          *)
  ResponseLengths,       (* serialized lengths a handler may return           *)
  ErrorBytes,            (* serialized length of an empty error response      *)
  PumpGaps,              (* clock advances seen by a pump's first reading     *)
  ClockSteps,            (* clock advances seen by readings inside a pump     *)
  MaxConnections, MaxAcceptsPerPump, MaxVisitsPerPump, MaxDispatchesPerPump,
  IoChunkBytes, MaxIoBytesPerVisit, MaxIoBytesPerPump,
  MaxBufferedBodyBytes, MaxResponseBytes,
  RequestTimeout, ResponseTimeout, IdleTimeout, MaxPumpSeconds

Positive == Nat \ {0}

(* The options resolveServerOptions does not reject. *)
ResolvedOptions ==
  /\ MaxConnections \in Positive
  /\ MaxAcceptsPerPump \in Positive
  /\ MaxVisitsPerPump \in Positive
  /\ MaxDispatchesPerPump \in Positive
  /\ IoChunkBytes \in Positive
  /\ MaxIoBytesPerVisit \in Positive
  /\ MaxIoBytesPerPump \in Positive
  /\ MaxBufferedBodyBytes \in Nat
  /\ MaxResponseBytes \in Nat
  /\ RequestTimeout \in Positive
  /\ ResponseTimeout \in Positive
  /\ IdleTimeout \in Nat
  /\ MaxPumpSeconds \in Positive

ASSUME OptionsAssumption == ResolvedOptions

(* What clients, handlers and clocks can be. *)
ASSUME EnvironmentAssumption ==
  /\ NoClient \notin Clients
  /\ IsFiniteSet(Clients)
  /\ Requests \subseteq [head : Positive, body : Nat, accepted : BOOLEAN]
  /\ Requests # {}
  /\ ResponseLengths \subseteq Positive
  /\ ErrorBytes \in Positive
  /\ PumpGaps \subseteq Nat
  /\ ClockSteps \subseteq Nat

ConnectionState == {"READING_HEADERS", "READING_BODY", "READY_TO_DISPATCH",
                    "DISPATCHING", "WRITING_RESPONSE", "CLOSED"}

VARIABLES
  connections,        (* open connections in service order                    *)
  conn,               (* the Connection object of each slot                   *)
  bufferedBodyBytes,  (* the sum of every connection's reserved               *)
  closed,             (* close() has been called                              *)
  pumping,            (* a pump is running                                    *)
  budget,             (* what is left of the running pump's budgets           *)
  stats,              (* the running pump's PumpStats                         *)
  pc,                 (* where the thread is                                  *)
  current,            (* the connection being visited, or NoClient            *)
  visitIo,            (* bytes the visit may still move                       *)
  history             (* auxiliary: what has happened to each connection      *)

server == <<connections, bufferedBodyBytes, closed>>
visitVars == <<current, visitIo>>
pumpVars == <<pumping, budget, stats>>
vars == <<server, conn, pumpVars, visitVars, pc, history>>

-----------------------------------------------------------------------------
(* Connection records. *)

Smaller(a, b) == IF a <= b THEN a ELSE b

(* t time units remain; how many remain d later *)
Left(t, d) == IF d >= t THEN 0 ELSE t - d

Reading(r) == r.state \in {"READING_HEADERS", "READING_BODY"}

ClosedSlot(q) ==
  [state |-> "CLOSED", req |-> q, headBytes |-> 0, bodyExpected |-> 0,
   bodyReceived |-> 0, length |-> 0, writePos |-> 1, starved |-> FALSE,
   reserved |-> 0, requestLeft |-> 0, idleLeft |-> 0, writeLeft |-> 0]

(* The object adopt() creates for a client that will send q; sinceStart is *)
(* how long ago the pump's first clock reading was.                        *)
NewConnection(q, sinceStart) ==
  [ClosedSlot(q) EXCEPT !.state = "READING_HEADERS",
                        !.requestLeft = Left(RequestTimeout, sinceStart),
                        !.idleLeft = Left(IdleTimeout, sinceStart)]

(* The deadlines r's state reads, d later. *)
Aged(r, d) ==
  IF Reading(r)
  THEN [r EXCEPT !.requestLeft = Left(@, d), !.idleLeft = Left(@, d)]
  ELSE IF r.state = "WRITING_RESPONSE"
  THEN [r EXCEPT !.writeLeft = Left(@, d)]
  ELSE r

StartResponse(r, n) ==
  [r EXCEPT !.state = "WRITING_RESPONSE", !.headBytes = 0, !.length = n,
            !.writePos = 1, !.writeLeft = ResponseTimeout]

Reject(r) == StartResponse(r, ErrorBytes)

(* The socket is closed once and every retained buffer dropped. *)
Released(r) ==
  IF r.state = "CLOSED" THEN r
  ELSE [r EXCEPT !.state = "CLOSED", !.headBytes = 0, !.length = 0, !.reserved = 0]

(* MISTAKE: complete one byte early. *)
AlmostWhole(taken, needed) == taken + 1 >= needed

Whole(taken, needed) == taken = needed

(* Bytes past the declared length are ignored. *)
AppendBody(r, n) ==
  LET needed == r.bodyExpected - r.bodyReceived
      taken == Smaller(n, needed)
  IN  [r EXCEPT !.bodyReceived = @ + taken,
                !.state = IF Whole(taken, needed) THEN "READY_TO_DISPATCH"
                ELSE "READING_BODY"]

(* MISTAKE: a body is compared with the whole budget, not with what is left. *)
FitsAlone(q) == q.body <= MaxBufferedBodyBytes

Fits(q) == bufferedBodyBytes + q.body <= MaxBufferedBodyBytes

(* The request has been read to the end of its head, rest bytes beyond it. *)
HeadComplete(r, rest) ==
  LET q == r.req
      parsed == [r EXCEPT !.headBytes = 0, !.bodyExpected = q.body,
                          !.reserved = q.body]
  IN  IF ~q.accepted \/ (q.body > 0 /\ ~Fits(q)) THEN Reject(r)
      ELSE IF q.body = 0 THEN [parsed EXCEPT !.state = "READY_TO_DISPATCH"]
      ELSE AppendBody(parsed, rest)

(* n > 0 bytes have arrived. *)
Consume(r, n) ==
  IF r.state = "READING_BODY" THEN AppendBody(r, n)
  ELSE IF r.headBytes + n < r.req.head THEN [r EXCEPT !.headBytes = @ + n]
  ELSE HeadComplete(r, r.headBytes + n - r.req.head)

-----------------------------------------------------------------------------
(* Effects shared by the actions. *)

OpenSlots == {connections[i] : i \in 1..Len(connections)}

NoBudget == [io |-> 0, dispatches |-> 0, time |-> 0]
NoStats == [accepted |-> 0, visited |-> 0, dispatched |-> 0, closed |-> 0,
            active |-> 0]
NoHistory == [handled |-> 0, delivered |-> 0, outcome |-> "none",
              skipped |-> 0]

(* MISTAKE: what the connection held before is not given back. *)
ReserveAgain(r, s) == bufferedBodyBytes + s.reserved

(* bufferedBodyBytes after reserve() has taken a connection from r to s. *)
Reserve(r, s) == bufferedBodyBytes + s.reserved - r.reserved

(* A clock reading d after the last one, as every connection sees it. *)
Elapse(d) == [c \in Clients |-> Aged(conn[c], d)]

BudgetLater(d) == [budget EXCEPT !.time = Left(@, d)]

(* The visited connection becomes r; io bytes are moved; the clock is read *)
(* d later.                                                                *)
Update(r, io, d) ==
  /\ conn' = [Elapse(d) EXCEPT ![current] = r]
  /\ bufferedBodyBytes' = Reserve(conn[current], r)
  /\ budget' = [BudgetLater(d) EXCEPT !.io = @ - io]
  /\ UNCHANGED <<connections, closed>>

Note(outcome, sent) ==
  history' = [history EXCEPT ![current].outcome = outcome, ![current].delivered = @ + sent]

Continue(stage, io) ==
  /\ pc' = stage
  /\ visitIo' = visitIo - io
  /\ UNCHANGED <<pumping, stats, current>>

(* MISTAKE: closed connections are not counted. *)
ClosedUncounted(r) == 0

ClosedCount(r) == IF r.state = "CLOSED" THEN 1 ELSE 0

(* The visit is over; n connections are counted as closed. *)
VisitOver(n) ==
  /\ visitIo' = 0
  /\ current' = NoClient
  /\ pc' = "visit"
  /\ stats' = [stats EXCEPT !.visited = @ + 1, !.closed = @ + n]
  /\ UNCHANGED pumping

(* visit() returned with the connection at r; counting is the last thing   *)
(* it does, and it also does it when the handler has closed the server.    *)
EndVisit(r) == VisitOver(ClosedCount(r))

(* What the catch of visitAll counts, visit() not having come to it. *)
CaughtCount == 1

(* The visited connection wanted a budgeted operation and is refused it. *)
Refuse(d) ==
  LET r == [conn[current] EXCEPT !.starved = TRUE]
  IN  Update(r, 0, d) /\ EndVisit(r) /\ UNCHANGED history

(* The connection, now r, cannot be completed; io bytes were sent to it. *)
Fail(r, io) ==
  Update(Released(r), io, 0) /\ EndVisit(Released(r)) /\ Note("failed", io)

(* What visit() does with a connection once its input has been read. *)
AfterInput(r, io) ==
  \/ r.state = "READY_TO_DISPATCH" /\ Continue("dispatch", io)
  \/ r.state = "WRITING_RESPONSE" /\ Continue("write", io)
  \/ r.state \notin {"READY_TO_DISPATCH", "WRITING_RESPONSE"} /\ EndVisit(r)

-----------------------------------------------------------------------------
(* A pump: its start, accepting, and the end. *)

Init ==
  /\ connections = <<>>
  /\ conn \in [Clients -> {ClosedSlot(CHOOSE q \in Requests : TRUE)}]
  /\ bufferedBodyBytes = 0
  /\ closed = FALSE
  /\ pumping = FALSE
  /\ budget = NoBudget
  /\ stats = NoStats
  /\ pc = "idle"
  /\ current = NoClient
  /\ visitIo = 0
  /\ history = [c \in Clients |-> NoHistory]

MayPump == ~closed /\ ~pumping

(* pump() called by the host, or by the handler.  A call this guard stops  *)
(* returns at once and changes nothing.                                    *)
Pump(d) ==
  /\ pc \in {"idle", "handler"}
  /\ MayPump
  /\ pumping' = TRUE
  /\ pc' = "accept"
  /\ conn' = Elapse(d)
  /\ budget' = [io |-> MaxIoBytesPerPump, dispatches |-> MaxDispatchesPerPump,
                time |-> MaxPumpSeconds]
  /\ stats' = [NoStats EXCEPT !.active = Len(connections)]
  /\ UNCHANGED <<server, visitVars, history>>

MayAccept ==
  /\ stats.accepted < MaxAcceptsPerPump
  /\ Len(connections) < MaxConnections

(* The clock check before every accept but the first, d later. *)
TimeToAccept(d) ==
  IF stats.accepted = 0 THEN d = 0 ELSE Left(budget.time, d) > 0

(* A client that will send q is waiting; adopt() takes slot c for it. *)
AcceptClient(c, q, d) ==
  /\ pc = "accept"
  /\ MayAccept
  /\ TimeToAccept(d)
  /\ conn[c].state = "CLOSED"
  /\ connections' = Append(connections, c)
  /\ conn' = [Elapse(d) EXCEPT
                ![c] = NewConnection(q, MaxPumpSeconds - Left(budget.time, d))]
  /\ budget' = BudgetLater(d)
  /\ stats' = [stats EXCEPT !.accepted = @ + 1]
  /\ history' = [history EXCEPT ![c] = NoHistory]
  /\ UNCHANGED <<bufferedBodyBytes, closed, pumping, pc, visitVars>>

(* Nobody is waiting, accept() fails, a limit is reached, or time is up. *)
EndAccepting(d) ==
  /\ pc = "accept"
  /\ d # 0 => MayAccept /\ stats.accepted > 0
  /\ conn' = Elapse(d)
  /\ budget' = BudgetLater(d)
  /\ pc' = "visit"
  /\ UNCHANGED <<server, pumping, stats, visitVars, history>>

Visits == Smaller(Len(connections), MaxVisitsPerPump)

(* MISTAKE: connections refused a budgeted operation are forgotten. *)
KeptUnstarved ==
  {i \in 1..Len(connections) : LET r == conn[connections[i]]
                               IN  r.state # "CLOSED" /\ ~r.starved}

(* The places in the list of the connections that are still open. *)
Kept == {i \in 1..Len(connections) : conn[connections[i]].state # "CLOSED"}

(* MISTAKE: connections that were visited keep their places. *)
GroupVisitedFirst(i, n) == IF i > n THEN 3 ELSE 2

(* MISTAKE: a refusal costs a connection its place. *)
GroupStarvedLast(i, n) ==
  IF i > n THEN 1 ELSE IF conn[connections[i]].starved THEN 3 ELSE 2

(* A pump that visited the first n connections puts those it did not reach *)
(* first, then those refused a budgeted operation, then everyone else.     *)
Group(i, n) ==
  IF i > n THEN 1 ELSE IF conn[connections[i]].starved THEN 2 ELSE 3

Before(i, j, n) ==
  Group(i, n) < Group(j, n) \/ (Group(i, n) = Group(j, n) /\ i < j)

Place(i, n) == Cardinality({j \in Kept : Before(j, i, n)}) + 1

(* The service order after that pump. *)
Reorder(n) ==
  [k \in 1..Cardinality(Kept) |-> connections[CHOOSE i \in Kept : Place(i, n) = k]]

(* pump() returns.  The budget object is overwritten by the next pump      *)
(* before anything reads it.                                               *)
PumpReturns ==
  /\ budget' = NoBudget
  /\ stats' = NoStats
  /\ pumping' = FALSE
  /\ pc' = "idle"
  /\ UNCHANGED <<bufferedBodyBytes, closed, visitVars>>

(* All visits are done, or the clock check before another one, d later,    *)
(* finds the time spent.                                                   *)
EndPump(d) ==
  /\ pc = "visit" /\ ~closed
  /\ IF stats.visited = Visits THEN d = 0
     ELSE stats.visited > 0 /\ Left(budget.time, d) = 0
  /\ connections' = Reorder(stats.visited)
  /\ conn' = Elapse(d)
  /\ PumpReturns
  /\ history' = [c \in Clients |-> [history[c] EXCEPT
                   !.skipped = IF \E i \in stats.visited + 1 .. Len(connections) :
                                    connections[i] = c
                               THEN @ + 1 ELSE 0]]

(* The handler closed the server: no further visit, and no reorder. *)
EndClosedPump ==
  /\ pc = "visit" /\ closed
  /\ PumpReturns
  /\ UNCHANGED <<connections, conn, history>>

-----------------------------------------------------------------------------
(* A visit. *)

Allowance == Smaller(MaxIoBytesPerVisit, budget.io)

(* The clock check of the loop, d later (the first visit has none), and    *)
(* the visit's own reading, e after that.                                  *)
BeginVisit(d, e) ==
  LET c == connections[stats.visited + 1]
      r == Aged(conn[c], d + e)
  IN  /\ pc = "visit" /\ ~closed
      /\ stats.visited < Visits
      /\ IF stats.visited = 0 THEN d = 0 ELSE Left(budget.time, d) > 0
      /\ current' = c
      /\ conn' = [Elapse(d + e) EXCEPT ![c] = [r EXCEPT !.starved = FALSE]]
      /\ budget' = BudgetLater(d + e)
      /\ visitIo' = Allowance
      /\ pc' = IF Reading(r) THEN "read"
               ELSE IF r.state = "READY_TO_DISPATCH" THEN "dispatch"
               ELSE "write"
      /\ UNCHANGED <<server, pumping, stats, history>>

(* That clock check raises.  The catch closes the connection that would    *)
(* have been visited.                                                      *)
ClockCheckThrows ==
  LET c == connections[stats.visited + 1]
  IN  /\ pc = "visit" /\ ~closed
      /\ stats.visited > 0 /\ stats.visited < Visits
      /\ conn' = [conn EXCEPT ![c] = Released(@)]
      /\ bufferedBodyBytes' = Reserve(conn[c], Released(conn[c]))
      /\ history' = [history EXCEPT ![c].outcome = "failed"]
      /\ VisitOver(CaughtCount)
      /\ UNCHANGED <<connections, closed, budget>>

Overdue(r) == r.requestLeft = 0 \/ (IdleTimeout > 0 /\ r.idleLeft = 0)

(* MISTAKE: only the idle timeout is enforced. *)
IdleTooLong == IdleTimeout > 0 /\ conn[current].idleLeft = 0

RequestOverdue == Overdue(conn[current])

(* 408; the write deadline counts from a clock reading d later. *)
RequestExpired(d) ==
  /\ pc = "read" /\ RequestOverdue
  /\ Update(Reject(conn[current]), 0, d)
  /\ Continue("write", 0)
  /\ UNCHANGED history

ReadRefused == pc = "read" /\ ~RequestOverdue /\ visitIo = 0 /\ Refuse(0)

MayReceive == pc = "read" /\ ~RequestOverdue /\ visitIo > 0

(* MISTAKE: a chunk may exceed the allowance. *)
ChunkAlone == IoChunkBytes

Chunk == Smaller(IoChunkBytes, visitIo)

Wanted ==
  LET r == conn[current]
  IN  IF r.state = "READING_BODY" THEN Smaller(Chunk, r.bodyExpected - r.bodyReceived)
      ELSE Chunk

(* The connection once n received bytes are consumed. *)
AfterReceiving(n) ==
  IF n = 0 THEN conn[current]
  ELSE Consume([conn[current] EXCEPT !.idleLeft = IdleTimeout], n)

(* The clock is read d later only when a response was started. *)
ReadsClock(r, d) == d # 0 => r.state = "WRITING_RESPONSE"

(* receive() returned everything asked for; there may be more. *)
ReceiveAll(d) ==
  LET r == AfterReceiving(Wanted)
  IN  /\ MayReceive
      /\ ReadsClock(r, d)
      /\ Update(r, Wanted, d)
      /\ IF Reading(r) /\ visitIo > Wanted THEN Continue("read", Wanted)
                                           ELSE AfterInput(r, Wanted)
      /\ UNCHANGED history

(* receive() timed out after n bytes: nothing more for now. *)
ReceivePart(n, d) ==
  LET r == AfterReceiving(n)
  IN  /\ MayReceive /\ n < Wanted
      /\ ReadsClock(r, d)
      /\ Update(r, n, d) /\ AfterInput(r, n) /\ UNCHANGED history

(* receive() reported "closed" or an error after n bytes.  A complete      *)
(* request is still answered, an incomplete one never is.                  *)
ReceiveFails(n, d) ==
  LET r == AfterReceiving(n)
      s == IF Reading(r) THEN Released(r) ELSE r
  IN  /\ MayReceive /\ n < Wanted
      /\ ReadsClock(r, d)
      /\ Update(s, n, d) /\ AfterInput(s, n)
      /\ IF Reading(r) THEN Note("failed", 0) ELSE UNCHANGED history

-----------------------------------------------------------------------------
(* Dispatch and the request handler. *)

Dispatched(r) == [r EXCEPT !.state = "DISPATCHING", !.reserved = 0]

(* MISTAKE: handlers start after the time budget is spent. *)
MayDispatchLate(d) == budget.dispatches > 0

MayDispatch(d) == budget.dispatches > 0 /\ Left(budget.time, d) > 0

Dispatch(d) ==
  LET r == Dispatched(conn[current])
  IN  /\ pc = "dispatch"
      /\ MayDispatch(d)
      /\ conn' = [Elapse(d) EXCEPT ![current] = r]
      /\ bufferedBodyBytes' = Reserve(conn[current], r)
      /\ budget' = [BudgetLater(d) EXCEPT !.dispatches = @ - 1]
      /\ stats' = [stats EXCEPT !.dispatched = @ + 1]
      /\ pc' = "handler"
      /\ history' = [history EXCEPT ![current].handled = @ + 1]
      /\ UNCHANGED <<connections, closed, pumping, visitVars>>

DispatchRefused(d) ==
  /\ pc = "dispatch"
  /\ ~MayDispatch(d)
  /\ budget.dispatches = 0 => d = 0
  /\ Refuse(d)

(* MISTAKE: the connection is not looked at again after the handler. *)
Unchecked == TRUE

(* The handler did not close the server. *)
StillDispatching == conn[current].state = "DISPATCHING"

HandlerEnds(n, d) ==
  /\ pc = "handler" /\ StillDispatching
  /\ Update(StartResponse(conn[current], n), 0, d)
  /\ Continue("write", 0)
  /\ UNCHANGED history

(* The handler returned a response of n bytes; one over the limit becomes  *)
(* a 500.                                                                  *)
HandlerReturns(n, d) == HandlerEnds(IF n > MaxResponseBytes THEN ErrorBytes ELSE n, d)

(* It raised an error or returned something that is not a response: 500. *)
HandlerFails(d) == HandlerEnds(ErrorBytes, d)

(* It had closed the server: its result, or its error, is dropped. *)
HandlerClosedServer ==
  /\ pc = "handler" /\ ~StillDispatching
  /\ EndVisit(conn[current])
  /\ UNCHANGED <<server, conn, budget, history>>

(* A socket call, the logger or the clock raised an error in this visit,   *)
(* perhaps after the handler was done: the catch closes the connection.    *)
VisitThrows ==
  /\ pc \in {"read", "dispatch", "write"} \/ (pc = "handler" /\ StillDispatching)
  /\ Update(Released(conn[current]), 0, 0)
  /\ VisitOver(CaughtCount)
  /\ Note("failed", 0)

-----------------------------------------------------------------------------
(* Writing. *)

ResponseExpired ==
  pc = "write" /\ conn[current].writeLeft = 0 /\ Fail(conn[current], 0)

WriteRefused ==
  pc = "write" /\ conn[current].writeLeft > 0 /\ visitIo = 0 /\ Refuse(0)

MaySend == pc = "write" /\ conn[current].writeLeft > 0 /\ visitIo > 0

(* The index of the last byte the next send() is asked to send. *)
LastAsked ==
  LET r == conn[current]
  IN  Smaller(r.length, r.writePos + Chunk - 1)

(* MISTAKE: what send() returns is taken for a count. *)
SentCount(reached) == [conn[current] EXCEPT !.writePos = @ + reached]

SentUpTo(reached) == [conn[current] EXCEPT !.writePos = reached + 1]
Sent(reached) == reached - conn[current].writePos + 1

(* send() took everything asked for; the last byte ends the connection. *)
SendAll ==
  LET r == SentUpTo(LastAsked)
      n == Sent(LastAsked)
  IN  /\ MaySend
      /\ IF r.writePos > r.length
         THEN /\ Update(Released(r), n, 0)
              /\ EndVisit(Released(r))
              /\ Note("completed", n)
         ELSE /\ Update(r, n, 0)
              /\ Note("none", n)
              /\ IF visitIo > n THEN Continue("write", n) ELSE EndVisit(r)

(* send() stopped at index reached, the socket buffer being full (or it    *)
(* came back short without an error).                                      *)
SendPart(reached) ==
  /\ MaySend /\ reached \in conn[current].writePos - 1 .. LastAsked - 1
  /\ Update(SentUpTo(reached), Sent(reached), 0)
  /\ EndVisit(SentUpTo(reached))
  /\ Note("none", Sent(reached))

(* send() failed after reaching that index. *)
SendFails(reached) ==
  /\ MaySend /\ reached \in conn[current].writePos - 1 .. LastAsked - 1
  /\ Fail(SentUpTo(reached), Sent(reached))

-----------------------------------------------------------------------------
(* close(), called by the host or by the handler. *)

Close ==
  /\ pc \in {"idle", "handler"}
  /\ ~closed
  /\ closed' = TRUE
  /\ pc' = "closing"
  /\ UNCHANGED <<connections, conn, bufferedBodyBytes, pumpVars, visitVars, history>>

(* The loop over the list, which may hold connections this pump has closed *)
(* already; Tail stands for the loop's index.                              *)
ReleaseNext ==
  LET c == Head(connections)
  IN  /\ pc = "closing" /\ connections # <<>>
      /\ connections' = Tail(connections)
      /\ conn' = [conn EXCEPT ![c] = Released(@)]
      /\ bufferedBodyBytes' = Reserve(conn[c], Released(conn[c]))
      /\ history' = IF conn[c].state = "CLOSED" THEN history
                     ELSE [history EXCEPT ![c].outcome = "dropped"]
      /\ UNCHANGED <<closed, pumpVars, pc, visitVars>>

CloseReturns ==
  /\ pc = "closing" /\ connections = <<>>
  /\ pc' = IF pumping THEN "handler" ELSE "idle"
  /\ UNCHANGED <<server, conn, pumpVars, visitVars, history>>

(* pump() and close() on a closed server do nothing. *)
CallAfterClose == closed /\ pc = "idle" /\ UNCHANGED vars

-----------------------------------------------------------------------------

(* Steps the thread takes by itself once a pump is running. *)
InPump ==
  \/ \E d \in ClockSteps \cup {0} :
       \/ \E c \in Clients, q \in Requests : AcceptClient(c, q, d)
       \/ EndAccepting(d)
       \/ EndPump(d)
       \/ \E e \in ClockSteps \cup {0} : BeginVisit(d, e)
       \/ RequestExpired(d)
       \/ ReceiveAll(d)
       \/ \E n \in 0..IoChunkBytes - 1 : ReceivePart(n, d) \/ ReceiveFails(n, d)
       \/ Dispatch(d)
       \/ DispatchRefused(d)
       \/ \E n \in ResponseLengths : HandlerReturns(n, d)
       \/ HandlerFails(d)
  \/ EndClosedPump
  \/ ClockCheckThrows
  \/ ReadRefused
  \/ VisitThrows
  \/ HandlerClosedServer
  \/ ResponseExpired
  \/ WriteRefused
  \/ SendAll
  \/ \E reached \in 0..MaxResponseBytes + ErrorBytes :
       SendPart(reached) \/ SendFails(reached)
  \/ ReleaseNext
  \/ CloseReturns

Next ==
  \/ \E d \in PumpGaps : Pump(d)
  \/ InPump
  \/ Close
  \/ CallAfterClose

Spec == Init /\ [][Next]_vars

(* The host calls pump again and again, and a running pump runs on: what   *)
(* receive, send and the handler answer is free, but they do answer.       *)
Fairness ==
  /\ WF_vars(\E d \in PumpGaps : Pump(d))
  /\ WF_vars(InPump)

FairSpec == Spec /\ Fairness

(* Between pumps the clock advances, again and again. *)
TimedSpec == FairSpec /\ SF_vars(\E d \in PumpGaps \ {0} : Pump(d))

=============================================================================
