------------------------ MODULE SchedulerProperties ------------------------
(* What ConnectionScheduler must get right. *)
EXTENDS ConnectionScheduler, FiniteSetsExt

Connection ==
  [state : ConnectionState, req : Requests, headBytes : Nat,
   bodyExpected : Nat, bodyReceived : Nat, length : Nat, writePos : Positive,
   starved : BOOLEAN, reserved : Nat, requestLeft : Nat, idleLeft : Nat,
   writeLeft : Nat]

History == [handled : Nat, delivered : Nat,
            outcome : {"none", "completed", "failed", "dropped"},
            skipped : Nat]

(* Every variable has its type. *)
TypeOK ==
  /\ connections \in Seq(Clients)
  /\ conn \in [Clients -> Connection]
  /\ bufferedBodyBytes \in Int
  /\ closed \in BOOLEAN
  /\ pumping \in BOOLEAN
  /\ budget \in [io : Nat, dispatches : Nat, time : Nat]
  /\ stats \in [accepted : Nat, visited : Nat, dispatched : Nat, closed : Nat,
               active : Nat]
  /\ pc \in {"idle", "accept", "visit", "read", "dispatch", "handler", "write",
             "closing"}
  /\ current \in Clients \cup {NoClient}
  /\ visitIo \in Nat
  /\ history \in [Clients -> History]

(* The sum of the values of a function. *)
Total(f) == MapThenSumSet(LAMBDA x : f[x], DOMAIN f)

(* The counter reserve() maintains is the sum of what the connections      *)
(* hold, whichever way they end: nothing leaks, nothing is given back      *)
(* twice.                                                                  *)
BodyBudgetExact == bufferedBodyBytes = Total([c \in Clients |-> conn[c].reserved])

(* Declared bodies held together never exceed maxBufferedBodyBytes. *)
WithinBodyBudget == bufferedBodyBytes <= MaxBufferedBodyBytes

(* Reordering, accepting and closing keep the service order a list of      *)
(* exactly the open connections, each once, within maxConnections.         *)
ServiceOrder ==
  /\ \A i, j \in 1..Len(connections) : connections[i] = connections[j] => i = j
  /\ \A c \in Clients : conn[c].state # "CLOSED" => c \in OpenSlots
  /\ pc = "idle" => \A c \in OpenSlots : conn[c].state # "CLOSED"
  /\ Len(connections) <= MaxConnections

(* The handler runs at most once per connection, and only for a request    *)
(* the head parser accepted and whose whole declared body has arrived.     *)
HandlerOnce ==
  \A c \in Clients :
    /\ history[c].handled <= 1
    /\ history[c].handled = 1 =>
         conn[c].req.accepted /\ conn[c].bodyReceived = conn[c].req.body

(* Handlers never nest, even when one calls pump(). *)
OneHandler ==
  \A c, d \in Clients :
    conn[c].state = "DISPATCHING" /\ conn[d].state = "DISPATCHING" => c = d

(* Once close() has returned nothing is open or listed, and no handler     *)
(* result brings a connection back.                                        *)
ClosedForGood ==
  closed /\ pc # "closing" =>
    /\ connections = <<>>
    /\ \A c \in Clients : conn[c].state = "CLOSED"

(* What a visit may move never exceeds what the pump may still move. *)
VisitWithinPumpBudget == visitIo <= budget.io

(* The connections close() released. *)
DroppedByClose == {c \in Clients : history[c].outcome = "dropped"}

(* A pump's counters add up: what was open plus what was accepted less     *)
(* what was counted closed is what it leaves open.  When the handler has   *)
(* closed the server, close() counts nothing: of the connections it        *)
(* releases the visited one alone is counted, by its visit.                *)
StatsBalance ==
  [][pc = "visit" /\ pc' = "idle" =>
       Len(connections') =
         stats.active + stats.accepted - stats.closed
           - (IF closed THEN Cardinality(DroppedByClose) - 1 ELSE 0)]_vars

(* A handler starts only while its pump has dispatches and time left.      *)
HandlersWithinBudget ==
  [][\A c \in Clients :
       history'[c].handled > history[c].handled =>
         budget'.time > 0 /\ stats'.dispatched <= MaxDispatchesPerPump]_vars

(* A connection is closed as complete only when the socket has taken every *)
(* byte of the response, each once, over however many partial sends.       *)
CompleteDelivery ==
  [][\A c \in Clients :
       history[c].outcome = "none" /\ history'[c].outcome = "completed" =>
         history'[c].delivered = conn[c].length]_vars

(* Once its deadline or the idle timeout has passed, a request takes no    *)
(* further step towards its handler; a response past its deadline sends    *)
(* no further byte.                                                        *)
OverdueNeverProgresses ==
  [][\A c \in Clients :
       /\ Reading(conn[c]) /\ Overdue(conn[c]) =>
            /\ conn'[c].state \in {conn[c].state, "WRITING_RESPONSE", "CLOSED"}
            /\ conn'[c].bodyReceived = conn[c].bodyReceived
       /\ conn[c].state = "WRITING_RESPONSE" /\ conn[c].writeLeft = 0 =>
            history'[c].delivered = history[c].delivered]_vars

(* No connection waits for a visit longer than the list in front of it:    *)
(* the pumps it was not reached in plus its place never exceed             *)
(* maxConnections, however many clients keep arriving.                     *)
VisitGapBounded ==
  pc = "idle" =>
    \A i \in 1..Len(connections) :
      history[connections[i]].skipped + i <= MaxConnections

(* A request waiting for its handler is dispatched (or its connection      *)
(* closed), although dispatches are refused and new clients keep arriving. *)
ReadyIsDispatched ==
  \A c \in Clients :
    conn[c].state = "READY_TO_DISPATCH" ~> conn[c].state # "READY_TO_DISPATCH"

(* Every accepted connection ends, whatever its client does. *)
EveryConnectionEnds ==
  \A c \in Clients : conn[c].state # "CLOSED" ~> conn[c].state = "CLOSED"

(* A response that waits for its client holds none of the body budget. *)
PendingResponsesHoldNoBudget ==
  \A c \in Clients : conn[c].state = "WRITING_RESPONSE" => conn[c].reserved = 0

=============================================================================
