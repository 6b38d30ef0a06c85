------------------------- MODULE SchedulerInvariant -------------------------
(***************************************************************************)
(* The inductive invariant of ConnectionScheduler: what holds at every     *)
(* program point, and implies the safety properties of                     *)
(* SchedulerProperties.                                                    *)
(***************************************************************************)
EXTENDS SchedulerProperties

(* At most one handler run, for an accepted and complete request. *)
HandledOnce(r, h) ==
  /\ h.handled <= 1
  /\ h.handled = 1 => r.req.accepted /\ r.bodyReceived = r.req.body

(* What the state of a connection r with history h implies. *)
ConnOK(r, h) ==
  /\ r.state = "READING_HEADERS" => r.reserved = 0 /\ r.bodyReceived = 0
  /\ r.state = "READING_BODY" =>
       /\ r.req.accepted
       /\ r.bodyExpected = r.req.body
       /\ r.bodyReceived < r.bodyExpected
  /\ r.state \in {"READY_TO_DISPATCH", "DISPATCHING"} =>
       r.req.accepted /\ r.bodyReceived = r.req.body
  /\ Reading(r) \/ r.state = "READY_TO_DISPATCH" => h.handled = 0
  /\ HandledOnce(r, h)
  /\ r.state = "WRITING_RESPONSE" => r.writePos <= r.length

ConnInv == \A c \in Clients : ConnOK(conn[c], history[c])

BetweenVisits == {"idle", "accept", "visit"}
Visiting == {"read", "dispatch", "write"}

(* The stage of a visit that goes with a state. *)
StageFits(r) ==
  /\ pc = "read" => Reading(r)
  /\ pc = "dispatch" => r.state = "READY_TO_DISPATCH"
  /\ pc = "write" => r.state = "WRITING_RESPONSE"
  /\ pc = "handler" => r.state = "DISPATCHING"

(* The program point agrees with the state of the visited connection, the  *)
(* pumping flag and the closed flag.                                       *)
StageInv ==
  /\ pc \in BetweenVisits => current = NoClient /\ visitIo = 0
  /\ pc \in Visiting \cup {"handler"} => current \in Clients
  /\ ~closed /\ current \in Clients => StageFits(conn[current])
  /\ pc = "idle" => ~pumping
  /\ pc \in Visiting \cup {"accept", "visit", "handler"} => pumping
  /\ pc = "closing" => closed /\ (pumping <=> current \in Clients)
  /\ pc = "closing" /\ ~pumping => visitIo = 0
  /\ closed => pc \in {"idle", "handler", "visit", "closing"}
  /\ closed /\ pc # "closing" => connections = <<>>
  /\ \A c \in Clients : conn[c].state = "DISPATCHING" =>
       c = current /\ pc \in {"handler", "closing"}

(* The visited connection is the next of the list; it and those after it   *)
(* are open, and between pumps all of them are.                            *)
VisitInv ==
  /\ pc = "accept" => stats.visited = 0
  /\ pc \in {"idle", "accept"} => \A c \in OpenSlots : conn[c].state # "CLOSED"
  /\ pc \in Visiting \cup {"visit", "handler"} /\ ~closed =>
       /\ stats.visited <= Len(connections)
       /\ \A i \in stats.visited + 1 .. Len(connections) :
            conn[connections[i]].state # "CLOSED"
  /\ pc \in Visiting \cup {"handler"} /\ ~closed =>
       /\ stats.visited < Len(connections)
       /\ connections[stats.visited + 1] = current

(* The service order lists every open connection, each once. *)
OrderInv ==
  /\ \A i, j \in 1..Len(connections) : connections[i] = connections[j] => i = j
  /\ \A c \in Clients : conn[c].state # "CLOSED" => c \in OpenSlots
  /\ Len(connections) <= MaxConnections

(* The pumps a connection was not reached in, plus its place in the list,  *)
(* never exceed maxConnections.                                            *)
GapInv ==
  \A i \in 1..Len(connections) :
    history[connections[i]].skipped + i <= MaxConnections

IInv ==
  /\ TypeOK
  /\ ConnInv
  /\ StageInv
  /\ VisitInv
  /\ OrderInv
  /\ GapInv
  /\ WithinBodyBudget
  /\ VisitWithinPumpBudget

-----------------------------------------------------------------------------
(* What the step properties and the refinement need beyond IInv: the       *)
(* accounts that are kept of what is sent, handled and counted.            *)

(* A closed connection holds nothing of the body budget; an open one has   *)
(* not ended, and its client has been sent what lies before the write      *)
(* position.                                                               *)
AccountOK(r, h) ==
  /\ r.state = "CLOSED" => r.reserved = 0
  /\ r.state # "CLOSED" => h.outcome = "none"
  /\ r.state \notin {"WRITING_RESPONSE", "CLOSED"} => h.delivered = 0
  /\ r.state = "WRITING_RESPONSE" => h.delivered = r.writePos - 1

DeliveryInv == \A c \in Clients : AccountOK(conn[c], history[c])

(* Every handler started was paid for from the pump's dispatches. *)
PaidInv == pumping => stats.dispatched + budget.dispatches = MaxDispatchesPerPump

OpenNow == {c \in Clients : conn[c].state # "CLOSED"}

(* The connections both released by close() and counted by their visit. *)
CountedDropped == IF closed /\ pc = "visit" THEN 1 ELSE 0

(* The pump has counted every connection that is not open any more, but    *)
(* for those close() has released.                                         *)
CountInv ==
  /\ ~closed => DroppedByClose = {}
  /\ pumping =>
       Cardinality(OpenNow) + Cardinality(DroppedByClose) =
         stats.active + stats.accepted - stats.closed + CountedDropped

AccountInv == DeliveryInv /\ PaidInv /\ CountInv /\ BodyBudgetExact

=============================================================================
