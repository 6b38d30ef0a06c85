---------------------------- MODULE HttpExchange ----------------------------
(***************************************************************************)
(* What HttpServer promises about each connection, whatever its sockets,   *)
(* budgets and deadlines do: a request is received, handled at most once   *)
(* or refused, answered once, and the answer is delivered whole or the     *)
(* connection is dropped.  One handler runs at a time.  When the server    *)
(* stops, everything is dropped and nothing else ever happens.             *)
(***************************************************************************)
CONSTANT Exchanges

VARIABLES phase,    (* how far each exchange has come  *)
          serving   (* the server has not been stopped *)

vars == <<phase, serving>>

Over == {"none", "delivered", "dropped"}
Phases == Over \cup {"receiving", "handling", "answering"}

Init ==
  /\ phase = [x \in Exchanges |-> "none"]
  /\ serving = TRUE

Becomes(x, p) == phase' = [phase EXCEPT ![x] = p] /\ UNCHANGED serving

(* A client connects, in the place of one whose exchange is over. *)
Connect(x) == serving /\ phase[x] \in Over /\ Becomes(x, "receiving")

(* The request is complete and its handler starts. *)
Handle(x) ==
  /\ serving
  /\ phase[x] = "receiving"
  /\ \A y \in Exchanges : phase[y] # "handling"
  /\ Becomes(x, "handling")

(* The request will not be handled; an error response is started. *)
Refuse(x) == serving /\ phase[x] = "receiving" /\ Becomes(x, "answering")

(* The handler is done; its response, or a 500, is started. *)
Answer(x) == serving /\ phase[x] = "handling" /\ Becomes(x, "answering")

(* The last byte of the response has been taken by the socket. *)
Deliver(x) == serving /\ phase[x] = "answering" /\ Becomes(x, "delivered")

(* The client, a deadline, an error inside the server or its stopping ends *)
(* the exchange early.                                                     *)
Drop(x) == phase[x] \notin Over /\ Becomes(x, "dropped")

Stop == serving /\ serving' = FALSE /\ UNCHANGED phase

Next ==
  \/ \E x \in Exchanges :
       Connect(x) \/ Handle(x) \/ Refuse(x) \/ Answer(x) \/ Deliver(x) \/ Drop(x)
  \/ Stop

Spec == Init /\ [][Next]_vars

=============================================================================
