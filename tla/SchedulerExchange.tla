------------------------- MODULE SchedulerExchange -------------------------
(* ConnectionScheduler implements HttpExchange. *)
EXTENDS ConnectionScheduler

(* How far the exchange on slot c has come. *)
PhaseOf(c) ==
  CASE conn[c].state \in {"READING_HEADERS", "READING_BODY",
                          "READY_TO_DISPATCH"} -> "receiving"
    [] conn[c].state = "DISPATCHING" -> "handling"
    [] conn[c].state = "WRITING_RESPONSE" -> "answering"
    [] conn[c].state = "CLOSED" ->
         CASE history[c].outcome = "none" -> "none"
           [] history[c].outcome = "completed" -> "delivered"
           [] history[c].outcome \in {"failed", "dropped"} -> "dropped"

Exchange == INSTANCE HttpExchange
              WITH Exchanges <- Clients,
                   phase <- [c \in Clients |-> PhaseOf(c)],
                   serving <- ~closed

(* Every behaviour of the scheduler is one HttpExchange allows. *)
ImplementsExchange == Exchange!Spec

=============================================================================
