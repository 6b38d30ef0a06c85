---------------------------- MODULE MCScheduler ----------------------------
(* Values of ConnectionScheduler's constants that a .cfg cannot write down. *)
EXTENDS SchedulerInvariant, SchedulerExchange, TLC

(* Requests by shape: without a body, with one, refused by the parser. *)
Bodyless(h) == [head |-> h, body |-> 0, accepted |-> TRUE]
WithBody(h, n) == [head |-> h, body |-> n, accepted |-> TRUE]
BadHead(h) == [head |-> h, body |-> 0, accepted |-> FALSE]

AllShapes == {Bodyless(1), WithBody(1, 2), BadHead(2)}
OneByteRequest == {Bodyless(1)}

Slots == Permutations(Clients)
=============================================================================
