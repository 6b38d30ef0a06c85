--------------------------- MODULE MCApplication ----------------------------
(* Three registrations and two requests: a middleware without a route, a      *)
(* route for every method and a GET route, the last two with a parameter of   *)
(* the same place and another name.  One request matches all three, the other *)
(* only the first.                                                            *)
EXTENDS Application

MCHandlers ==
  << [route |-> NoRoute, method |-> NoMethod],
     [route |-> <<Literal("/"), Param("item")>>, method |-> NoMethod],
     [route |-> <<Literal("/"), Param("id")>>, method |-> "GET"] >>

MCIncoming ==
  << [path |-> <<"/", "a">>, method |-> "GET"],
     [path |-> <<"/", "/">>, method |-> "GET"] >>
=============================================================================
