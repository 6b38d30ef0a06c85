----------------------------- MODULE PathRoutes -----------------------------
(* Routes and paths of tslua-http-api (path.ts).  A path is a sequence of     *)
(* characters; a route is a sequence of tokens, a literal character or a      *)
(* named parameter, which is what the two gsub calls make of its text: every  *)
(* magic character is escaped, and ":name" becomes a greedy capture.          *)
EXTENDS Naturals, Sequences, FiniteSetsExt

CONSTANT ParamChars   \* the characters a parameter matches: "/" is not one

Literal(c) == [kind |-> "literal", char |-> c]
Param(n)   == [kind |-> "param", name |-> n]

(* What string.match(path, routeToPattern(route)) captures: {} when the       *)
(* anchored pattern does not match, else the set of the one capture sequence. *)
(* A parameter takes the longest run of its characters that lets the rest of  *)
(* the route match, as Lua's matcher backs off from the longest.              *)
Captures(route, path) ==
  LET rest[i \in 1..(Len(route) + 1), j \in 1..(Len(path) + 1)] ==
        IF i > Len(route)
        THEN IF j > Len(path) THEN {<<>>} ELSE {}
        ELSE IF route[i].kind = "literal"
        THEN IF j <= Len(path) /\ path[j] = route[i].char THEN rest[i + 1, j + 1] ELSE {}
        ELSE LET ends == {k \in j..Len(path) : /\ \A x \in j..k : path[x] \in ParamChars
                                               /\ rest[i + 1, k + 1] # {}}
             IN IF ends = {} THEN {}
                ELSE {<<SubSeq(path, j, Max(ends))>> \o c : c \in rest[i + 1, Max(ends) + 1]}
  IN rest[1, 1]

isMatch(route, path) == Captures(route, path) # {}

(* The names of a route's parameters, in order. *)
getParamNames(route) ==
  LET params == SelectSeq(route, LAMBDA t : t.kind = "param")
  IN [i \in DOMAIN params |-> params[i].name]

(* The captures by name; a repeated name keeps its last capture, and a path   *)
(* that does not match gives no parameter.                                    *)
getPathParameters(route, path) ==
  LET names == getParamNames(route)
      last(n) == Max({i \in DOMAIN names : names[i] = n})
  IN IF isMatch(route, path)
     THEN LET captured == CHOOSE c \in Captures(route, path) : TRUE
          IN [n \in {names[i] : i \in DOMAIN names} |-> captured[last(n)]]
     ELSE [n \in {} |-> <<>>]
=============================================================================
