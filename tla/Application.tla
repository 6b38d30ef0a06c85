----------------------------- MODULE Application ----------------------------
(* The middleware stack of tslua-http-api (application.ts): an application    *)
(* that registers handlers while it serves, the handlers of a request as      *)
(* frames of one call stack, next() called at once, twice, late or with an    *)
(* error, and the error's way to the error handler.                           *)
(*                                                                            *)
(* What a handler does is its author's choice: any sequence of the operations *)
(* the request and the response give it.  handleRequest runs inside the       *)
(* scheduler's dispatch, which starts no handler while one runs.              *)
(*                                                                            *)
(* An operator headed MISTAKE is used by no action: it is a plausible slip    *)
(* that a property below must catch.                                          *)
EXTENDS PathRoutes, SequencesExt

CONSTANTS
  Handlers,    \* what the program registers, in order: [route, method]
  Incoming,    \* the path and method of each request
  NoRoute, NoMethod,
  MaxRuns,     \* bound: handlers started, in all requests together
  MaxCalls     \* bound: calls of a next() one activation makes

(* What is registered is a list. *)
ASSUME RegistrationAssumption == Handlers \in Seq(ToSet(Handlers))

VARIABLES
  registered,  \* how many of Handlers the program has registered
  custom,      \* TRUE once useGlobalErrorHandler has replaced the error handler
  calls,       \* the call stack, innermost last: frames [req, idx, root, made]
  raised,      \* TRUE while an error unwinds the call stack
  exchange,    \* per request: state, stack, params, res, and the answer sent
  kept,        \* the next functions handlers have stored: <<request, index>>
  errors,      \* the requests with an entry in app.errors
  runs         \* handlers started

vars == <<registered, custom, calls, raised, exchange, kept, errors, runs>>

Requests == DOMAIN Incoming
ErrorFrame == 0   \* the index of an activation of errorMiddleware

NewResponse == [status |-> "404", type |-> "none", body |-> "none"]

NoParams == [n \in {} |-> <<>>]
Params(h, r) ==
  getPathParameters(IF h.route = NoRoute THEN <<Literal("/")>> ELSE h.route, Incoming[r].path)

(* ---------------------------------------------------- handleRequest ----- *)

Selected(h, r) ==
  /\ h.route = NoRoute \/ isMatch(h.route, Incoming[r].path)
  /\ h.method = NoMethod \/ h.method = Incoming[r].method

(* The filter over requestHandlers: those of the first n that are selected. *)
StackOf(r) ==
  LET upTo[n \in 0..registered] ==
        IF n = 0 THEN <<>>
        ELSE IF Selected(Handlers[n], r) THEN Append(upTo[n - 1], Handlers[n])
        ELSE upTo[n - 1]
  IN upTo[registered]

InitialStatus(stack) == IF \E i \in DOMAIN stack : stack[i].route # NoRoute THEN "200" ELSE "404"

(* MISTAKE: every activation is taken for the one handleRequest made. *)
FrameAlwaysRoot(r, i, root) == [req |-> r, idx |-> i, root |-> TRUE, made |-> 0]

Frame(r, i, root) == [req |-> r, idx |-> i, root |-> root, made |-> 0]
Top == Last(calls)

(* handleRequest returns: the scheduler serializes the response as it is now. *)
Answered(x, response) == [x EXCEPT !.state = "answered", !.res = response, !.sent = response]

ItemExists(r, i) == i \in DOMAIN exchange[r].stack

(* MISTAKE: a parameter already there is kept. *)
ParamsMerged(r, i) == exchange[r].params @@ Params(exchange[r].stack[i], r)

(* runStackItem(i): the shared parameters become those of handler i's route. *)
ParamsAt(r, i) == Params(exchange[r].stack[i], r)

(* The scheduler dispatches r: the handlers registered now are its stack. *)
HandleRequest(r) ==
  /\ calls = <<>> /\ exchange[r].state = "waiting"
  /\ LET stack == StackOf(r)
         fresh == [NewResponse EXCEPT !.status = InitialStatus(stack)]
     IN IF stack = <<>>
        THEN /\ exchange' = [exchange EXCEPT ![r] = Answered(@, fresh)]
             /\ UNCHANGED <<calls, runs>>
        ELSE /\ exchange' = [exchange EXCEPT ![r] =
                  [@ EXCEPT !.state = "handling", !.stack = stack, !.res = fresh,
                            !.params = Params(stack[1], r)]]
             /\ calls' = <<Frame(r, 1, TRUE)>>
             /\ runs' = runs + 1
  /\ UNCHANGED <<registered, custom, raised, kept, errors>>

(* The closure next() of handler i: with a further handler it runs it, and   *)
(* past the last one it does nothing.  `below` is the stack it returns to.    *)
RunNext(r, i, below) ==
  IF ItemExists(r, i + 1)
  THEN /\ runs < MaxRuns
       /\ exchange' = [exchange EXCEPT ![r].params = ParamsAt(r, i + 1)]
       /\ calls' = Append(below, Frame(r, i + 1, FALSE))
       /\ runs' = runs + 1
  ELSE /\ calls' = below
       /\ UNCHANGED <<exchange, runs>>

Calling == [calls EXCEPT ![Len(calls)].made = @ + 1]

(* ------------------------------------------------ what a handler does ---- *)

Running == calls # <<>> /\ ~raised
InHandler == Running /\ Top.idx # ErrorFrame

res == exchange[Top.req].res
Write(response) == exchange' = [exchange EXCEPT ![Top.req].res = response]

SetStatus == Write([res EXCEPT !.status = "handler"]) /\ UNCHANGED <<raised, errors>>
Send      == Write([res EXCEPT !.type = "text", !.body = "text"]) /\ UNCHANGED <<raised, errors>>
Json      == Write([res EXCEPT !.type = "json", !.body = "json"]) /\ UNCHANGED <<raised, errors>>

(* MISTAKE: the value that could not be encoded is not recorded. *)
JsonFailsUnrecorded ==
  /\ Write([res EXCEPT !.type = "json"])
  /\ raised' = TRUE /\ UNCHANGED errors

(* The type is set before the value is encoded, so it stays when that fails. *)
JsonFails ==
  /\ Write([res EXCEPT !.type = "json"])
  /\ errors' = errors \union {Top.req}
  /\ raised' = TRUE

Throw == raised' = TRUE /\ UNCHANGED <<exchange, errors>>

Act ==
  /\ Running
  /\ SetStatus \/ Send \/ Json \/ JsonFails \/ Throw
  /\ UNCHANGED <<registered, custom, calls, kept, runs>>

CallNext ==
  /\ InHandler /\ Top.made < MaxCalls
  /\ RunNext(Top.req, Top.idx, Calling)
  /\ UNCHANGED <<registered, custom, raised, kept, errors>>

(* next(err) raises err in the handler that called it. *)
CallNextWithError ==
  /\ InHandler /\ Top.made < MaxCalls
  /\ raised' = TRUE /\ calls' = Calling
  /\ UNCHANGED <<registered, custom, exchange, kept, errors, runs>>

KeepNext ==
  /\ InHandler
  /\ kept' = kept \union {<<Top.req, Top.idx>>}
  /\ UNCHANGED <<registered, custom, calls, raised, exchange, errors, runs>>

(* A stored next() is called by whatever runs, of another request too. *)
CallKeptNext(k) ==
  /\ Running /\ Top.made < MaxCalls
  /\ RunNext(k[1], k[2], Calling)
  /\ UNCHANGED <<registered, custom, raised, kept, errors>>

(* ... or by a timer, with no request being handled. *)
LateNext(k) ==
  /\ calls = <<>>
  /\ RunNext(k[1], k[2], <<>>)
  /\ UNCHANGED <<registered, custom, raised, kept, errors>>

Return ==
  /\ Running
  /\ calls' = Front(calls)
  /\ exchange' = IF Top.root THEN [exchange EXCEPT ![Top.req] = Answered(@, @.res)] ELSE exchange
  /\ UNCHANGED <<registered, custom, raised, kept, errors, runs>>

(* ---------------------------------------------------------- errors ------- *)

(* The innermost handler catches what a next() it called, or an operation of  *)
(* its own such as a failed json(), has raised.                               *)
Catch ==
  /\ raised
  /\ raised' = FALSE
  /\ UNCHANGED <<registered, custom, calls, exchange, kept, errors, runs>>

(* The catch of handleRequest: the default error handler answers 500 over     *)
(* what the handlers left, another one runs as a frame of its own.            *)
ToErrorHandler(r) ==
  IF custom
  THEN /\ calls' = Append(Front(calls), Frame(r, ErrorFrame, TRUE))
       /\ UNCHANGED exchange
  ELSE /\ calls' = Front(calls)
       /\ exchange' = [exchange EXCEPT ![r] =
            Answered(@, [@.res EXCEPT !.status = "500", !.type = "text", !.body = "500"])]

(* An error of the error handler leaves handleRequest: the scheduler answers  *)
(* a bare 500 of its own.                                                     *)
OutOfRoot(f) ==
  IF f.idx # ErrorFrame
  THEN ToErrorHandler(f.req)
  ELSE /\ calls' = Front(calls)
       /\ exchange' = [exchange EXCEPT ![f.req].state = "failed"]

(* An error leaves the innermost frame; out of a late next() it goes to the   *)
(* timer that called it.                                                      *)
Unwind ==
  /\ raised
  /\ IF Top.root
     THEN raised' = FALSE /\ OutOfRoot(Top)
     ELSE /\ calls' = Front(calls) /\ raised' = (Len(calls) > 1)
          /\ UNCHANGED exchange
  /\ UNCHANGED <<registered, custom, kept, errors, runs>>

(* ----------------------------------------------------- registration ------ *)

(* use, useMiddleware, get, put, post, delete, patch and options all push to  *)
(* requestHandlers, before the server is pumped or from a handler.            *)
Register ==
  /\ ~raised /\ registered < Len(Handlers)
  /\ registered' = registered + 1
  /\ UNCHANGED <<custom, calls, raised, exchange, kept, errors, runs>>

UseGlobalErrorHandler ==
  /\ ~raised /\ ~custom
  /\ custom' = TRUE
  /\ UNCHANGED <<registered, calls, raised, exchange, kept, errors, runs>>

Init ==
  /\ registered = 0 /\ custom = FALSE
  /\ calls = <<>> /\ raised = FALSE
  /\ exchange = [r \in Requests |->
       [state |-> "waiting", stack |-> <<>>, params |-> NoParams,
        res |-> NewResponse, sent |-> NewResponse]]
  /\ kept = {} /\ errors = {}
  /\ runs = 0

Next ==
  \/ \E r \in Requests : HandleRequest(r)
  \/ Act \/ CallNext \/ CallNextWithError \/ KeepNext \/ Return
  \/ \E k \in kept : CallKeptNext(k) \/ LateNext(k)
  \/ Catch \/ Unwind
  \/ Register \/ UseGlobalErrorHandler

Spec == Init /\ [][Next]_vars

(* -------------------------------------------------------- properties ----- *)

(* One handleRequest at a time: its frame, the handler's or the error         *)
(* handler's, is the outermost one and belongs to the one request being       *)
(* handled.  Whatever a late next() runs, and under whatever request, ends    *)
(* no other request and reaches no other error handler (application.ts:361).  *)
OneHandleRequest ==
  /\ \A i \in DOMAIN calls : calls[i].root => i = 1
  /\ \A r \in Requests :
       exchange[r].state = "handling" <=> calls # <<>> /\ calls[1].root /\ calls[1].req = r

(* A request is answered once: after that neither its answer nor the way it   *)
(* ended changes, although its handlers may run again through a late next()   *)
(* and still write to the response object (application.ts:369).               *)
AnsweredOnce ==
  [][\A r \in Requests : exchange[r].state \in {"answered", "failed"}
       => UNCHANGED <<exchange[r].state, exchange[r].sent>>]_vars

(* A handler that has not yet called a next() reads the parameters of its own *)
(* route, and no others, from the shared request (application.ts:365).        *)
OwnParameters ==
  InHandler /\ Top.made = 0
    => exchange[Top.req].params = Params(exchange[Top.req].stack[Top.idx], Top.req)

(* With handlers that set the Content-Type through send() and json() alone,   *)
(* an answer whose type does not describe its body has an entry in app.errors:*)
(* only a value that json() could not encode, and whose error a handler or a  *)
(* custom error handler swallowed, leaves one (application.ts:181).           *)
MisdescribedIsRecorded ==
  \A r \in Requests : exchange[r].state = "answered" =>
    (exchange[r].sent.type = "json" <=> exchange[r].sent.body = "json") \/ r \in errors

=============================================================================
