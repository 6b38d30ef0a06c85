----------------------------- MODULE BridgeRpc -----------------------------
(* POST /rpc of the bridge. Of the HTTP request and its JSON body only what *)
(* the code tells apart is kept.                                            *)
EXTENDS Integers

ParseError == -32700
InvalidRequest == -32600
MethodNotFound == -32601
InvalidParams == -32602
CompileError == -32000
RuntimeError == -32001
ResultNotEncodable == -32002
Unauthorized == -32003

(* What a step of the service gives back: a result (error = 0) or an error *)
(* code, and whether the caller's Lua ran.                                  *)
Outcome(error, ran, encodable) ==
  [error |-> error, ran |-> ran, encodable |-> encodable]

(* What the chunk does when it is compiled and called: "syntax", "raises",  *)
(* "value" (nil included) or "function" (a result json.encode refuses).     *)
evaluate(code) ==
  CASE code = "syntax" -> Outcome(CompileError, FALSE, TRUE)
    [] code = "raises" -> Outcome(RuntimeError, TRUE, TRUE)
    [] code \in {"value", "function"} -> Outcome(0, TRUE, code = "value")

(* `params.code` of a number or a boolean is an error of Lua's own.         *)
evalMethod(params, code) ==
  CASE params \in {"absent", "no code"} -> Outcome(InvalidParams, FALSE, TRUE)
    [] params = "scalar" -> Outcome(RuntimeError, FALSE, TRUE)
    [] params = "code" -> evaluate(code)

dispatch(body) ==
  CASE ~body.version \/ body.method = "not a string" ->
         Outcome(InvalidRequest, FALSE, TRUE)
    [] body.version /\ body.method \in {"ping", "rpc.discover"} ->
         Outcome(0, FALSE, TRUE)
    [] body.version /\ body.method = "eval" -> evalMethod(body.params, body.code)
    [] OTHER -> Outcome(MethodNotFound, FALSE, TRUE)

(* An HTTP answer: its status, the JSON-RPC error code (0 with a result)    *)
(* and the id it carries.                                                   *)
Reply(status, error, id, ran) ==
  [status |-> status, error |-> error, id |-> id, ran |-> ran]

NoId == "null"

(* An id that json.encode refuses (1e999 is decoded to math.huge) makes     *)
(* every answer that carries it fail, errors too: the application answers   *)
(* 500 with an error page of its own.                                       *)
encodeError(id, error, ran) ==
  IF id = "huge" THEN Reply(500, 0, NoId, ran) ELSE Reply(200, error, id, ran)

(* MISTAKE: a result that cannot be encoded is reported without the id. *)
EncodeWithoutId(id, outcome) ==
  IF outcome.encodable THEN encodeError(id, outcome.error, outcome.ran)
                       ELSE encodeError(NoId, ResultNotEncodable, outcome.ran)

encodeResponse(id, outcome) ==
  encodeError(id, IF outcome.encodable THEN outcome.error ELSE ResultNotEncodable,
              outcome.ran)

(* The body is "malformed", "scalar" (JSON that is no table) or a table,    *)
(* which may be an array: then it has no version.                           *)
handleRpcBody(body) ==
  CASE body.form = "malformed" -> encodeError(NoId, ParseError, FALSE)
    [] body.form = "scalar" -> encodeError(NoId, InvalidRequest, FALSE)
    [] body.form = "table" ->
         LET id == IF body.id = "absent" THEN NoId ELSE body.id
         IN encodeResponse(id, dispatch(body))

(* 0, or the status the request is refused with. The media type is read    *)
(* without its parameters; the header must hold the token exactly.         *)
refuseUntrusted(headers, token) ==
  CASE headers.origin -> 403
    [] ~headers.origin /\ headers.mediaType # "json" -> 415
    [] ~headers.origin /\ headers.mediaType = "json" ->
         IF token = "" \/ headers.bearer # token THEN 401 ELSE 0

rpc(request, token) ==
  LET refusal == refuseUntrusted(request.headers, token)
  IN IF refusal # 0 THEN Reply(refusal, Unauthorized, NoId, FALSE)
                    ELSE handleRpcBody(request.body)
=============================================================================
