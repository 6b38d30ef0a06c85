------------------------------- MODULE Codecs -------------------------------
(* The pure algorithms of the libraries, each called once with an input of *)
(* a bounded set, and what the answers must be.                            *)
EXTENDS CodecReferences, BridgeRpc

CONSTANTS
  JsonTexts, DecodeOptions,     \* sequences of tokens; maxDepth and nullValue
  Heaps, EncodeOptions,         \* heaps with a table named 1; maxDepth, ...
  StringTexts, Contents,        \* literals; strings to quote
  NumberTexts, Candidates,      \* literals; [digits, delta]
  Decimals,                     \* [digits, point]
  Data, Texts64,                \* bytes; Base64 text
  HeadFragments, Heads,         \* fragments of a head; its lines
  RequestLines, EncodedTexts,   \* a head's first line; URI-encoded text
  RpcRequests, Tokens,          \* POST /rpc; the installed token
  Comparisons                   \* [heap, strict], table 1 with table 3

VARIABLES
  fn,      \* the function called
  input,   \* its arguments
  answer,  \* its result
  done     \* whether it has returned

vars == <<fn, input, answer, done>>

Is(f, inputs) == fn = f /\ input \in inputs

Init ==
  /\ answer = "none"
  /\ done = FALSE
  /\ \/ Is("decode", [text : JsonTexts, o : DecodeOptions])
     \/ Is("encode", [heap : Heaps, o : EncodeOptions])
     \/ Is("parseString", StringTexts)
     \/ Is("quoteString", Contents)
     \/ Is("parseNumber", NumberTexts)
     \/ Is("neighbour", Candidates)
     \/ Is("formatNumber", Decimals)
     \/ Is("encode64", Data)
     \/ Is("decodeText", Texts64)
     \/ Is("push", HeadFragments)
     \/ Is("complete", Heads)
     \/ Is("requestLine", RequestLines)
     \/ Is("decodeUriComponent", EncodedTexts)
     \/ Is("rpc", [request : RpcRequests, token : Tokens])
     \/ Is("deepEqual", Comparisons)

Returns(f, result(_)) ==
  /\ fn = f
  /\ ~done
  /\ done' = TRUE
  /\ answer' = result(input)
  /\ UNCHANGED <<fn, input>>

Next ==
  \/ Returns("decode", LAMBDA i : decode(i.text, i.o))
  \/ Returns("encode", LAMBDA i : encode(i.heap, Ref(1), i.o))
  \/ Returns("parseString", parseString)
  \/ Returns("quoteString", quoteString)
  \/ Returns("parseNumber", parseNumber)
  \/ Returns("neighbour", LAMBDA i : Neighbour(i.digits, 0, i.delta))
  \/ Returns("formatNumber", LAMBDA i : formatNumber(i.digits, i.point))
  \/ Returns("encode64", LAMBDA i : encode64(i, TRUE))
  \/ Returns("decodeText", decodeText)
  \/ Returns("push", ReadFragments)
  \/ Returns("complete", LAMBDA i : complete(i.requestLine, i.headers))
  \/ Returns("requestLine", requestLine)
  \/ Returns("decodeUriComponent", decodeUriComponent)
  \/ Returns("rpc", LAMBDA i : rpc(i.request, i.token))
  \/ Returns("deepEqual",
             LAMBDA i : deepEqual(i.heap, Table(1), Table(3), i.strict))

Spec == Init /\ [][Next]_vars

Of(f) == done /\ fn = f

-----------------------------------------------------------------------------
(* decode accepts exactly the texts of the grammar within maxDepth and     *)
(* gives them the value they stand for; so do string and number literals,  *)
(* with every unpaired surrogate replaced, and the escapes of a URI, none  *)
(* of which is decoded twice.                                              *)
DecodesTheGrammar ==
  /\ Of("decode") =>
       LET accepted ==
             IsJson(input.text) /\ Nesting(input.text) <= input.o.maxDepth
       IN /\ answer.ok = accepted
          /\ accepted => answer.value = Meaning(input.text, input.o.nullValue)
  /\ Of("parseNumber") => (answer = Len(input) + 1) = IsNumber(input)
  /\ Of("parseString") =>
       /\ answer.ok = IsLiteral(input)
       /\ answer.ok =>
            answer.chars =
              FlattenSeq([i \in 1..StringEnd(input) - 1 |-> Character(input, i)])
  /\ Of("decodeUriComponent") =>
       answer = FlattenSeq([i \in DOMAIN input |-> Decoded(input, i)])

(* The candidate is the decimal next to the given one, at its precision. *)
Stepped ==
  LET p == Len(input.digits)
  IN IF input.delta = 1
     THEN Adjacent(Number(input.digits), Number(answer.digits), 0, answer.exponent, p)
     ELSE Adjacent(Number(answer.digits), Number(input.digits), answer.exponent, 0, p)

(* What is written reads back as what it was: a heap is refused only when  *)
(* it holds something JSON cannot say, however its tables share and cycle; *)
(* a decoded text is writable again (save for a number too large for a     *)
(* double) and means the same; quoted strings and written decimals lose    *)
(* nothing; the candidate next to a rounded decimal is adjacent to it,     *)
(* borrows and carries included. Upwards from nines alone the code drops   *)
(* the carry that its comment describes (index.ts:191: "9.99 -> 10.0"):    *)
(* the candidate is not adjacent, but lies below the decimal, whose value  *)
(* was too small already, and so never reads back as the value.            *)
TextReadsBack ==
  /\ Of("encode") =>
       /\ answer.ok = IsWritable(input.heap, input.o)
       /\ answer.ok =>
            decode(answer.text,
                   [maxDepth |-> input.o.maxDepth, nullValue |-> Atom("null")]).value
              = Unfold(input.heap, Ref(1), input.o)
  /\ Of("decode") /\ answer.ok =>
       LET again == EncodedAgain(answer.value, input.o.maxDepth)
       IN /\ again.ok = ~HasHuge(answer.value)
          /\ again.ok =>
               Bare(decode(again.text, input.o).value) = Bare(answer.value)
  /\ Of("quoteString") => parseString(answer) = Unquoted(TRUE, input)
  /\ Of("formatNumber") =>
       Significant(answer) = input.digits /\ Point(answer) = input.point
  /\ Of("neighbour") =>
       IF input.delta = 1 /\ Range(input.digits) = {9}
       THEN answer.exponent <= 0 /\ Number(answer.digits) < Number(input.digits)
       ELSE Stepped

(* Data comes back from its Base64 text, which holds exactly its bits, and *)
(* text is refused exactly when a character is foreign, a byte is cut off, *)
(* or the padding is misplaced or does not complete the last group.        *)
Base64IsExact ==
  /\ Of("encode64") =>
       /\ decodeText(answer) = [ok |-> TRUE, bytes |-> input]
       /\ decodeText(encode64(input, FALSE)).bytes = input
       /\ Len(answer) % 4 = 0
       /\ SubSeq(Bits(Symbols(answer), 6), 1, 8 * Len(input)) = Bits(input, 8)
  /\ Of("decodeText") =>
       /\ answer.ok = IsBase64(input)
       /\ answer.ok => answer.bytes = Cut(Bits(Symbols(input), 6), 8)

(* The verdict depends on the bytes, not on how they were cut: a head is   *)
(* complete when a blank line ends it within both limits and refused when  *)
(* more than a limit has come without one; its lines are its lines, and    *)
(* what is left over of the last fragment is the start of the body.        *)
HeadIsItsBytes ==
  Of("push") =>
    LET text == FlattenSeq(input)
        lines == Lines(text)
        ends == LineEnds(text)
        blank == SelectInSeq(lines, LAMBDA l : l = <<>>)
        head == IF blank > 0 THEN SubSeq(lines, 1, blank - 1) ELSE lines
        within == {i \in DOMAIN head : ends[i] <= MaxHeaderBytes}
        crowded == Cardinality(within) > MaxHeaderCount + 1
        ended == blank > 0 /\ ends[blank] <= MaxHeaderBytes /\ ~crowded
    IN /\ (answer.kind = "complete") = ended
       /\ (answer.kind = "tooLarge") =
            (~ended /\ (crowded \/ Len(text) > MaxHeaderBytes))
       /\ ended =>
            /\ answer.lines = head
            /\ IsPrefix(answer.rest, SubSeq(text, ends[blank] + 1, Len(text)))
            /\ \E n \in 0..Len(input) :
                 ends[blank] + Len(answer.rest)
                   = Len(FlattenSeq(SubSeq(input, 1, n)))

(* A head is accepted exactly when nothing in it is at fault, with the one *)
(* length its headers agree on, and the status of a refusal names a fault  *)
(* the head has.                                                           *)
FramingIsDecided ==
  Of("complete") =>
    LET names == {input.headers[i].name : i \in DOMAIN input.headers}
        lengths == Range(Values(input.headers, "content-length"))
        fault ==
          [s \in {400, 413, 417, 501} |->
             CASE s = 400 -> \/ input.requestLine # "good"
                             \/ "no colon" \in names
                             \/ NotDecimal \in lengths
                             \/ Cardinality(lengths) > 1
                             \/ "transfer-encoding" \in names /\ lengths # {}
               [] s = 413 -> \E n \in lengths : n > MaxBodyBytes /\ n # NotDecimal
               [] s = 417 -> "expect" \in names
               [] s = 501 -> "transfer-encoding" \in names]
    IN IF \E s \in DOMAIN fault : fault[s]
       THEN answer.kind = "rejected" /\ fault[answer.status]
       ELSE answer = Complete(IF lengths = {} THEN 0
                              ELSE CHOOSE n \in lengths : TRUE)

(* The reader's fast reading of the request line is that of                *)
(* readRequestHead, odd lines included, and the parameters are the query's *)
(* (request-head-reader.ts:183).                                           *)
LinesReadAlike ==
  Of("requestLine") =>
    /\ answer = readRequestHead(input)
    /\ answer.ok = (" " \in Range(input))
    /\ answer.ok =>
         LET target == Before(Following(input, " "), " ")
         IN answer.path = Before(target, "?") /\ answer.parameters = QueryOf(target)

(* What the server makes of a request head: the three above. *)
HeadVerdict == HeadIsItsBytes /\ FramingIsDecided /\ LinesReadAlike

(* The caller's Lua runs only for a request that a page of a browser could *)
(* not have sent and that holds the installed token (no origin, the JSON   *)
(* media type, the bearer). Then the answer tells what became of it: an    *)
(* error of the protocol's own means that nothing ran; and it carries the  *)
(* id of the request. A trusted request is always answered by the service, *)
(* except with an id too large for a double: neither a result nor an error *)
(* can be encoded with it, and the caller gets a bare 500 (bridge.ts:182). *)
RpcTellsWhatHappened ==
  Of("rpc") =>
    LET request == input.request
    IN /\ answer.ran =>
            /\ ~request.headers.origin /\ request.headers.mediaType = "json"
            /\ request.headers.bearer = input.token /\ input.token # ""
            /\ \/ answer.status = 200
                  /\ answer.error \in {0, RuntimeError, ResultNotEncodable}
               \/ answer.status = 500 /\ request.body.id = "huge"
       /\ answer.status = 200 /\ request.body.form = "table" =>
            answer.id = IF request.body.id = "absent" THEN NoId
                                                      ELSE request.body.id
       /\ refuseUntrusted(request.headers, input.token) = 0 /\ answer.status # 200 =>
            answer.status = 500 /\ request.body.form = "table" /\ request.body.id = "huge"

-----------------------------------------------------------------------------
(* Tables are equal exactly when nothing in them tells them apart, however *)
(* they share and contain each other.                                      *)
EqualIsIndistinguishable ==
  Of("deepEqual") =>
    answer = IsIndistinguishable(input.heap, 1, 3, input.strict)
=============================================================================
