-------------------------- MODULE ApplicationProofs --------------------------
(***************************************************************************)
(* AppInv is an invariant of Application for every list of handlers, every *)
(* set of requests and every bound, and with it the properties of          *)
(* Application.                                                            *)
(***************************************************************************)
EXTENDS Application, InductionLemmas, SequenceTheorems

Entries == ToSet(Handlers)
Paths == {NoParams} \cup {Params(h, r) : h \in Entries, r \in Requests}

Frames == [req : Requests, idx : Nat, root : BOOLEAN, made : Nat]

Response == [status : {"200", "404", "500", "handler"}, type : {"none", "text", "json"},
             body : {"none", "text", "json", "500"}]

Exchanges == [state : {"waiting", "handling", "answered", "failed"}, stack : Seq(Entries),
              params : Paths, res : Response, sent : Response]

(* Every variable has its type. *)
AppTypeOK ==
  /\ registered \in 0..Len(Handlers)
  /\ custom \in BOOLEAN
  /\ calls \in Seq(Frames)
  /\ raised \in BOOLEAN
  /\ exchange \in [Requests -> Exchanges]
  /\ kept \subseteq Requests \X Nat
  /\ errors \subseteq Requests
  /\ runs \in Nat

(* The frames below the innermost one have called a next(), and only the   *)
(* outermost is handleRequest's.                                           *)
FrameInv ==
  /\ \A i \in 1..Len(calls) : calls[i].root => i = 1
  /\ \A i \in 1..Len(calls) : i < Len(calls) => calls[i].made > 0
  /\ raised => calls # <<>>

(* The sequences of entries registered for r's path and method. *)
StacksFor(r) == {t \in Seq(Entries) : \A i \in DOMAIN t : Selected(t[i], r)}

(* A frame other than the error handler's, and a next() a handler stored,  *)
(* stand for an entry of their request's stack, and every entry there is   *)
(* registered for the request's path and method.                           *)
RunsOwnStack ==
  /\ \A i \in 1..Len(calls) :
       calls[i].idx # ErrorFrame => calls[i].idx \in DOMAIN exchange[calls[i].req].stack
  /\ \A k \in kept : k[2] \in DOMAIN exchange[k[1]].stack
  /\ \A r \in Requests : exchange[r].stack \in StacksFor(r)

(* A request that has not been dispatched has no stack yet. *)
WaitingInv == \A r \in Requests : exchange[r].state = "waiting" => exchange[r].stack = <<>>

(* The innermost handler's parameters, also while an error unwinds. *)
ParamsInv ==
  calls # <<>> /\ Top.idx # ErrorFrame /\ Top.made = 0
    => exchange[Top.req].params = Params(exchange[Top.req].stack[Top.idx], Top.req)

Described(response) == response.type = "json" <=> response.body = "json"

(* MisdescribedIsRecorded, of the response while it is being written too. *)
DescribedInv ==
  \A r \in Requests : r \notin errors =>
    /\ Described(exchange[r].res)
    /\ exchange[r].state = "answered" => Described(exchange[r].sent)

AppInv ==
  /\ AppTypeOK
  /\ FrameInv
  /\ RunsOwnStack
  /\ WaitingInv
  /\ OneHandleRequest
  /\ ParamsInv
  /\ DescribedInv

-----------------------------------------------------------------------------
(* The stack a request gets. *)

LEMMA AppendedStack ==
  ASSUME NEW r, NEW t \in StacksFor(r), NEW h \in Entries, Selected(h, r)
  PROVE  Append(t, h) \in StacksFor(r)
<1>1. t \in Seq(Entries) /\ Append(t, h) \in Seq(Entries)
  BY DEF StacksFor
<1>2. /\ DOMAIN Append(t, h) = 1..Len(t) + 1 /\ DOMAIN t = 1..Len(t) /\ Len(t) \in Nat
      /\ \A i \in 1..Len(t) : Append(t, h)[i] = t[i]
      /\ Append(t, h)[Len(t) + 1] = h
  BY <1>1, AppendProperties, LenProperties
<1>3. ASSUME NEW i \in DOMAIN Append(t, h) PROVE Selected(Append(t, h)[i], r)
  <2>1. i \in 1..Len(t) \/ i = Len(t) + 1
    BY <1>2
  <2> QED BY <1>2, <2>1 DEF StacksFor
<1> QED BY <1>1, <1>3 DEF StacksFor

(* The filter keeps registered entries selected for r, and no others. *)
LEMMA StackFacts ==
  ASSUME AppTypeOK, NEW r \in Requests
  PROVE  /\ StackOf(r) \in StacksFor(r) /\ StackOf(r) \in Seq(Entries)
         /\ StackOf(r) # <<>> => 1 \in DOMAIN StackOf(r)
<1> DEFINE V == StacksFor(r)
           Kept(h, n) == h = [k \in 0..n |->
             IF k = 0 THEN <<>>
             ELSE IF Selected(Handlers[k], r) THEN Append(h[k - 1], Handlers[k])
             ELSE h[k - 1]]
           upTo == CHOOSE h : Kept(h, registered)
           step == [k \in 1..registered |-> [t \in V |->
             IF Selected(Handlers[k], r) THEN Append(t, Handlers[k]) ELSE t]]
<1>1. registered \in Nat /\ \A k \in 1..registered : Handlers[k] \in Entries
  <2>1. Handlers \in Seq(Entries) /\ registered \in 0..Len(Handlers)
    BY RegistrationAssumption DEF RegistrationAssumption, Entries, AppTypeOK
  <2> QED BY <2>1
<1>2. <<>> \in V
  BY DEF StacksFor
<1>3. step \in [1..registered -> [V -> V]]
  BY <1>1, AppendedStack
<1>4. StackOf(r) = upTo[registered]
  BY DEF StackOf
<1>5. ASSUME NEW k \in 1..registered, NEW t \in V
      PROVE  step[k][t] = IF Selected(Handlers[k], r) THEN Append(t, Handlers[k]) ELSE t
  OBVIOUS
<1> HIDE DEF step
<1>6. PICK g \in [0..registered -> V] : Recursion(registered, <<>>, step, g)
  BY <1>1, <1>2, <1>3, RecursionExists
<1>7. Kept(g, registered)
  <2> DEFINE value(k) ==
               IF k = 0 THEN <<>>
               ELSE IF Selected(Handlers[k], r) THEN Append(g[k - 1], Handlers[k])
               ELSE g[k - 1]
  <2>1. g = [k \in 0..registered |-> IF k = 0 THEN <<>> ELSE step[k][g[k - 1]]]
    BY <1>6 DEF Recursion
  <2>2. ASSUME NEW k \in 0..registered
        PROVE  value(k) = IF k = 0 THEN <<>> ELSE step[k][g[k - 1]]
    <3>1. k # 0 => k \in 1..registered /\ k - 1 \in 0..registered
      BY <1>1
    <3> QED BY <1>5, <3>1
  <2> HIDE DEF value
  <2>3. g = [k \in 0..registered |-> value(k)]
    BY <2>1, <2>2
  <2> QED BY <2>3 DEF value
<1>8. Kept(upTo, registered)
  <2> HIDE DEF Kept
  <2> QED BY <1>7
<1> HIDE DEF upTo
<1>9. upTo[0] = <<>> /\ \A n \in 1..registered :
        upTo[n] = IF Selected(Handlers[n], r) THEN Append(upTo[n - 1], Handlers[n])
                  ELSE upTo[n - 1]
  BY <1>1, <1>8, Predecessors
<1>10. \A n \in 0..registered : upTo[n] \in V
  <2>1. \A n \in 1..registered : upTo[n - 1] \in V => upTo[n] = step[n][upTo[n - 1]]
    BY <1>5, <1>9
  <2>2. upTo[0] \in V
    BY <1>2, <1>9
  <2> HIDE DEF V
  <2> QED BY <1>1, <1>3, <2>1, <2>2, RecursionStays
<1>11. StackOf(r) \in StacksFor(r)
  BY <1>1, <1>4, <1>10
<1>12. StackOf(r) \in Seq(Entries)
  BY <1>11 DEF StacksFor
<1>13. StackOf(r) # <<>> => 1 \in DOMAIN StackOf(r)
  BY <1>12, EmptySeq, LenProperties
<1> QED BY <1>11, <1>12, <1>13

-----------------------------------------------------------------------------
(* Frames and exchanges. *)

(* What the innermost frame is, and what is left when it goes. *)
LEMMA TopFacts ==
  ASSUME AppInv, calls # <<>>
  PROVE  /\ Len(calls) \in Nat /\ Len(calls) > 0 /\ Len(calls) \in 1..Len(calls)
         /\ Top = calls[Len(calls)] /\ Top \in Frames
         /\ Top.req \in Requests /\ Top.idx \in Nat /\ Top.root \in BOOLEAN /\ Top.made \in Nat
         /\ Top.root => Len(calls) = 1
         /\ Front(calls) \in Seq(Frames) /\ Len(Front(calls)) = Len(calls) - 1
         /\ \A i \in 1..Len(calls) - 1 : Front(calls)[i] = calls[i]
<1>1. calls \in Seq(Frames)
  BY DEF AppInv, AppTypeOK
<1>2. Len(calls) \in Nat /\ Len(calls) > 0 /\ Len(calls) \in 1..Len(calls)
  BY <1>1, EmptySeq, LenProperties
<1>3. Top = calls[Len(calls)] /\ Top \in Frames
  BY <1>1, <1>2 DEF Top, Last
<1>4. Top.root => Len(calls) = 1
  BY <1>2, <1>3 DEF AppInv, FrameInv
<1>5. /\ Front(calls) \in Seq(Frames) /\ Len(Front(calls)) = Len(calls) - 1
      /\ \A i \in 1..Len(calls) - 1 : Front(calls)[i] = calls[i]
  <2> DEFINE n == Len(calls) - 1
  <2>1. n \in Nat /\ 1 \in Int /\ \A i \in 1..n : calls[i] \in Frames
    BY <1>1, <1>2
  <2>2. /\ SubSeq(calls, 1, n) \in Seq(Frames)
        /\ Len(SubSeq(calls, 1, n)) = IF 1 <= n THEN n - 1 + 1 ELSE 0
        /\ \A i \in 1..n - 1 + 1 : SubSeq(calls, 1, n)[i] = calls[1 + i - 1]
    <3> HIDE DEF n
    <3> QED BY <2>1, SubSeqProperties
  <2>3. /\ (IF 1 <= n THEN n - 1 + 1 ELSE 0) = n /\ n - 1 + 1 = n
        /\ \A i \in 1..n : 1 + i - 1 = i
    <3> HIDE DEF n
    <3> QED BY <2>1
  <2>4. Front(calls) = SubSeq(calls, 1, n)
    BY DEF Front
  <2> HIDE DEF n
  <2>5. /\ Front(calls) \in Seq(Frames) /\ Len(Front(calls)) = n
        /\ \A i \in 1..n : Front(calls)[i] = calls[i]
    BY <2>2, <2>3, <2>4
  <2> QED BY <2>5 DEF n
<1> QED BY <1>2, <1>3, <1>4, <1>5 DEF Frames

(* The call stack s holds the frames of calls, all of which have called a  *)
(* next().                                                                 *)
LikeCalls(s) ==
  /\ s \in Seq(Frames) /\ Len(s) = Len(calls)
  /\ \A i \in 1..Len(calls) : /\ s[i].req = calls[i].req /\ s[i].idx = calls[i].idx
                              /\ s[i].root = calls[i].root /\ s[i].made > 0

LEMMA CallingFacts == ASSUME AppInv, calls # <<>> PROVE LikeCalls(Calling)
<1> DEFINE k == Len(calls)
           f == [Top EXCEPT !.made = Top.made + 1]
<1>1. calls \in Seq(Frames) /\ k \in 1..Len(calls) /\ Top = calls[k] /\ Top \in Frames
  BY TopFacts DEF AppInv, AppTypeOK
<1>2. /\ f \in Frames /\ f.req = Top.req /\ f.idx = Top.idx /\ f.root = Top.root
      /\ f.made > 0
  BY <1>1 DEF Frames
<1>3. Calling = [calls EXCEPT ![k] = f]
  BY <1>1 DEF Calling
<1> HIDE DEF f
<1>4. Calling \in Seq(Frames) /\ Len(Calling) = Len(calls)
  BY <1>1, <1>2, <1>3, ExceptSeq
<1>5. ASSUME NEW i \in 1..Len(calls) PROVE Calling[i] = IF i = k THEN f ELSE calls[i]
  BY <1>1, <1>3, LenProperties
<1>6. \A i \in 1..Len(calls) : i # k => calls[i].made > 0
  BY <1>1 DEF AppInv, FrameInv
<1> HIDE DEF k
<1> QED BY <1>1, <1>2, <1>4, <1>5, <1>6 DEF LikeCalls

(* Every exchange keeps its state, its stack and its answer. *)
KeepsCourse ==
  \A r \in Requests : /\ exchange'[r].state = exchange[r].state
                      /\ exchange'[r].stack = exchange[r].stack
                      /\ exchange'[r].sent = exchange[r].sent

LEMMA WriteFacts ==
  ASSUME AppTypeOK, NEW r \in Requests, NEW v \in Response,
         exchange' = [exchange EXCEPT ![r].res = v]
  PROVE  /\ exchange' \in [Requests -> Exchanges] /\ KeepsCourse
         /\ \A x \in Requests : exchange'[x].params = exchange[x].params
         /\ \A x \in Requests \ {r} : exchange'[x] = exchange[x]
         /\ exchange'[r].res = v
BY DEF AppTypeOK, Exchanges, KeepsCourse

LEMMA ParamsFacts ==
  ASSUME AppTypeOK, NEW r \in Requests, NEW i \in DOMAIN exchange[r].stack,
         exchange' = [exchange EXCEPT ![r].params = ParamsAt(r, i)]
  PROVE  /\ exchange' \in [Requests -> Exchanges] /\ KeepsCourse
         /\ \A x \in Requests : exchange'[x].res = exchange[x].res
         /\ exchange'[r].params = Params(exchange[r].stack[i], r)
<1>1. ParamsAt(r, i) \in Paths
  <2>1. exchange[r].stack \in Seq(Entries)
    BY DEF AppTypeOK, Exchanges
  <2>2. exchange[r].stack[i] \in Entries
    BY <2>1
  <2> QED BY <2>2 DEF ParamsAt, Paths
<1>2. ParamsAt(r, i) = Params(exchange[r].stack[i], r)
  BY DEF ParamsAt
<1> QED BY <1>1, <1>2 DEF AppTypeOK, Exchanges, KeepsCourse

-----------------------------------------------------------------------------
(* AppInv, step by step. *)

(* A step that starts, ends and answers nothing: the frames stay, the      *)
(* innermost perhaps having called a next(), and the exchanges keep their  *)
(* course.                                                                 *)
LEMMA StayInv ==
  ASSUME AppInv, AppTypeOK', calls' = calls \/ LikeCalls(calls'),
         raised' => calls # <<>>, KeepsCourse,
         \A r \in Requests : exchange'[r].params = exchange[r].params,
         RunsOwnStack', DescribedInv'
  PROVE  AppInv'
<1>1. calls \in Seq(Frames) /\ calls' \in Seq(Frames)
  BY DEF AppInv, AppTypeOK
<1>2. /\ Len(calls') = Len(calls) /\ Len(calls) \in Nat
      /\ \A i \in 1..Len(calls) : /\ calls'[i].req = calls[i].req
                                  /\ calls'[i].idx = calls[i].idx
                                  /\ calls'[i].root = calls[i].root
                                  /\ calls'[i].made = calls[i].made \/ calls'[i].made > 0
  BY <1>1 DEF LikeCalls
<1>3. calls = <<>> <=> calls' = <<>>
  BY <1>1, <1>2, EmptySeq
<1>4. FrameInv'
  BY <1>2, <1>3 DEF AppInv, FrameInv
<1>5. WaitingInv'
  BY DEF AppInv, WaitingInv, KeepsCourse
<1>6. OneHandleRequest'
  <2>1. calls # <<>> => 1 \in 1..Len(calls)
    BY <1>1, <1>2, EmptySeq
  <2>2. \A i \in DOMAIN calls' : calls'[i].root => i = 1
    <3>1. DOMAIN calls' = 1..Len(calls) /\ DOMAIN calls = 1..Len(calls)
      BY <1>1, <1>2, LenProperties
    <3> QED BY <1>2, <3>1 DEF AppInv, OneHandleRequest
  <2>3. \A r \in Requests :
          exchange'[r].state = "handling" <=> calls' # <<>> /\ calls'[1].root /\ calls'[1].req = r
    BY <1>2, <1>3, <2>1 DEF AppInv, OneHandleRequest, KeepsCourse
  <2> QED BY <2>2, <2>3 DEF OneHandleRequest
<1>7. ParamsInv'
  <2> SUFFICES ASSUME calls' # <<>>, Top'.idx # ErrorFrame, Top'.made = 0
               PROVE  exchange'[Top'.req].params
                        = Params(exchange'[Top'.req].stack[Top'.idx], Top'.req)
    BY DEF ParamsInv
  <2>1. calls # <<>> /\ Len(calls) \in 1..Len(calls) /\ Top = calls[Len(calls)]
    BY <1>3, TopFacts
  <2>2. Top' = calls'[Len(calls)]
    BY <1>2 DEF Top, Last
  <2>3. ~ LikeCalls(calls')
    BY <2>1, <2>2 DEF LikeCalls
  <2>4. Top' = Top /\ Top.req \in Requests
    BY <2>1, <2>2, <2>3, TopFacts
  <2> QED BY <2>1, <2>4 DEF AppInv, ParamsInv, KeepsCourse
<1> QED BY <1>4, <1>5, <1>6, <1>7 DEF AppInv

(* What it stores stands for an entry of a stack. *)
LEMMA StayStack ==
  ASSUME AppInv, AppTypeOK', calls' = calls \/ LikeCalls(calls'), KeepsCourse,
         \A k \in kept' : k[2] \in DOMAIN exchange[k[1]].stack
  PROVE  RunsOwnStack'
<1>1. calls \in Seq(Frames) /\ calls' \in Seq(Frames)
  BY DEF AppInv, AppTypeOK
<1>2. \A i \in 1..Len(calls) : calls[i].req \in Requests
  <2>1. \A i \in 1..Len(calls) : calls[i] \in Frames
    BY <1>1
  <2> QED BY <2>1 DEF Frames
<1>3. /\ Len(calls') = Len(calls)
      /\ \A i \in 1..Len(calls) : calls'[i].req = calls[i].req /\ calls'[i].idx = calls[i].idx
  BY <1>1 DEF LikeCalls
<1>4. \A i \in 1..Len(calls') :
        calls'[i].idx # ErrorFrame => calls'[i].idx \in DOMAIN exchange'[calls'[i].req].stack
  BY <1>2, <1>3 DEF AppInv, RunsOwnStack, KeepsCourse
<1>5. \A k \in kept' : k[2] \in DOMAIN exchange'[k[1]].stack
  <2>1. \A k \in kept' : k[1] \in Requests
    BY DEF AppTypeOK
  <2> QED BY <2>1 DEF KeepsCourse
<1>6. \A r \in Requests : exchange'[r].stack \in StacksFor(r)
  BY DEF AppInv, RunsOwnStack, KeepsCourse
<1> QED BY <1>4, <1>5, <1>6 DEF RunsOwnStack, Requests, ErrorFrame

(* A step that touches no exchange. *)
LEMMA UntouchedInv ==
  ASSUME AppInv, AppTypeOK', calls' = calls \/ LikeCalls(calls'),
         raised' => calls # <<>>, exchange' = exchange, errors' = errors,
         \A k \in kept' : k[2] \in DOMAIN exchange[k[1]].stack
  PROVE  AppInv' /\ KeepsCourse
<1>1. KeepsCourse
  BY DEF KeepsCourse
<1>2. RunsOwnStack'
  BY <1>1, StayStack
<1>3. DescribedInv'
  BY DEF AppInv, DescribedInv
<1> QED BY <1>1, <1>2, <1>3, StayInv

LEMMA ActInv == ASSUME AppInv, Act PROVE AppInv' /\ KeepsCourse
<1> DEFINE r == Top.req
<1>1. /\ calls # <<>> /\ calls' = calls /\ kept' = kept /\ registered' = registered
      /\ custom' = custom /\ runs' = runs /\ AppTypeOK /\ r \in Requests
      /\ exchange[r].res \in Response
  BY TopFacts DEF Act, Running, AppInv, AppTypeOK, Exchanges
<1>2. CASE Throw
  <2>1. exchange' = exchange /\ errors' = errors /\ raised' = TRUE
    BY <1>2 DEF Throw
  <2>2. AppTypeOK'
    BY <1>1, <2>1 DEF AppTypeOK
  <2> QED BY <1>1, <2>1, <2>2, UntouchedInv DEF AppInv, RunsOwnStack
<1>3. ASSUME NEW v \in Response, Write(v), raised' \in BOOLEAN,
             errors' \subseteq Requests, errors \subseteq errors', Described(v) \/ r \in errors'
      PROVE  AppInv' /\ KeepsCourse
  <2>1. exchange' = [exchange EXCEPT ![r].res = v]
    BY <1>3 DEF Write
  <2> HIDE DEF r
  <2>2. /\ exchange' \in [Requests -> Exchanges] /\ KeepsCourse
        /\ \A x \in Requests : exchange'[x].params = exchange[x].params
        /\ \A x \in Requests \ {r} : exchange'[x] = exchange[x]
        /\ exchange'[r].res = v
    BY <1>1, <2>1, WriteFacts
  <2>3. AppTypeOK'
    BY <1>1, <1>3, <2>2 DEF AppTypeOK
  <2>4. RunsOwnStack'
    BY <1>1, <2>2, <2>3, StayStack DEF AppInv, RunsOwnStack
  <2>5. DescribedInv'
    BY <1>1, <1>3, <2>2 DEF AppInv, DescribedInv, KeepsCourse, Described
  <2> QED BY <1>1, <2>2, <2>3, <2>4, <2>5, StayInv
<1>4. res = exchange[r].res /\ res \in Response
  BY <1>1 DEF res
<1>5. errors \subseteq Requests /\ raised \in BOOLEAN
  BY <1>1 DEF AppTypeOK
<1>6. CASE SetStatus
  <2> DEFINE v == [res EXCEPT !.status = "handler"]
  <2>1. v \in Response /\ v.type = res.type /\ v.body = res.body
    BY <1>4 DEF Response
  <2>2. Write(v) /\ raised' = raised /\ errors' = errors
    BY <1>6 DEF SetStatus
  <2>3. Described(v) \/ r \in errors
    BY <1>1, <1>4, <2>1 DEF AppInv, DescribedInv, Described
  <2> HIDE DEF v
  <2> QED BY <1>3, <1>5, <2>1, <2>2, <2>3
<1>7. CASE Send
  <2> DEFINE v == [res EXCEPT !.type = "text", !.body = "text"]
  <2>1. v \in Response /\ v.type = "text" /\ v.body = "text"
    BY <1>4 DEF Response
  <2>2. Write(v) /\ raised' = raised /\ errors' = errors
    BY <1>7 DEF Send
  <2> HIDE DEF v
  <2> QED BY <1>3, <1>5, <2>1, <2>2 DEF Described
<1>8. CASE Json
  <2> DEFINE v == [res EXCEPT !.type = "json", !.body = "json"]
  <2>1. v \in Response /\ v.type = "json" /\ v.body = "json"
    BY <1>4 DEF Response
  <2>2. Write(v) /\ raised' = raised /\ errors' = errors
    BY <1>8 DEF Json
  <2> HIDE DEF v
  <2> QED BY <1>3, <1>5, <2>1, <2>2 DEF Described
<1>9. CASE JsonFails
  <2> DEFINE v == [res EXCEPT !.type = "json"]
  <2>1. v \in Response
    BY <1>4 DEF Response
  <2>2. Write(v) /\ raised' = TRUE /\ errors' = errors \union {r}
    BY <1>9 DEF JsonFails
  <2> HIDE DEF v
  <2>3. errors' \subseteq Requests /\ errors \subseteq errors' /\ r \in errors'
    BY <1>1, <1>5, <2>2
  <2> QED BY <1>3, <2>1, <2>2, <2>3
<1> QED BY <1>2, <1>6, <1>7, <1>8, <1>9 DEF Act

(* next() of handler i of request r, called where the call stack is below. *)
LEMMA RunNextInv ==
  ASSUME AppInv, NEW r \in Requests, NEW i \in DOMAIN exchange[r].stack, NEW below,
         LikeCalls(below), ~raised, RunNext(r, i, below),
         UNCHANGED <<registered, custom, raised, kept, errors>>
  PROVE  AppInv' /\ KeepsCourse
<1>1. /\ below \in Seq(Frames) /\ i \in Nat /\ Len(calls) \in Nat /\ Len(below) = Len(calls)
      /\ AppTypeOK /\ calls \in Seq(Frames)
  <2>1. exchange[r].stack \in Seq(Entries) /\ calls \in Seq(Frames)
    BY DEF AppInv, AppTypeOK, Exchanges
  <2> QED BY <2>1 DEF AppInv, LikeCalls
<1>2. CASE ~ItemExists(r, i + 1)
  <2>1. calls' = below /\ exchange' = exchange /\ runs' = runs
    BY <1>2 DEF RunNext
  <2>2. AppTypeOK'
    BY <1>1, <2>1 DEF AppTypeOK
  <2> QED BY <2>1, <2>2, UntouchedInv DEF AppInv, RunsOwnStack
<1>3. CASE ItemExists(r, i + 1)
  <2> DEFINE f == Frame(r, i + 1, FALSE)
             n == Len(calls)
  <2>1. /\ exchange' = [exchange EXCEPT ![r].params = ParamsAt(r, i + 1)]
        /\ calls' = Append(below, f) /\ runs' = runs + 1
        /\ i + 1 \in DOMAIN exchange[r].stack
    BY <1>3 DEF RunNext, ItemExists
  <2>2. /\ exchange' \in [Requests -> Exchanges] /\ KeepsCourse
        /\ \A x \in Requests : exchange'[x].res = exchange[x].res
        /\ exchange'[r].params = Params(exchange[r].stack[i + 1], r)
    BY <1>1, <2>1, ParamsFacts
  <2>3. /\ f \in Frames /\ f.req = r /\ f.idx = i + 1 /\ f.root = FALSE /\ f.made = 0
    BY <1>1 DEF Frame, Frames
  <2> HIDE DEF f
  <2>4. /\ calls' \in Seq(Frames) /\ Len(calls') = n + 1
        /\ \A j \in 1..n : calls'[j] = below[j]
        /\ calls'[n + 1] = f
    BY <1>1, <2>1, <2>3, AppendProperties
  <2>5. /\ \A j \in 1..n : /\ calls'[j].req = calls[j].req /\ calls'[j].idx = calls[j].idx
                           /\ calls'[j].root = calls[j].root /\ calls'[j].made > 0
        /\ \A j \in 1..n : calls[j].req \in Requests
        /\ n \in Nat /\ \A j \in 1..n + 1 : j \in 1..n \/ j = n + 1
    <3>1. \A j \in 1..n : calls[j] \in Frames
      BY <1>1
    <3>2. \A j \in 1..n : calls[j].req \in Requests
      BY <3>1 DEF Frames
    <3> QED BY <1>1, <2>4, <3>2 DEF LikeCalls
  <2>6. calls' # <<>> /\ DOMAIN calls' = 1..n + 1 /\ DOMAIN calls = 1..n
    BY <1>1, <2>4, <2>5, EmptySeq, LenProperties
  <2>7. AppTypeOK'
    BY <1>1, <2>1, <2>2, <2>4 DEF AppTypeOK
  <2> HIDE DEF n
  <2>8. FrameInv'
    BY <2>3, <2>4, <2>5, <2>6 DEF AppInv, FrameInv, n
  <2>9. RunsOwnStack'
    <3>1. \A j \in 1..n : calls'[j].idx # ErrorFrame =>
            calls'[j].idx \in DOMAIN exchange'[calls'[j].req].stack
      BY <2>2, <2>5 DEF AppInv, RunsOwnStack, KeepsCourse, n
    <3>2. f.idx \in DOMAIN exchange'[f.req].stack
      BY <2>1, <2>2, <2>3 DEF KeepsCourse
    <3>3. \A k \in kept' : k[2] \in DOMAIN exchange'[k[1]].stack
      BY <1>1, <2>2 DEF AppInv, AppTypeOK, RunsOwnStack, KeepsCourse
    <3>4. \A x \in Requests : exchange'[x].stack \in StacksFor(x)
      BY <2>2 DEF AppInv, RunsOwnStack, KeepsCourse
    <3>5. \A j \in 1..Len(calls') : calls'[j].idx # ErrorFrame =>
            calls'[j].idx \in DOMAIN exchange'[calls'[j].req].stack
      BY <2>4, <2>5, <3>1, <3>2
    <3> QED BY <3>3, <3>4, <3>5 DEF RunsOwnStack, Requests, ErrorFrame
  <2>10. WaitingInv'
    BY <2>2 DEF AppInv, WaitingInv, KeepsCourse
  <2>11. OneHandleRequest'
    <3>1. \A j \in DOMAIN calls' : calls'[j].root => j = 1
      BY <2>3, <2>4, <2>5, <2>6 DEF AppInv, OneHandleRequest
    <3>2. CASE n = 0
      <4>1. calls = <<>> /\ calls'[1] = f
        BY <1>1, <2>4, <3>2, EmptySeq DEF n
      <4> QED BY <2>2, <2>3, <2>6, <3>1, <4>1 DEF AppInv, OneHandleRequest, KeepsCourse
    <3>3. CASE n # 0
      <4>1. calls # <<>> /\ 1 \in 1..n
        BY <1>1, <2>5, <3>3, EmptySeq DEF n
      <4>2. calls'[1].root = calls[1].root /\ calls'[1].req = calls[1].req
        BY <2>5, <4>1
      <4> QED BY <2>2, <2>6, <3>1, <4>1, <4>2 DEF AppInv, OneHandleRequest, KeepsCourse
    <3> QED BY <3>2, <3>3
  <2>12. ParamsInv'
    <3>1. Top' = f
      BY <2>4 DEF Top, Last
    <3> QED BY <2>2, <2>3, <3>1 DEF ParamsInv, KeepsCourse
  <2>13. DescribedInv'
    BY <2>2 DEF AppInv, DescribedInv, KeepsCourse, Described
  <2> QED BY <2>2, <2>7, <2>8, <2>9, <2>10, <2>11, <2>12, <2>13 DEF AppInv
<1> QED BY <1>2, <1>3

LEMMA CallNextInv == ASSUME AppInv, CallNext PROVE AppInv' /\ KeepsCourse
<1>1. /\ calls # <<>> /\ ~raised /\ Top.idx # ErrorFrame
      /\ RunNext(Top.req, Top.idx, Calling)
      /\ UNCHANGED <<registered, custom, raised, kept, errors>>
  BY DEF CallNext, InHandler, Running
<1>2. LikeCalls(Calling)
  BY <1>1, CallingFacts
<1>3. Top.req \in Requests /\ Top.idx \in DOMAIN exchange[Top.req].stack
  BY <1>1, TopFacts DEF AppInv, RunsOwnStack
<1> QED BY <1>1, <1>2, <1>3, RunNextInv

LEMMA CallNextWithErrorInv == ASSUME AppInv, CallNextWithError PROVE AppInv' /\ KeepsCourse
<1>1. /\ calls # <<>> /\ raised' = TRUE /\ calls' = Calling
      /\ UNCHANGED <<registered, custom, exchange, kept, errors, runs>>
  BY DEF CallNextWithError, InHandler, Running
<1>2. LikeCalls(calls')
  BY <1>1, CallingFacts
<1>3. AppTypeOK'
  BY <1>1, <1>2 DEF AppInv, AppTypeOK, LikeCalls
<1> QED BY <1>1, <1>2, <1>3, UntouchedInv DEF AppInv, RunsOwnStack

LEMMA KeepNextInv == ASSUME AppInv, KeepNext PROVE AppInv' /\ KeepsCourse
<1>1. /\ calls # <<>> /\ ~raised /\ Top.idx # ErrorFrame
      /\ kept' = kept \union {<<Top.req, Top.idx>>}
      /\ UNCHANGED <<registered, custom, calls, raised, exchange, errors, runs>>
  BY DEF KeepNext, InHandler, Running
<1>2. /\ Top.req \in Requests /\ Top.idx \in Nat
      /\ Top.idx \in DOMAIN exchange[Top.req].stack
  BY <1>1, TopFacts DEF AppInv, RunsOwnStack
<1>3. AppTypeOK'
  BY <1>1, <1>2 DEF AppInv, AppTypeOK
<1>4. \A k \in kept' : k[2] \in DOMAIN exchange[k[1]].stack
  BY <1>1, <1>2 DEF AppInv, RunsOwnStack
<1> QED BY <1>1, <1>3, <1>4, UntouchedInv

LEMMA CallKeptNextInv ==
  ASSUME AppInv, NEW k \in kept, CallKeptNext(k) PROVE AppInv' /\ KeepsCourse
<1>1. /\ calls # <<>> /\ ~raised /\ RunNext(k[1], k[2], Calling)
      /\ UNCHANGED <<registered, custom, raised, kept, errors>>
  BY DEF CallKeptNext, Running
<1>2. LikeCalls(Calling)
  BY <1>1, CallingFacts
<1>3. k[1] \in Requests /\ k[2] \in DOMAIN exchange[k[1]].stack
  BY DEF AppInv, AppTypeOK, RunsOwnStack
<1> QED BY <1>1, <1>2, <1>3, RunNextInv

LEMMA LateNextInv ==
  ASSUME AppInv, NEW k \in kept, LateNext(k) PROVE AppInv' /\ KeepsCourse
<1>1. /\ calls = <<>> /\ RunNext(k[1], k[2], <<>>)
      /\ UNCHANGED <<registered, custom, raised, kept, errors>>
  BY DEF LateNext
<1>2. ~raised /\ LikeCalls(<<>>)
  BY <1>1 DEF AppInv, FrameInv, LikeCalls
<1>3. k[1] \in Requests /\ k[2] \in DOMAIN exchange[k[1]].stack
  BY DEF AppInv, AppTypeOK, RunsOwnStack
<1> QED BY <1>1, <1>2, <1>3, RunNextInv

(* Catching an error, registering a handler and replacing the error handler *)
(* touch no frame and no exchange.                                          *)
LEMMA AsideInv ==
  ASSUME AppInv, Catch \/ Register \/ UseGlobalErrorHandler
  PROVE  AppInv' /\ KeepsCourse
<1>1. /\ UNCHANGED <<calls, exchange, kept, errors, runs>>
      /\ raised' = raised \/ raised' = FALSE
      /\ registered' = registered \/ (registered < Len(Handlers) /\ registered' = registered + 1)
      /\ custom' = custom \/ custom' = TRUE
  BY DEF Catch, Register, UseGlobalErrorHandler
<1>2. Len(Handlers) \in Nat
  BY RegistrationAssumption, LenProperties DEF RegistrationAssumption
<1>3. AppTypeOK'
  <2>1. registered' \in 0..Len(Handlers)
    BY <1>1, <1>2 DEF AppInv, AppTypeOK
  <2>2. custom' \in BOOLEAN /\ raised' \in BOOLEAN
    BY <1>1 DEF AppInv, AppTypeOK
  <2> QED BY <1>1, <2>1, <2>2 DEF AppInv, AppTypeOK
<1>4. raised' => calls # <<>>
  BY <1>1 DEF AppInv, FrameInv
<1> QED BY <1>1, <1>3, <1>4, UntouchedInv DEF AppInv, RunsOwnStack

-----------------------------------------------------------------------------
(* The steps that start and end a request. *)

(* What AnsweredOnce says of one step. *)
AnswersStay ==
  \A r \in Requests : exchange[r].state \in {"answered", "failed"}
    => UNCHANGED <<exchange[r].state, exchange[r].sent>>

LEMMA HandleRequestInv ==
  ASSUME AppInv, NEW r \in Requests, HandleRequest(r) PROVE AppInv' /\ AnswersStay
<1> DEFINE stack == StackOf(r)
           fresh == [NewResponse EXCEPT !.status = InitialStatus(stack)]
<1>1. /\ calls = <<>> /\ exchange[r].state = "waiting" /\ AppTypeOK
      /\ UNCHANGED <<registered, custom, raised, kept, errors>>
  BY DEF HandleRequest, AppInv
<1>2. /\ stack \in StacksFor(r) /\ stack \in Seq(Entries)
      /\ stack # <<>> => 1 \in DOMAIN stack
  BY <1>1, StackFacts
<1>3. fresh \in Response /\ fresh.type = "none" /\ fresh.body = "none"
  BY DEF NewResponse, InitialStatus, Response
<1>4. CASE stack = <<>>
  <2>1. /\ exchange' = [exchange EXCEPT ![r] = Answered(exchange[r], fresh)]
        /\ calls' = calls /\ runs' = runs
    BY <1>4 DEF HandleRequest
  <2> HIDE DEF stack, fresh
  <2> DEFINE x == Answered(exchange[r], fresh)
  <2>2. /\ x \in Exchanges /\ x.state = "answered" /\ x.stack = exchange[r].stack
        /\ x.res = fresh /\ x.sent = fresh
    BY <1>1, <1>3 DEF AppTypeOK, Exchanges, Answered
  <2> HIDE DEF x
  <2>3. /\ exchange' \in [Requests -> Exchanges] /\ exchange'[r] = x
        /\ \A y \in Requests \ {r} : exchange'[y] = exchange[y]
    BY <1>1, <2>1, <2>2 DEF AppTypeOK, x
  <2>4. AppTypeOK'
    BY <1>1, <2>1, <2>3 DEF AppTypeOK
  <2>5. FrameInv' /\ ParamsInv'
    BY <1>1, <2>1 DEF AppInv, FrameInv, ParamsInv
  <2>6. RunsOwnStack'
    <3>1. \A y \in Requests : exchange'[y].stack = exchange[y].stack
      BY <2>2, <2>3
    <3> QED BY <1>1, <2>1, <3>1 DEF AppInv, RunsOwnStack, AppTypeOK
  <2>7. WaitingInv'
    BY <2>2, <2>3 DEF AppInv, WaitingInv
  <2>8. OneHandleRequest'
    BY <1>1, <2>1, <2>2, <2>3 DEF AppInv, OneHandleRequest
  <2>9. DescribedInv'
    BY <1>1, <1>3, <2>2, <2>3 DEF AppInv, DescribedInv, Described
  <2>10. AnswersStay
    BY <1>1, <2>3 DEF AnswersStay
  <2> QED BY <2>4, <2>5, <2>6, <2>7, <2>8, <2>9, <2>10 DEF AppInv
<1>5. CASE stack # <<>>
  <2> DEFINE x == [exchange[r] EXCEPT !.state = "handling", !.stack = stack, !.res = fresh,
                                      !.params = Params(stack[1], r)]
             f == Frame(r, 1, TRUE)
  <2>1. /\ exchange' = [exchange EXCEPT ![r] = x]
        /\ calls' = <<f>> /\ runs' = runs + 1
    BY <1>5 DEF HandleRequest
  <2> HIDE DEF stack, fresh
  <2>2. Params(stack[1], r) \in Paths
    BY <1>2, <1>5 DEF Paths
  <2>3. /\ x \in Exchanges /\ x.state = "handling" /\ x.stack = stack
        /\ x.res = fresh /\ x.params = Params(stack[1], r)
    BY <1>1, <1>2, <1>3, <2>2 DEF AppTypeOK, Exchanges
  <2>4. f \in Frames /\ f.req = r /\ f.idx = 1 /\ f.root = TRUE
    BY DEF Frame, Frames
  <2> HIDE DEF x, f
  <2>5. /\ exchange' \in [Requests -> Exchanges] /\ exchange'[r] = x
        /\ \A y \in Requests \ {r} : exchange'[y] = exchange[y]
    BY <1>1, <2>1, <2>3 DEF AppTypeOK
  <2>6. /\ calls' \in Seq(Frames) /\ Len(calls') = 1 /\ calls'[1] = f /\ calls' # <<>>
        /\ DOMAIN calls' = 1..1
    BY <2>1, <2>4
  <2>7. AppTypeOK'
    BY <1>1, <2>1, <2>5, <2>6 DEF AppTypeOK
  <2>8. FrameInv'
    BY <2>6 DEF FrameInv
  <2>9. RunsOwnStack'
    <3>1. \A k \in kept : k[1] \in Requests /\ k[1] # r
      BY <1>1 DEF AppInv, AppTypeOK, RunsOwnStack, WaitingInv
    <3>2. \A k \in kept' : k[2] \in DOMAIN exchange'[k[1]].stack
      BY <1>1, <2>5, <3>1 DEF AppInv, RunsOwnStack
    <3>3. \A y \in Requests : exchange'[y].stack \in StacksFor(y)
      BY <1>2, <2>3, <2>5 DEF AppInv, RunsOwnStack
    <3>4. \A i \in 1..Len(calls') : calls'[i].idx \in DOMAIN exchange'[calls'[i].req].stack
      BY <1>2, <1>5, <2>3, <2>4, <2>5, <2>6
    <3> QED BY <3>2, <3>3, <3>4 DEF RunsOwnStack, Requests, ErrorFrame
  <2>10. WaitingInv'
    BY <2>3, <2>5 DEF AppInv, WaitingInv
  <2>11. OneHandleRequest'
    BY <1>1, <2>3, <2>4, <2>5, <2>6 DEF AppInv, OneHandleRequest
  <2>12. ParamsInv'
    <3>1. Top' = f
      BY <2>6 DEF Top, Last
    <3> QED BY <2>3, <2>4, <2>5, <3>1 DEF ParamsInv
  <2>13. DescribedInv'
    BY <1>1, <1>3, <2>3, <2>5 DEF AppInv, DescribedInv, Described
  <2>14. AnswersStay
    BY <1>1, <2>5 DEF AnswersStay
  <2> QED BY <2>7, <2>8, <2>9, <2>10, <2>11, <2>12, <2>13, <2>14 DEF AppInv
<1> QED BY <1>4, <1>5

(* The innermost frame goes; when it is handleRequest's, its request ends. *)
LEMMA PopInv ==
  ASSUME AppInv, calls # <<>>, calls' = Front(calls), NEW x \in Exchanges,
         raised' \in BOOLEAN, raised' => Len(calls) > 1,
         UNCHANGED <<registered, custom, kept, errors, runs>>,
         IF Top.root THEN exchange' = [exchange EXCEPT ![Top.req] = x]
                     ELSE exchange' = exchange,
         x.state \in {"answered", "failed"}, x.stack = exchange[Top.req].stack,
         Top.req \notin errors =>
           Described(x.res) /\ (x.state = "answered" => Described(x.sent))
  PROVE  AppInv' /\ AnswersStay
<1> DEFINE n == Len(calls)
           q == Top.req
<1>1. /\ AppTypeOK /\ calls \in Seq(Frames) /\ n \in Nat /\ n > 0
      /\ q \in Requests /\ Top = calls[n]
      /\ Top.root => n = 1
  BY TopFacts DEF AppInv, AppTypeOK
<1>2. /\ calls' \in Seq(Frames) /\ Len(calls') = n - 1
      /\ \A i \in 1..n - 1 : calls'[i] = calls[i]
  BY TopFacts
<1>3. /\ DOMAIN calls' = 1..n - 1 /\ DOMAIN calls = 1..n
      /\ calls' = <<>> <=> n = 1
  BY <1>1, <1>2, EmptySeq, LenProperties
<1>4. /\ exchange' \in [Requests -> Exchanges]
      /\ \A y \in Requests : exchange'[y].stack = exchange[y].stack
      /\ \A y \in Requests \ {q} : exchange'[y] = exchange[y]
      /\ Top.root => exchange'[q] = x
      /\ ~Top.root => exchange'[q] = exchange[q]
  BY <1>1 DEF AppTypeOK
<1>5. \A y \in Requests :
        exchange[y].state = "handling" <=> calls[1].root /\ calls[1].req = y
  BY DEF AppInv, OneHandleRequest
<1>6. Top.root => exchange[q].state = "handling"
  BY <1>1, <1>5
<1> HIDE DEF n, q
<1>7. AppTypeOK'
  BY <1>1, <1>2, <1>4 DEF AppTypeOK
<1>8. FrameInv'
  <2>1. raised' => calls' # <<>>
    BY <1>1, <1>3 DEF n
  <2>2. /\ \A i \in 1..n : calls[i].root => i = 1
        /\ \A i \in 1..n : i < n => calls[i].made > 0
    BY DEF AppInv, FrameInv, n
  <2>3. \A i \in 1..n - 1 : i \in 1..n /\ i < n
    BY <1>1
  <2> QED BY <1>2, <2>1, <2>2, <2>3 DEF FrameInv
<1>9. RunsOwnStack'
  <2>1. \A i \in 1..n - 1 : /\ i \in 1..n /\ calls[i].req \in Requests
                            /\ calls[i].idx # ErrorFrame
                                 => calls[i].idx \in DOMAIN exchange[calls[i].req].stack
    <3>1. \A i \in 1..n - 1 : i \in 1..Len(calls) /\ calls[i] \in Frames
      BY <1>1 DEF n
    <3>2. \A i \in 1..n - 1 : calls[i].req \in Requests
      BY <3>1 DEF Frames
    <3> QED BY <3>1, <3>2 DEF AppInv, RunsOwnStack, n
  <2>2. \A i \in 1..Len(calls') :
          calls'[i].idx # ErrorFrame => calls'[i].idx \in DOMAIN exchange'[calls'[i].req].stack
    BY <1>2, <1>4, <2>1
  <2>3. \A k \in kept' : k[2] \in DOMAIN exchange'[k[1]].stack
    BY <1>1, <1>4 DEF AppInv, AppTypeOK, RunsOwnStack
  <2>4. \A y \in Requests : exchange'[y].stack \in StacksFor(y)
    BY <1>4 DEF AppInv, RunsOwnStack
  <2> QED BY <2>2, <2>3, <2>4 DEF RunsOwnStack, Requests, ErrorFrame
<1>10. WaitingInv'
  BY <1>4, <1>6 DEF AppInv, WaitingInv
<1>11. OneHandleRequest'
  <2>1. \A i \in DOMAIN calls' : calls'[i].root => i = 1
    <3>1. \A i \in 1..n - 1 : i \in 1..n
      BY <1>1
    <3>2. \A i \in 1..n : calls[i].root => i = 1
      BY <1>3 DEF AppInv, OneHandleRequest
    <3> QED BY <1>2, <1>3, <3>1, <3>2
  <2>2. CASE n = 1
    <3>1. calls' = <<>> /\ Top = calls[1]
      BY <1>1, <1>3, <2>2
    <3>2. \A y \in Requests : exchange'[y].state # "handling"
      BY <1>4, <1>5, <3>1 DEF q
    <3> QED BY <2>1, <3>1, <3>2 DEF OneHandleRequest
  <2>3. CASE n # 1
    <3>1. calls' # <<>> /\ calls'[1] = calls[1] /\ ~Top.root
      BY <1>1, <1>2, <1>3, <2>3
    <3>2. \A y \in Requests :
            exchange'[y].state = "handling" <=> calls'[1].root /\ calls'[1].req = y
      BY <1>4, <1>5, <3>1
    <3> QED BY <2>1, <3>1, <3>2 DEF OneHandleRequest, Requests
  <2> QED BY <2>2, <2>3
<1>12. ParamsInv'
  <2> SUFFICES ASSUME calls' # <<>> PROVE Top'.made # 0
    BY DEF ParamsInv
  <2>1. n - 1 \in 1..n - 1 /\ n - 1 \in 1..n /\ n - 1 < n
    BY <1>1, <1>3
  <2>2. Top' = calls[n - 1]
    BY <1>2, <2>1 DEF Top, Last
  <2>3. calls[n - 1].made > 0
    BY <2>1 DEF AppInv, FrameInv, n
  <2> QED BY <2>2, <2>3
<1>13. DescribedInv'
  BY <1>4 DEF AppInv, DescribedInv, Described, q
<1>14. AnswersStay
  BY <1>4, <1>6 DEF AnswersStay
<1> QED BY <1>7, <1>8, <1>9, <1>10, <1>11, <1>12, <1>13, <1>14 DEF AppInv

LEMMA ReturnInv == ASSUME AppInv, Return PROVE AppInv' /\ AnswersStay
<1> DEFINE x == Answered(exchange[Top.req], exchange[Top.req].res)
<1>1. /\ calls # <<>> /\ ~raised /\ calls' = Front(calls)
      /\ IF Top.root THEN exchange' = [exchange EXCEPT ![Top.req] = x]
                     ELSE exchange' = exchange
      /\ UNCHANGED <<registered, custom, raised, kept, errors, runs>>
  BY DEF Return, Running, Answered
<1>2. Top.req \in Requests /\ exchange[Top.req] \in Exchanges
  BY <1>1, TopFacts DEF AppInv, AppTypeOK
<1>3. /\ x \in Exchanges /\ x.state = "answered" /\ x.stack = exchange[Top.req].stack
      /\ x.res = exchange[Top.req].res /\ x.sent = exchange[Top.req].res
  BY <1>2 DEF Exchanges, Answered
<1>4. Top.req \notin errors => Described(exchange[Top.req].res)
  BY <1>2 DEF AppInv, DescribedInv
<1>5. raised' \in BOOLEAN /\ ~raised'
  BY <1>1 DEF AppInv, AppTypeOK
<1> HIDE DEF x
<1> QED BY <1>1, <1>3, <1>4, <1>5, PopInv

LEMMA UnwindInv == ASSUME AppInv, Unwind PROVE AppInv' /\ AnswersStay
<1> DEFINE q == Top.req
<1>1. /\ raised /\ calls # <<>> /\ AppTypeOK
      /\ UNCHANGED <<registered, custom, kept, errors, runs>>
  BY DEF Unwind, AppInv, FrameInv
<1>2. /\ q \in Requests /\ exchange[q] \in Exchanges /\ Top \in Frames
      /\ Len(calls) \in Nat /\ Len(calls) > 0
  BY <1>1, TopFacts DEF AppTypeOK
<1>3. CASE ~Top.root
  <2>1. calls' = Front(calls) /\ raised' = (Len(calls) > 1) /\ exchange' = exchange
    BY <1>3 DEF Unwind
  <2> DEFINE x == Answered(exchange[q], exchange[q].res)
  <2>2. /\ x \in Exchanges /\ x.state = "answered" /\ x.stack = exchange[q].stack
        /\ x.res = exchange[q].res /\ x.sent = exchange[q].res
    BY <1>2 DEF Exchanges, Answered
  <2>3. q \notin errors => Described(exchange[q].res)
    BY <1>2 DEF AppInv, DescribedInv
  <2>4. raised' \in BOOLEAN /\ (raised' => Len(calls) > 1)
    <3>1. (Len(calls) > 1) \in BOOLEAN
      OBVIOUS
    <3>2. raised' \in BOOLEAN
      BY <2>1, <3>1, Zenon
    <3>3. raised' => Len(calls) > 1
      BY <2>1, Zenon
    <3> QED BY <3>2, <3>3
  <2> HIDE DEF x
  <2> QED BY <1>1, <1>3, <2>1, <2>2, <2>3, <2>4, PopInv
<1>4. CASE Top.root /\ Top.idx = ErrorFrame
  <2> DEFINE x == [exchange[q] EXCEPT !.state = "failed"]
  <2>1. calls' = Front(calls) /\ raised' = FALSE /\ exchange' = [exchange EXCEPT ![q] = x]
    BY <1>4 DEF Unwind, OutOfRoot
  <2>2. /\ x \in Exchanges /\ x.state = "failed" /\ x.stack = exchange[q].stack
        /\ x.res = exchange[q].res
    BY <1>2 DEF Exchanges
  <2>3. q \notin errors => Described(exchange[q].res)
    BY <1>2 DEF AppInv, DescribedInv
  <2> HIDE DEF x
  <2> QED BY <1>1, <1>4, <2>1, <2>2, <2>3, PopInv
<1>5. CASE Top.root /\ Top.idx # ErrorFrame /\ ~custom
  <2> DEFINE v == [exchange[q].res EXCEPT !.status = "500", !.type = "text", !.body = "500"]
             x == Answered(exchange[q], v)
  <2>1. calls' = Front(calls) /\ raised' = FALSE /\ exchange' = [exchange EXCEPT ![q] = x]
    BY <1>5 DEF Unwind, OutOfRoot, ToErrorHandler, Answered
  <2>2. v \in Response /\ Described(v)
    BY <1>2 DEF Exchanges, Response, Described
  <2> HIDE DEF v
  <2>3. /\ x \in Exchanges /\ x.state = "answered" /\ x.stack = exchange[q].stack
        /\ x.res = v /\ x.sent = v
    BY <1>2, <2>2 DEF Exchanges, Answered
  <2> HIDE DEF x
  <2> QED BY <1>1, <1>5, <2>1, <2>2, <2>3, PopInv
<1>6. CASE Top.root /\ Top.idx # ErrorFrame /\ custom
  <2> DEFINE f == Frame(q, ErrorFrame, TRUE)
  <2>1. calls' = Append(Front(calls), f) /\ raised' = FALSE /\ exchange' = exchange
    BY <1>6 DEF Unwind, OutOfRoot, ToErrorHandler
  <2>2. Len(calls) = 1 /\ Front(calls) = <<>> /\ calls[1] = Top
    BY <1>1, <1>6, TopFacts, EmptySeq
  <2>3. f \in Frames /\ f.req = q /\ f.idx = ErrorFrame /\ f.root = TRUE
    BY <1>2 DEF Frame, Frames, ErrorFrame
  <2> HIDE DEF f
  <2>4. /\ calls' \in Seq(Frames) /\ Len(calls') = 1 /\ calls'[1] = f /\ calls' # <<>>
        /\ DOMAIN calls' = 1..1
    BY <2>1, <2>2, <2>3
  <2>5. AppTypeOK' /\ KeepsCourse
    BY <1>1, <2>1, <2>4 DEF AppTypeOK, KeepsCourse
  <2>6. FrameInv'
    BY <2>1, <2>4 DEF FrameInv
  <2>7. RunsOwnStack'
    BY <1>1, <2>1, <2>3, <2>4 DEF AppInv, RunsOwnStack, ErrorFrame
  <2>8. WaitingInv' /\ DescribedInv'
    BY <1>1, <2>1 DEF AppInv, WaitingInv, DescribedInv
  <2>9. OneHandleRequest'
    BY <1>1, <1>6, <2>1, <2>2, <2>3, <2>4 DEF AppInv, OneHandleRequest
  <2>10. ParamsInv'
    <3>1. Top' = f
      BY <2>4 DEF Top, Last
    <3> QED BY <2>3, <3>1 DEF ParamsInv, ErrorFrame
  <2>11. AnswersStay
    BY <2>1 DEF AnswersStay
  <2> QED BY <2>5, <2>6, <2>7, <2>8, <2>9, <2>10, <2>11 DEF AppInv
<1> QED BY <1>3, <1>4, <1>5, <1>6

-----------------------------------------------------------------------------
LEMMA InitApp == Init => AppInv
<1> SUFFICES ASSUME Init PROVE AppInv
  OBVIOUS
<1>1. NewResponse \in Response /\ Described(NewResponse)
  BY DEF NewResponse, Response, Described
<1>2. \A r \in Requests : exchange[r] =
        [state |-> "waiting", stack |-> <<>>, params |-> NoParams,
         res |-> NewResponse, sent |-> NewResponse]
  BY DEF Init
<1>3. AppTypeOK
  <2>1. registered \in 0..Len(Handlers)
    BY RegistrationAssumption, LenProperties DEF RegistrationAssumption, Init
  <2>2. exchange \in [Requests -> Exchanges]
    BY <1>1 DEF Init, Exchanges, Paths
  <2>3. custom \in BOOLEAN /\ raised \in BOOLEAN
    BY DEF Init
  <2>4. /\ calls \in Seq(Frames) /\ kept \subseteq Requests \X Nat
        /\ errors \subseteq Requests /\ runs \in Nat
    BY DEF Init
  <2> QED BY <2>1, <2>2, <2>3, <2>4 DEF AppTypeOK
<1>4. FrameInv /\ WaitingInv /\ ParamsInv /\ OneHandleRequest
  BY <1>2 DEF Init, FrameInv, WaitingInv, ParamsInv, OneHandleRequest
<1>5. RunsOwnStack
  <2>1. \A r \in Requests : exchange[r].stack \in StacksFor(r)
    <3>1. ASSUME NEW r \in Requests PROVE <<>> \in StacksFor(r)
      BY DEF StacksFor
    <3> QED BY <1>2, <3>1
  <2>2. Len(calls) = 0 /\ kept = {}
    BY DEF Init
  <2> QED BY <2>1, <2>2 DEF RunsOwnStack
<1>6. DescribedInv
  BY <1>1, <1>2 DEF DescribedInv
<1> QED BY <1>3, <1>4, <1>5, <1>6 DEF AppInv

LEMMA NextApp == ASSUME AppInv, [Next]_vars PROVE AppInv' /\ AnswersStay
<1>1. KeepsCourse => AnswersStay
  BY DEF KeepsCourse, AnswersStay
<1>2. CASE UNCHANGED vars
  <2>1. KeepsCourse
    BY <1>2 DEF vars, KeepsCourse
  <2>2. AppInv'
    BY <1>2 DEF vars, AppInv, AppTypeOK, FrameInv, RunsOwnStack, WaitingInv, OneHandleRequest,
                ParamsInv, DescribedInv, Top, Last
  <2> QED BY <1>1, <2>1, <2>2
<1>3. ASSUME NEW r \in Requests, HandleRequest(r) PROVE AppInv' /\ AnswersStay
  BY <1>3, HandleRequestInv
<1>4. CASE Act \/ CallNext \/ CallNextWithError \/ KeepNext
  BY <1>1, <1>4, ActInv, CallNextInv, CallNextWithErrorInv, KeepNextInv
<1>5. ASSUME NEW k \in kept, CallKeptNext(k) \/ LateNext(k) PROVE AppInv' /\ AnswersStay
  BY <1>1, <1>5, CallKeptNextInv, LateNextInv
<1>6. CASE Catch \/ Register \/ UseGlobalErrorHandler
  BY <1>1, <1>6, AsideInv
<1>7. CASE Return \/ Unwind
  BY <1>7, ReturnInv, UnwindInv
<1> QED BY <1>2, <1>3, <1>4, <1>5, <1>6, <1>7 DEF Next

(* AppInv holds in every reachable state: whatever handlers register, call, *)
(* keep, throw and catch, the frames on the call stack and the exchanges of *)
(* the requests stay consistent with each other.                            *)
THEOREM SpecAppInv == Spec => []AppInv
<1>1. AppInv /\ [Next]_vars => AppInv'
  BY NextApp
<1> QED BY <1>1, InitApp, PTL DEF Spec

(* handleRequest is on the call stack of one request at most, as its        *)
(* outermost frame, and that request is the one being handled: a next()     *)
(* called late, or for another request, never answers for one.              *)
THEOREM SpecOneHandleRequest == Spec => []OneHandleRequest
<1>1. AppInv => OneHandleRequest
  BY DEF AppInv
<1> QED BY <1>1, SpecAppInv, PTL

(* Whatever handlers call, every activation of a handler is of an entry of  *)
(* its request's stack, an entry the program registered for the request's   *)
(* path and method, and so is every next() a handler has kept.              *)
THEOREM SpecRunsOwnStack == Spec => []RunsOwnStack
<1>1. AppInv => RunsOwnStack
  BY DEF AppInv
<1> QED BY <1>1, SpecAppInv, PTL

(* A handler that has not called a next() yet reads its own route's         *)
(* parameters, although every handler of a request shares one set of them.  *)
THEOREM SpecOwnParameters == Spec => []OwnParameters
<1>1. AppInv => OwnParameters
  BY DEF AppInv, ParamsInv, OwnParameters, InHandler, Running
<1> QED BY <1>1, SpecAppInv, PTL

(* An answer whose type does not describe its body belongs to a request     *)
(* with an entry in app.errors.                                             *)
THEOREM SpecMisdescribedIsRecorded == Spec => []MisdescribedIsRecorded
<1>1. AppInv => MisdescribedIsRecorded
  BY DEF AppInv, DescribedInv, Described, MisdescribedIsRecorded
<1> QED BY <1>1, SpecAppInv, PTL

(* A request that has been answered keeps its answer and the way it ended,  *)
(* also when a late next() runs its handlers again.                         *)
THEOREM SpecAnsweredOnce == Spec => AnsweredOnce
<1>1. AppInv /\ [Next]_vars => [AnswersStay]_vars
  BY NextApp
<1> QED BY <1>1, SpecAppInv, PTL DEF Spec, AnsweredOnce, AnswersStay

=============================================================================
