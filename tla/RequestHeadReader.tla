------------------------- MODULE RequestHeadReader -------------------------
(* push and complete of the class RequestHeadReader. Bytes are "LF", "CR"  *)
(* and "x"; what a line says is a line of `lines` in complete, named by    *)
(* what the code tells apart about it.                                     *)
EXTENDS Naturals, Sequences, SequencesExt

CONSTANTS MaxHeaderBytes, MaxHeaderCount, MaxBodyBytes

ASSUME LimitsAssumption ==
  /\ MaxHeaderBytes \in Nat \ {0}
  /\ MaxHeaderCount \in Nat \ {0}
  /\ MaxBodyBytes \in Nat

(* The reader between pushes; "reading", "tooLarge" (431) or "complete",   *)
(* with the lines taken and, when complete, what followed the head.        *)
NewReader ==
  [kind |-> "reading", buffer |-> <<>>, lineStart |-> 1, lines |-> <<>>,
   rest |-> <<>>]

NextLF(buffer, from) ==
  LET ends == {i \in from..Len(buffer) : buffer[i] = "LF"}
  IN IF ends = {} THEN 0 ELSE CHOOSE i \in ends : \A j \in ends : i <= j

WithoutCR(line) ==
  IF line # <<>> /\ Last(line) = "CR" THEN Front(line) ELSE line

(* MISTAKE: the line that reaches past the limit is still taken. *)
PastLimitByStart(r, newline) == r.lineStart > MaxHeaderBytes

(* A complete line is refused when it ends past the byte limit. *)
PastLimit(r, newline) == newline > MaxHeaderBytes

TooMany(lines) == Len(lines) - 1 > MaxHeaderCount

(* The lines of the buffer that were not scanned before, one by one. *)
RECURSIVE Scan(_)
Scan(r) ==
  LET newline == NextLF(r.buffer, r.lineStart)
      line == WithoutCR(SubSeq(r.buffer, r.lineStart, newline - 1))
      lines == Append(r.lines, line)
  IN CASE newline = 0 ->
            [r EXCEPT !.kind = IF Len(r.buffer) > MaxHeaderBytes
                               THEN "tooLarge" ELSE "reading"]
       [] newline > 0 ->
            CASE PastLimit(r, newline) -> [r EXCEPT !.kind = "tooLarge"]
              [] OTHER ->
                   CASE line = <<>> ->
                          [r EXCEPT
                             !.kind = "complete", !.buffer = <<>>,
                             !.rest =
                               SubSeq(r.buffer, newline + 1, Len(r.buffer))]
                     [] line # <<>> ->
                          IF TooMany(lines)
                          THEN [r EXCEPT !.kind = "tooLarge", !.lines = lines]
                          ELSE Scan([r EXCEPT !.lineStart = newline + 1,
                                              !.lines = lines])

push(r, data) == Scan([r EXCEPT !.buffer = @ \o data])

(* The scheduler pushes what it receives until the reader has a verdict. *)
Feed(r, data) == IF r.kind = "reading" THEN push(r, data) ELSE r

ReadFragments(fragments) == FoldLeft(Feed, NewReader, fragments)

(* Headers as complete tells them apart: a line without a colon, a         *)
(* Content-Length (a number, or "not decimal"), Transfer-Encoding, Expect, *)
(* any other.                                                              *)
Header(name, value) == [name |-> name, value |-> value]
NotDecimal == MaxBodyBytes + 10

Values(headers, name) ==
  LET picked == SelectSeq(headers, LAMBDA h : h.name = name)
  IN [i \in DOMAIN picked |-> picked[i].value]

Rejected(status) == [kind |-> "rejected", status |-> status, bodyLength |-> 0]
Complete(n) == [kind |-> "complete", status |-> 0, bodyLength |-> n]

(* Several lengths must be numbers that agree. *)
LengthsAgree(lengths) ==
  \A i \in DOMAIN lengths :
    lengths[i] # NotDecimal /\ lengths[i] = lengths[1]

(* complete: requestLine is "none" (no line at all), "malformed" (one      *)
(* without a target, see RequestTarget) or "good".                         *)
complete(requestLine, headers) ==
  LET lengths == Values(headers, "content-length")
      bodyLength == IF lengths = <<>> THEN 0 ELSE Last(lengths)
      has(name) == Values(headers, name) # <<>>
  IN IF requestLine = "none" \/ has("no colon") THEN Rejected(400)
     ELSE IF has("transfer-encoding")
     THEN Rejected(IF lengths # <<>> THEN 400 ELSE 501)
     ELSE IF ~LengthsAgree(lengths) THEN Rejected(400)
     ELSE IF bodyLength > MaxBodyBytes THEN Rejected(413)
     ELSE IF has("expect") THEN Rejected(417)
     ELSE IF requestLine = "malformed" THEN Rejected(400)
     ELSE Complete(bodyLength)
=============================================================================
