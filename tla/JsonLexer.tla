----------------------------- MODULE JsonLexer -----------------------------
(* The character level of tslua-json: string literals with their escapes,  *)
(* number literals, and the decimal a number is written as.                *)
EXTENDS Integers, Sequences, SequencesExt

(* Strings. Characters stand for what the code tells apart: "x" (plain),   *)
(* "del", the quote, the backslash, a control character with a short       *)
(* escape ("lf") and one without ("c1"). An escape is one element too;     *)
(* a \u escape is named by the code unit it gives.                         *)
Controls == {"lf", "c1"}
ShortEscapes == [dq |-> "\\dq", bs |-> "\\bs", lf |-> "\\lf"]
CodeUnits == [c1 |-> "u:c1", bmp |-> "u:bmp", hi |-> "u:hi", lo |-> "u:lo"]

EscapeOf(char) ==
  CASE char \in DOMAIN ShortEscapes -> ShortEscapes[char]
    [] char = "c1" -> CodeUnits.c1
    [] OTHER -> char

STRING_ESCAPES(char) == EscapeOf(char)

(* The text after the opening quote. *)
quoteString(chars) ==
  Append([i \in 1..Len(chars) |-> STRING_ESCAPES(chars[i])], "dq")

Unquoted(ok, chars) == [ok |-> ok, chars |-> chars]
Fault == Unquoted(FALSE, <<>>)

Unescape(escape) ==
  IF \E c \in DOMAIN ShortEscapes : ShortEscapes[c] = escape
  THEN CHOOSE c \in DOMAIN ShortEscapes : ShortEscapes[c] = escape
  ELSE CHOOSE c \in DOMAIN CodeUnits : CodeUnits[c] = escape

Escapes == {ShortEscapes[c] : c \in DOMAIN ShortEscapes}
             \cup {CodeUnits[c] : c \in DOMAIN CodeUnits}

(* MISTAKE: the second half is taken for granted and skipped. *)
SkipsTwo(text, pos) == Len(text) > pos

(* A high surrogate takes the escape behind it only if that is a low one. *)
TakesLow(text, pos) == Len(text) > pos /\ text[pos + 1] = CodeUnits.lo

RECURSIVE parseFrom(_, _, _)
parseFrom(text, pos, chars) ==
  LET unit == text[pos]
      Continue(next, char) == parseFrom(text, next, Append(chars, char))
  IN CASE pos > Len(text) -> Fault
       [] pos <= Len(text) ->
            CASE unit = "dq" -> Unquoted(TRUE, chars)
              [] unit \in Controls \cup {"\\bad", "u:bad"} -> Fault
              [] unit = CodeUnits.hi ->
                   IF TakesLow(text, pos) THEN Continue(pos + 2, "astral")
                                          ELSE Continue(pos + 1, "fffd")
              [] unit = CodeUnits.lo -> Continue(pos + 1, "fffd")
              [] unit \in Escapes \ {CodeUnits.hi, CodeUnits.lo} ->
                   Continue(pos + 1, Unescape(unit))
              [] OTHER -> Continue(pos + 1, unit)

parseString(text) == parseFrom(text, 1, <<>>)

(* Numbers: where a literal that starts at pos ends, 0 when it is refused. *)
Digits == {"0", "1"}
Char(text, pos) == IF pos \in 1..Len(text) THEN text[pos] ELSE "end"

(* Behind the run of digits that starts at pos. *)
RECURSIVE DigitsEnd(_, _)
DigitsEnd(text, pos) ==
  IF Char(text, pos) \in Digits THEN DigitsEnd(text, pos + 1) ELSE pos

SomeDigits(text, pos) ==
  IF Char(text, pos) \in Digits THEN DigitsEnd(text, pos) ELSE 0

IntegerEnd(text, pos) ==
  CASE Char(text, pos) = "0" ->
         IF Char(text, pos + 1) \in Digits THEN 0 ELSE pos + 1
    [] Char(text, pos) # "0" -> SomeDigits(text, pos)

FractionEnd(text, pos) ==
  IF pos > 0 /\ Char(text, pos) = "." THEN SomeDigits(text, pos + 1) ELSE pos

ExponentEnd(text, pos) ==
  IF pos > 0 /\ Char(text, pos) = "e"
  THEN SomeDigits(text, IF Char(text, pos + 1) \in {"+", "-"} THEN pos + 2
                                                              ELSE pos + 1)
  ELSE pos

parseNumber(text) ==
  ExponentEnd(text, FractionEnd(text,
    IntegerEnd(text, IF Char(text, 1) = "-" THEN 2 ELSE 1)))

(* Decimal digits, most significant first, changed by 1 or -1 with carry   *)
(* or borrow. Leading zeros are dropped, so a carry out of the first digit *)
(* leaves a single 1.                                                      *)
Unpadded(digits) == SelectInSeq(digits, LAMBDA d : d # 0)

WithoutZeros(digits) ==
  IF Unpadded(digits) = 0 THEN <<>>
                          ELSE SubSeq(digits, Unpadded(digits), Len(digits))

stepDigits(digits, delta) ==
  LET full == IF delta = 1 THEN 9 ELSE 0
      stop == SelectLastInSeq(digits, LAMBDA d : d # full)
      stepped == [i \in 1..Len(digits) |->
                    CASE i < stop -> digits[i]
                      [] i = stop -> digits[i] + delta
                      [] i > stop -> 9 - full]
      trimmed == WithoutZeros(stepped)
  IN IF stop = 0 THEN <<1>> \o trimmed ELSE trimmed

(* A stepped candidate brought back to `precision` digits. *)
Refit(digits, exponent, precision) ==
  CASE Len(digits) > precision ->
         [digits |-> SubSeq(digits, 1, precision), exponent |-> exponent + 1]
    [] Len(digits) < precision ->
         [digits |-> Append(digits, 9), exponent |-> exponent - 1]
    [] OTHER -> [digits |-> digits, exponent |-> exponent]

(* The candidate next to digits * 10^exponent on one side. *)
Neighbour(digits, exponent, delta) ==
  Refit(stepDigits(digits, delta), exponent, Len(digits))

(* How formatNumber writes k digits with the point behind the n-th. *)
Zeros(n) == [i \in 1..n |-> 0]

formatNumber(digits, n) ==
  LET k == Len(digits)
      Body(int, frac, exponent) ==
        [int |-> int, frac |-> frac, exponent |-> exponent]
  IN CASE k <= n /\ n <= 21 -> Body(digits \o Zeros(n - k), <<>>, 0)
       [] n < k /\ 0 < n /\ n <= 21 ->
            Body(SubSeq(digits, 1, n), SubSeq(digits, n + 1, k), 0)
       [] -6 < n /\ n <= 0 -> Body(<<0>>, Zeros(-n) \o digits, 0)
       [] OTHER -> Body(<<digits[1]>>, Tail(digits), n - 1)
=============================================================================
