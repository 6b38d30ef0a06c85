--------------------------- MODULE RequestTarget ---------------------------
(* The request line and its query: readRequestHead, getQueryParams,        *)
(* decodeUriComponent, and the faster reading of the line in the class     *)
(* RequestHeadReader. Texts are sequences of characters.                   *)
EXTENDS Naturals, Sequences, FiniteSets, SequencesExt, Functions

(* String.split: the pieces between the separators, one more than those.   *)
Split(text, separator) ==
  LET marks == {i \in DOMAIN text : text[i] = separator}
      cuts == <<0>> \o SetToSortSeq(marks, <) \o <<Len(text) + 1>>
  IN [i \in 1..Cardinality(marks) + 1 |-> SubSeq(text, cuts[i] + 1, cuts[i + 1] - 1)]

NoParameters == [name \in {} |-> <<>>]

(* A parameter without "=" has no value: setting it removes the name.      *)
SetParameter(parameters, parameter) ==
  LET pair == Split(parameter, "=")
      others == Restrict(parameters, DOMAIN parameters \ {pair[1]})
  IN IF Len(pair) = 1 THEN others
     ELSE [name \in DOMAIN others \cup {pair[1]} |->
             IF name = pair[1] THEN pair[2] ELSE others[name]]

getQueryParams(url) ==
  LET pieces == Split(url, "?")
  IN IF Len(pieces) = 1 THEN NoParameters
     ELSE FoldLeft(SetParameter, NoParameters, Split(pieces[2], "&"))

(* What the handler is given of the request line, with an empty protocol   *)
(* when there is none; ok = FALSE when there is no target: the reader      *)
(* refuses the head then, and readRequestHead raises an error.             *)
NoRequest == [ok |-> FALSE, method |-> <<>>, path |-> <<>>, protocol |-> <<>>,
              parameters |-> NoParameters]
RequestOf(words, path, parameters) ==
  [ok |-> TRUE, method |-> words[1], path |-> path,
   protocol |-> IF Len(words) > 2 THEN words[3] ELSE <<>>,
   parameters |-> parameters]

readRequestHead(startLine) ==
  LET words == Split(startLine, " ")
  IN IF Len(words) = 1 THEN NoRequest
     ELSE RequestOf(words, Split(words[2], "?")[1], getQueryParams(words[2]))

(* "^([^ ]+) ([^ ]+) ([^ ]+)$": three words, none of them empty.           *)
IsCommonLine(line) ==
  \E a, b \in DOMAIN line :
    /\ 1 < a /\ a + 1 < b /\ b < Len(line)
    /\ \A i \in DOMAIN line : line[i] = " " <=> i \in {a, b}

(* How complete of RequestHeadReader reads the line, its path and query.   *)
requestLine(line) ==
  LET words ==
        IF IsCommonLine(line)
        THEN LET a == SelectInSeq(line, LAMBDA c : c = " ")
                 b == SelectLastInSeq(line, LAMBDA c : c = " ")
             IN <<SubSeq(line, 1, a - 1), SubSeq(line, a + 1, b - 1),
                  SubSeq(line, b + 1, Len(line))>>
        ELSE Split(line, " ")
      query == SelectInSeq(words[2], LAMBDA c : c = "?")
  IN IF Len(words) = 1 THEN NoRequest
     ELSE IF query = 0 THEN RequestOf(words, words[2], NoParameters)
     ELSE RequestOf(words, SubSeq(words[2], 1, query - 1), getQueryParams(words[2]))

(* Of the characters, "2", "5" and "B" are hexadecimal digits: %2B is "+", *)
(* %25 is "%", and the others are named by their digits.                   *)
Hex == {"2", "5", "B"}
Byte(high, low) ==
  LET name == high \o low
  IN IF name = "2B" THEN "+" ELSE IF name = "25" THEN "%" ELSE name

(* string.gsub of "+", and string.gsub of "%%(%x%x)" from left to right.   *)
Spaced(text) == [i \in DOMAIN text |-> IF text[i] = "+" THEN " " ELSE text[i]]

RECURSIVE Unescaped(_)
Unescaped(text) ==
  IF text = <<>> THEN <<>>
  ELSE IF Len(text) > 2 /\ text[1] = "%" /\ {text[2], text[3]} \subseteq Hex
  THEN <<Byte(text[2], text[3])>> \o Unescaped(SubSeq(text, 4, Len(text)))
  ELSE <<text[1]>> \o Unescaped(Tail(text))

decodeUriComponent(text) == Unescaped(Spaced(text))
=============================================================================
