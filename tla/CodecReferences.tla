-------------------------- MODULE CodecReferences --------------------------
(* What the algorithms of the libraries promise, defined without them:     *)
(* grammars by how a text can be cut, values by what the parts stand for,  *)
(* Base64 by its bits, a request head by its whole text, equality by what  *)
(* can be told apart.                                                      *)
EXTENDS JsonEncoder, JsonLexer, Base64, RequestHeadReader, RequestTarget,
  DeepEquality

(* JSON, told from outside in: a text is cut at the commas that no bracket *)
(* inside it encloses.                                                     *)

Opened(text, i) ==
  Cardinality({j \in 1..i : text[j] \in {"[", "{"}})
    - Cardinality({j \in 1..i : text[j] \in {"]", "}"}})

Nesting(text) == LET depths == {Opened(text, i) : i \in 1..Len(text)} \cup {0}
                 IN CHOOSE d \in depths : \A e \in depths : e <= d

Inner(text) == SubSeq(text, 2, Len(text) - 1)

Parts(text) ==
  LET commas == {i \in 1..Len(text) : text[i] = "," /\ Opened(text, i) = 0}
      cuts == <<0>> \o SetToSortSeq(commas, <) \o <<Len(text) + 1>>
  IN IF text = <<>> THEN <<>>
     ELSE [i \in 1..Len(cuts) - 1 |-> SubSeq(text, cuts[i] + 1, cuts[i + 1] - 1)]

Framed(text, open, close) ==
  Len(text) > 1 /\ Head(text) = open /\ Last(text) = close

Behind(part) == SubSeq(part, 3, Len(part))

RECURSIVE IsJson(_)
IsJson(text) ==
  \/ Len(text) = 1 /\ text[1] \in Scalars \cup {"null"}
  \/ /\ Framed(text, "[", "]")
     /\ \A i \in DOMAIN Parts(Inner(text)) : IsJson(Parts(Inner(text))[i])
  \/ /\ Framed(text, "{", "}")
     /\ \A i \in DOMAIN Parts(Inner(text)) :
          LET part == Parts(Inner(text))[i]
          IN Len(part) > 2 /\ part[1] \in Strings /\ part[2] = ":"
               /\ IsJson(Behind(part))

(* The table an array of values stands for, and the one named values stand *)
(* for: of values with one name the last, and none where that is nil.      *)
ArrayOf(values) ==
  LET held == {i \in DOMAIN values : values[i] # Nil}
  IN Array([k \in {Index(i) : i \in held} |-> values[k.n]],
           IF held = DOMAIN values THEN 0 ELSE Len(values))

ObjectOf(names, values) ==
  LET LastOf(name) ==
        CHOOSE i \in DOMAIN names :
          names[i] = name /\ \A j \in DOMAIN names : names[j] = name => j <= i
      held == {name \in Range(names) : values[LastOf(name)] # Nil}
  IN Object([k \in {Name(n) : n \in held} |-> values[LastOf(k.name)]])

RECURSIVE Meaning(_, _)
Meaning(text, nullValue) ==
  LET parts == Parts(Inner(text))
  IN CASE text[1] = "[" ->
            ArrayOf([i \in DOMAIN parts |-> Meaning(parts[i], nullValue)])
       [] text[1] = "{" ->
            ObjectOf([i \in DOMAIN parts |-> parts[i][1]],
                     [i \in DOMAIN parts |-> Meaning(Behind(parts[i]), nullValue)])
       [] text[1] = "null" -> nullValue
       [] OTHER -> ScalarValue(text[1])

(* A number of RFC 8259: an integer without leading zeros, then perhaps a  *)
(* point and digits, then perhaps an exponent.                             *)
AreDigits(text) == text # <<>> /\ \A i \in DOMAIN text : text[i] \in Digits
Unsigned(text, signs) ==
  IF text # <<>> /\ Head(text) \in signs THEN Tail(text) ELSE text

IsNumber(text) ==
  LET body == Unsigned(text, {"-"})
  IN \E a \in 1..Len(body) : \E b \in a..Len(body) :
       LET int == SubSeq(body, 1, a)
           frac == SubSeq(body, a + 1, b)
           exp == SubSeq(body, b + 1, Len(body))
       IN /\ AreDigits(int) /\ (Head(int) = "0" => Len(int) = 1)
          /\ frac # <<>> => Head(frac) = "." /\ AreDigits(Tail(frac))
          /\ exp # <<>> =>
               Head(exp) = "e" /\ AreDigits(Unsigned(Tail(exp), {"+", "-"}))

(* The characters a literal stands for: each element up to the closing     *)
(* quote stands for its own, but a surrogate pair stands for one.          *)
StringEnd(text) == SelectInSeq(text, LAMBDA u : u = "dq")

Character(text, i) ==
  LET pairs(j) == j >= 1 /\ text[j] = "u:hi" /\ text[j + 1] = "u:lo"
  IN CASE text[i] = "u:hi" -> IF pairs(i) THEN <<"astral">> ELSE <<"fffd">>
       [] text[i] = "u:lo" -> IF pairs(i - 1) THEN <<>> ELSE <<"fffd">>
       [] text[i] = "u:bmp" -> <<"bmp">>
       [] text[i] = "u:c1" -> <<"c1">>
       [] text[i] = "\\dq" -> <<"dq">>
       [] text[i] = "\\bs" -> <<"bs">>
       [] text[i] = "\\lf" -> <<"lf">>
       [] OTHER -> <<text[i]>>

IsLiteral(text) ==
  /\ StringEnd(text) > 0
  /\ \A i \in 1..StringEnd(text) - 1 :
       text[i] \notin {"lf", "c1", "\\bad", "u:bad"}

-----------------------------------------------------------------------------
(* The values n steps away from a table of the heap, after their toJSON.   *)
Real(heap, v) ==
  IF v.kind = "ref" /\ heap[v.atom].replacement # Nil
  THEN heap[v.atom].replacement ELSE v

TableOf(heap, v) == IF v.kind = "ref" THEN heap[v.atom].table ELSE v

RECURSIVE Level(_, _)
Level(heap, n) ==
  IF n = 1 THEN {Real(heap, Ref(1))}
  ELSE UNION {{Real(heap, TableOf(heap, v).entries[k]) :
                 k \in DOMAIN TableOf(heap, v).entries} : v \in Level(heap, n - 1)}

KeyText(key) == IF key.type = "string" THEN key.name ELSE NumberName(key)

(* A list has indices for keys, and as many values as holes at least, or   *)
(* it is an array that was read with its holes.                            *)
IsList(entries) == \A k \in DOMAIN entries : k.type = "index"
Holes(entries) == {n \in UNION {1..k.n : k \in DOMAIN entries} : Index(n) \notin DOMAIN entries}
HasHolesAsRead(table) ==
  /\ table.kind = "array" /\ table.length # 0
  /\ \A k \in DOMAIN table.entries : k.n <= table.length

IsArray(table, o) ==
  /\ IsList(table.entries)
  /\ table.kind = "plain" => table.entries # NoEntries \/ ~o.emptyAsObject
  /\ table.kind # "object"
  /\ \/ Cardinality(Holes(table.entries)) <= Cardinality(DOMAIN table.entries) + SparseSlack
     \/ HasHolesAsRead(table)

(* An object has names for keys, or numbers that are no other key's name.  *)
(* A table without a marker is one when it has a name, and then no key but *)
(* names and indices, or when empty tables are to be objects.              *)
IsObject(table, o) ==
  /\ \A k \in DOMAIN table.entries : k.type # "boolean"
  /\ \A k, l \in DOMAIN table.entries : KeyText(k) = KeyText(l) => k = l
  /\ \/ table.kind = "object"
     \/ table.kind = "plain" /\ table.entries = NoEntries /\ o.emptyAsObject
     \/ /\ table.kind = "plain" /\ ~IsList(table.entries)
        /\ \A k \in DOMAIN table.entries : k.type \in {"index", "string"}

GoodTable(table, o) == IsArray(table, o) \/ IsObject(table, o)

GoodValue(heap, v, o) ==
  IF v.kind = "ref" THEN GoodTable(heap[v.atom].table, o)
  ELSE v = Nil \/ v.atom \in Encodable \cup {"null"}

(* No walk from the root meets more than maxDepth tables (so none comes    *)
(* back to a table it left), and all it meets can be written.              *)
IsWritable(heap, o) ==
  /\ \A n \in 1..o.maxDepth + 1 :
       \A v \in Level(heap, n) : GoodValue(heap, v, o)
  /\ \A v \in Level(heap, o.maxDepth + 1) : v.kind # "ref"

(* The value decode must find in the text of a heap. *)
RECURSIVE Unfold(_, _, _)
Unfold(heap, value, o) ==
  LET v == Real(heap, value)
      table == TableOf(heap, v)
      Below(key) == Unfold(heap, Held(table.entries, key), o)
      keys == DOMAIN table.entries
  IN CASE v = Nil -> Atom("null")
       [] v.kind = "atom" -> v
       [] v.kind = "ref" ->
            IF IsArray(table, o)
            THEN ArrayOf([i \in 1..Highest(table.entries) |-> Below(Index(i))])
            ELSE Object([n \in {Name(KeyText(k)) : k \in keys} |->
                   Below(CHOOSE k \in keys : KeyText(k) = n.name)])

(* A value without the lengths of its arrays. *)
RECURSIVE Bare(_)
Bare(v) == [v EXCEPT !.length = 0,
                     !.entries = [k \in DOMAIN @ |-> Bare(@[k])]]

RECURSIVE HasHuge(_)
HasHuge(v) ==
  v = Atom("huge") \/ \E k \in DOMAIN v.entries : HasHuge(v.entries[k])

Plainly == [emptyAsObject |-> FALSE]
EncodedAgain(value, maxDepth) ==
  encode(<<>>, value, Plainly @@ [maxDepth |-> maxDepth])

RECURSIVE Number(_)
Number(digits) ==
  IF digits = <<>> THEN 0 ELSE Number(Front(digits)) * 10 + Last(digits)

(* Two candidates of p digits are adjacent when no other of p digits lies  *)
(* between them: one step apart, or either side of a power of ten.         *)
Adjacent(low, high, exponentLow, exponentHigh, p) ==
  \/ exponentLow = exponentHigh /\ high = low + 1
  \/ exponentLow = exponentHigh - 1 /\ low = 10^p - 1 /\ high = 10^(p - 1)

(* Where the point of a written number stands behind its first digit that  *)
(* is not zero.                                                            *)
Point(body) ==
  LET all == body.int \o body.frac
  IN Len(body.int) - (Unpadded(all) - 1) + body.exponent

Significant(body) ==
  LET all == WithoutZeros(body.int \o body.frac)
  IN SubSeq(all, 1, SelectLastInSeq(all, LAMBDA d : d # 0))

-----------------------------------------------------------------------------
(* Base64 by bits. *)
Bits(values, width) ==
  FlattenSeq([i \in DOMAIN values |->
    [b \in 1..width |-> (values[i] \div 2^(width - b)) % 2]])

RECURSIVE Binary(_)
Binary(bits) ==
  IF bits = <<>> THEN 0 ELSE 2 * Binary(Front(bits)) + Last(bits)

(* The bits cut into numbers of a width; what does not fill one is left.   *)
Cut(bits, width) ==
  [i \in 1..Len(bits) \div width |->
     Binary(SubSeq(bits, (i - 1) * width + 1, i * width))]

Symbols(text) == SelectSeq(text, LAMBDA c : c < 64)

IsBase64(text) ==
  LET solid == SelectSeq(text, LAMBDA c : c # Space)
      pads == Cardinality({i \in DOMAIN solid : solid[i] = Pad})
      symbols == Symbols(text)
  IN /\ \A i \in DOMAIN solid : solid[i] # Foreign
     /\ \A i, j \in DOMAIN solid : i < j /\ solid[i] = Pad => solid[j] = Pad
     /\ Len(symbols) % 4 # 1
     /\ pads > 0 => pads < 3 /\ (Len(symbols) % 4) + pads = 4

-----------------------------------------------------------------------------
(* The lines of a whole text, and where they end. *)
LineEnds(text) ==
  SetToSortSeq({i \in DOMAIN text : text[i] = "LF"}, <)

Lines(text) ==
  LET ends == <<0>> \o LineEnds(text)
  IN [i \in 1..Len(ends) - 1 |->
        WithoutCR(SubSeq(text, ends[i] + 1, ends[i + 1] - 1))]

-----------------------------------------------------------------------------
(* Values are equal when some set of pairs of tables has them equal and    *)
(* holds only pairs that look the same, field by field, up to itself.      *)
SameUpTo(heap, pairs, received, expected) ==
  CASE isAsymmetric(expected) -> matches(heap, received, expected)
    [] ~isAsymmetric(expected) ->
         \/ received = expected /\ received # Missing
         \/ received.kind = "table" /\ expected.kind = "table"
              /\ <<received.of, expected.of>> \in pairs

LookSame(heap, pairs, r, e, strict) ==
  /\ strict => heap[r].class = heap[e].class
  /\ DOMAIN heap[r].fields \subseteq DOMAIN heap[e].fields
  /\ \A key \in DOMAIN heap[e].fields :
       SameUpTo(heap, pairs, rawget(heap, r, key), heap[e].fields[key])

RECURSIVE Reach(_, _)
Reach(heap, ids) ==
  LET inside == {v \in UNION {Range(heap[i].fields) : i \in ids} :
                   v.kind = "table"}
      more == ids \cup {v.of : v \in inside}
  IN IF more = ids THEN ids ELSE Reach(heap, more)

IsIndistinguishable(heap, received, expected, strict) ==
  \E pairs \in SUBSET (Reach(heap, {received}) \X Reach(heap, {expected})) :
    /\ \A p \in pairs : LookSame(heap, pairs, p[1], p[2], strict)
    /\ SameUpTo(heap, pairs, Table(received), Table(expected))

-----------------------------------------------------------------------------
(* The query of a target lies between its first two question marks; of its *)
(* parameters with one name the last one counts, with what stands between  *)
(* its first two equals signs, and without one there is no such name.      *)

Before(text, c) ==
  LET i == SelectInSeq(text, LAMBDA d : d = c)
  IN IF i = 0 THEN text ELSE SubSeq(text, 1, i - 1)

Following(text, c) == SubSeq(text, Len(Before(text, c)) + 2, Len(text))

QueryOf(target) ==
  LET query == Before(Following(target, "?"), "?")
      starts == {a \in 1..Len(query) + 1 : a = 1 \/ query[a - 1] = "&"}
      parameter(a) == Before(SubSeq(query, a, Len(query)), "&")
      named(name) == {a \in starts : Before(parameter(a), "=") = name}
      Latest(name) == parameter(CHOOSE a \in named(name) : \A b \in named(name) : b <= a)
      names == {Before(parameter(a), "=") : a \in starts}
  IN [name \in {n \in names : "=" \in Range(Latest(n))} |->
        Before(Following(Latest(name), "="), "=")]

(* A character of an encoded text: "%" with two digits is a byte, its      *)
(* digits are nothing more, "+" is a space, any other is itself.           *)
IsEscape(text, i) ==
  i + 2 <= Len(text) /\ text[i] = "%" /\ {text[i + 1], text[i + 2]} \subseteq Hex

Decoded(text, i) ==
  IF IsEscape(text, i) THEN <<Byte(text[i + 1], text[i + 2])>>
  ELSE IF \E j \in (i - 2)..(i - 1) : j > 0 /\ IsEscape(text, j) THEN <<>>
  ELSE <<IF text[i] = "+" THEN " " ELSE text[i]>>
=============================================================================
