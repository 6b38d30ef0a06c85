---------------------------- MODULE JsonEncoder ----------------------------
(* encode of tslua-json over a heap of tables that may share and contain   *)
(* each other. The text is a sequence of JsonDecoder's tokens; indentation *)
(* and the path named in errors are left out, and members come in one      *)
(* order, which JSON does not tell apart.                                  *)
EXTENDS JsonDecoder, SequencesExt

CONSTANT SparseSlack  \* how far holes may reach beyond twice the values

ASSUME SlackAssumption == SparseSlack \in Nat

(* A heap maps table names to [table, replacement]: the table, of kind     *)
(* "array" or "object" when it carries a marker metatable and "plain"      *)
(* when not, and what its toJSON returns, Nil standing for no toJSON. A    *)
(* reference is a value of kind "ref".                                     *)
Ref(id) == Lua("ref", id, NoEntries, 0)

(* The other keys: a number that is no index, and one that is no number.   *)
Fraction == [type |-> "fraction", n |-> 0, name |-> ""]
Flag == [type |-> "boolean", n |-> 0, name |-> ""]

IndexNames == <<"'1'", "'2'", "'3'", "'4'">>

Encoded(ok, text, active) == [ok |-> ok, text |-> text, active |-> active]
Refused == Encoded(FALSE, <<>>, {})

Encodable == Scalars \ {"1e999"}
Highest(entries) ==
  LET indices == {k.n : k \in {i \in DOMAIN entries : i.type = "index"}}
  IN IF indices = {} THEN 0 ELSE CHOOSE n \in indices : \A m \in indices : m <= n

assertDense(entries) ==
  Highest(entries) <= 2 * Cardinality(DOMAIN entries) + SparseSlack

(* "array", "object", or "refused". *)
Shape(table, o) ==
  LET allIndices == \A k \in DOMAIN table.entries : k.type = "index"
      allStrings ==
        \A k \in DOMAIN table.entries : k.type \in {"index", "string"}
      dense == IF assertDense(table.entries) THEN "array" ELSE "refused"
      asRead == table.length > 0 /\ Highest(table.entries) <= table.length
  IN CASE table.kind = "object" -> "object"
       [] table.kind = "array" ->
            IF ~allIndices THEN "refused" ELSE IF asRead THEN "array" ELSE dense
       [] table.kind = "plain" ->
            CASE table.entries = NoEntries ->
                   IF o.emptyAsObject THEN "object" ELSE "array"
              [] table.entries # NoEntries ->
                   CASE allIndices -> dense
                     [] ~allIndices -> IF allStrings THEN "object" ELSE "refused"

NumberName(key) ==
  IF key.type = "fraction" THEN "'1.5'" ELSE IndexNames[key.n]

KeyTaken(entries, key) ==
  key.type # "string" /\ Name(NumberName(key)) \in DOMAIN entries

(* The member name of a key, "" when it is refused. *)
objectKey(entries, key) ==
  CASE key.type = "string" -> key.name
    [] key.type \in {"index", "fraction"} ->
         IF KeyTaken(entries, key) THEN "" ELSE NumberName(key)
    [] key.type = "boolean" -> ""

(* MISTAKE: a table once written stays on the path. *)
LeaveNever(active, id) == active

(* A written table leaves the path: it may occur again beside itself. *)
Leave(active, id) == active \ {id}

RECURSIVE encodeValue(_, _, _, _, _)

(* The parts of an array or object, separated by commas: `part` names what *)
(* precedes each value.                                                    *)
RECURSIVE encodeParts(_, _, _, _, _)
encodeParts(heap, parts, depth, active, o) ==
  IF parts = <<>> THEN Encoded(TRUE, <<>>, active)
  ELSE LET first == encodeValue(heap, parts[1].value, depth, active, o)
           rest == encodeParts(heap, Tail(parts), depth, first.active, o)
           comma == IF Len(parts) > 1 THEN <<",">> ELSE <<>>
       IN IF ~first.ok \/ ~rest.ok THEN Refused
          ELSE Encoded(TRUE, parts[1].before \o first.text \o comma \o rest.text,
                       rest.active)

Part(before, value) == [before |-> before, value |-> value]
Held(entries, key) == IF key \in DOMAIN entries THEN entries[key] ELSE Nil

Items(entries) ==
  [n \in 1..Highest(entries) |-> Part(<<>>, Held(entries, Index(n)))]

Members(entries) ==
  LET keys == SetToSeq(DOMAIN entries)
  IN [i \in 1..Len(keys) |->
        Part(<<objectKey(entries, keys[i]), ":">>, entries[keys[i]])]

encodeTable(heap, id, table, depth, active, o) ==
  LET shape == Shape(table, o)
      parts == IF shape = "array" THEN Items(table.entries)
                                  ELSE Members(table.entries)
      keysOk == shape = "object" =>
        \A k \in DOMAIN table.entries : objectKey(table.entries, k) # ""
      inside == encodeParts(heap, parts, depth + 1, active \cup {id}, o)
      around == IF shape = "array" THEN <<"[", "]">> ELSE <<"{", "}">>
  IN IF \/ depth > o.maxDepth
        \/ id \in active
        \/ shape = "refused"
        \/ ~keysOk
        \/ ~inside.ok
     THEN Refused
     ELSE Encoded(TRUE, <<around[1]>> \o inside.text \o <<around[2]>>,
                  Leave(inside.active, id))

(* toJSON is asked once; what it returns is written as it is. A table that *)
(* is not on the heap is a tree of decode's, which holds no table twice.   *)
encodeValue(heap, value, depth, active, o) ==
  LET Write(v) ==
        CASE v.kind \in {"array", "object"} ->
               encodeTable(heap, "tree", v, depth, {}, o)
          [] v.kind = "ref" ->
               encodeTable(heap, v.atom, heap[v.atom].table, depth, active, o)
          [] v = Nil \/ v = Atom("null") -> Encoded(TRUE, <<"null">>, active)
          [] OTHER ->
               IF v.kind = "atom" /\ v.atom \in Encodable
               THEN Encoded(TRUE, <<v.atom>>, active)
               ELSE Refused
  IN IF value.kind = "ref" /\ heap[value.atom].replacement # Nil
     THEN Write(heap[value.atom].replacement)
     ELSE Write(value)

encode(heap, value, o) == encodeValue(heap, value, 1, {}, o)
=============================================================================
