---------------------------- MODULE JsonDecoder ----------------------------
(* decode of tslua-json. A text is a sequence of tokens for the recursive  *)
(* descent, a sequence of characters for a number, and a sequence of       *)
(* characters and escapes for a string. Whitespace and the wording of      *)
(* errors are left out.                                                    *)
EXTENDS Naturals, Sequences, FiniteSets, TLC

(* A Lua value: an atom named by its token, nil, or a table whose entries  *)
(* are a function on keys. `length` is what DECODED_ARRAY_LENGTHS holds of *)
(* the table, 0 when it holds nothing.                                     *)
Lua(kind, atom, entries, length) ==
  [kind |-> kind, atom |-> atom, entries |-> entries, length |-> length]

NoEntries == <<>>
Atom(a) == Lua("atom", a, NoEntries, 0)
Nil == Lua("nil", "", NoEntries, 0)
Array(entries, length) == Lua("array", "", entries, length)
Object(entries) == Lua("object", "", entries, 0)

Index(n) == [type |-> "index", n |-> n, name |-> ""]
Name(s) == [type |-> "string", n |-> 0, name |-> s]

(* Assignment to a table: nil removes the key. *)
Set(entries, key, value) ==
  IF value = Nil
  THEN [k \in DOMAIN entries \ {key} |-> entries[k]]
  ELSE [k \in DOMAIN entries \cup {key} |->
          IF k = key THEN value ELSE entries[k]]

Strings == {"'a'", "'b'", "'1'", "'2'", "'3'", "'4'", "'1.5'"}
Scalars == Strings \cup {"1", "true", "1e999"}

(* A number too large for a double becomes math.huge. *)
ScalarValue(token) == Atom(IF token = "1e999" THEN "huge" ELSE token)

At(text, pos) == IF pos <= Len(text) THEN text[pos] ELSE "end"
Parsed(pos, value) == [ok |-> TRUE, pos |-> pos, value |-> value]
Failed == [ok |-> FALSE, pos |-> 0, value |-> Nil]

RECURSIVE parseValue(_, _, _, _)
RECURSIVE parseItems(_, _, _, _, _, _)
RECURSIVE parseMembers(_, _, _, _, _)

parseItems(text, pos, depth, o, index, entries) ==
  LET item == parseValue(text, pos, depth + 1, o)
      held == Set(entries, Index(index), item.value)
      next == At(text, item.pos)
      holes == \E i \in 1..index : Index(i) \notin DOMAIN held
  IN CASE ~item.ok -> Failed
       [] item.ok /\ next = "," ->
            parseItems(text, item.pos + 1, depth, o, index + 1, held)
       [] item.ok /\ next = "]" ->
            Parsed(item.pos + 1, Array(held, IF holes THEN index ELSE 0))
       [] OTHER -> Failed

parseArray(text, pos, depth, o) ==
  CASE depth > o.maxDepth -> Failed
    [] depth <= o.maxDepth /\ At(text, pos + 1) = "]" ->
         Parsed(pos + 2, Array(NoEntries, 0))
    [] OTHER -> parseItems(text, pos + 1, depth, o, 1, NoEntries)

parseMembers(text, pos, depth, o, entries) ==
  LET item == parseValue(text, pos + 2, depth + 1, o)
      held == Set(entries, Name(At(text, pos)), item.value)
      next == At(text, item.pos)
  IN CASE At(text, pos) \notin Strings \/ At(text, pos + 1) # ":" -> Failed
       [] OTHER ->
            CASE ~item.ok -> Failed
              [] item.ok /\ next = "," ->
                   parseMembers(text, item.pos + 1, depth, o, held)
              [] item.ok /\ next = "}" -> Parsed(item.pos + 1, Object(held))
              [] OTHER -> Failed

parseObject(text, pos, depth, o) ==
  CASE depth > o.maxDepth -> Failed
    [] depth <= o.maxDepth /\ At(text, pos + 1) = "}" ->
         Parsed(pos + 2, Object(NoEntries))
    [] OTHER -> parseMembers(text, pos + 1, depth, o, NoEntries)

parseValue(text, pos, depth, o) ==
  LET token == At(text, pos)
  IN CASE token = "{" -> parseObject(text, pos, depth, o)
       [] token = "[" -> parseArray(text, pos, depth, o)
       [] token = "null" -> Parsed(pos + 1, o.nullValue)
       [] token \in Scalars -> Parsed(pos + 1, ScalarValue(token))
       [] OTHER -> Failed

AtEnd(text, pos) == pos > Len(text)

decode(text, o) ==
  LET parsed == parseValue(text, 1, 1, o)
  IN IF parsed.ok /\ AtEnd(text, parsed.pos) THEN parsed ELSE Failed
=============================================================================
