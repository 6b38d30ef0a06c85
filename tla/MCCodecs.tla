------------------------------ MODULE MCCodecs ------------------------------
(* The inputs the libraries' functions are called with. *)
EXTENDS Codecs

CONSTANTS MaxText, MaxNested, MaxArray, MaxLexeme, MaxBase64, MaxPieces,
  MaxHead, MaxHeaders, MaxLine

Words(alphabet, n) == UNION {[1..k -> alphabet] : k \in 0..n}

(* All short texts, the longer ones made of brackets alone, arrays long    *)
(* enough to be sparse, objects with a name that comes twice.              *)
Commas(s) == [i \in 1..2 * Len(s) - 1 |-> IF i % 2 = 1 THEN s[(i + 1) \div 2] ELSE ","]
MCJsonTexts ==
  Words({"[", "]", "{", "}", ",", ":", "'a'", "null", "1"}, MaxText)
    \cup Words({"[", "]", ",", "null"}, MaxNested)
    \cup {<<"[">> \o Commas(s) \o <<"]">> :
            s \in Words({"null", "1", "true", "1e999"}, MaxArray) \ {<<>>}}
    \cup {<<"{", n1, ":", v1, ",", n2, ":", v2, "}">> :
            n1, n2 \in {"'a'", "'b'"}, v1, v2 \in {"1", "true", "null", "1e999"}}
MCDecodeOptions ==
  [maxDepth : {1, 2}, nullValue : {Nil}] \cup [maxDepth : {2}, nullValue : {Atom("null")}]

(* Two tables that may hold each other, the second one with a toJSON.      *)
Keys == {{}, {Index(1)}, {Index(1), Index(2)}, {Index(4)}, {Name("'a'")},
         {Name("'a'"), Index(1)}, {Name("'1'"), Index(1)},
         {Name("'a'"), Fraction}, {Name("'1.5'"), Fraction}, {Flag}}
Entries(keysets, values) == UNION {[ks -> values] : ks \in keysets}
TablesOf(keysets, values, lengths) ==
  {Lua(k, "", e, 0) : k \in {"array", "object", "plain"}, e \in Entries(keysets, values)}
    \cup {Lua("array", "", e, n) : n \in lengths, e \in Entries(keysets, values)}
MCHeaps ==
  {(1 :> [table |-> a, replacement |-> Nil]) @@
     (2 :> [table |-> b, replacement |-> r]) :
     a \in TablesOf(Keys, {Atom("1"), Atom("function"), Ref(1), Ref(2)}, {4}),
     b \in TablesOf({{}, {Index(1)}, {Name("'a'")}},
                    {Atom("true"), Atom("huge"), Atom("null"), Ref(1)}, {}),
     r \in {Nil, Atom("'b'"), Ref(1)}}
MCEncodeOptions == [maxDepth : {1, 3}, emptyAsObject : BOOLEAN]

MCStringTexts ==
  Words({"x", "dq", "lf", "\\dq", "\\bad", "u:hi", "u:lo", "u:bad", "u:bmp"}, MaxLexeme)
MCContents == Words({"x", "del", "dq", "bs", "lf", "c1"}, MaxLexeme)
MCNumberTexts ==
  {t \in Words({"-", "0", "1", ".", "e", "+"}, MaxLexeme + 1) :
     t # <<>> /\ Head(t) \in {"-", "0", "1"}}

MCCandidates ==
  {c \in [digits : Words({0, 1, 5, 8, 9}, 4) \ {<<>>}, delta : {1, -1}] :
     c.digits[1] # 0}
MCDecimals ==
  {[digits |-> d, point |-> n] :
     d \in {e \in Words({0, 1}, 3) : e # <<>> /\ Head(e) = 1 /\ Last(e) = 1},
     n \in -9..24}

MCData == Words({0, 1, 255}, MaxBase64)
MCTexts64 == Words({0, 1, 63, Pad, Space, Foreign}, MaxBase64 + 1)

(* Every way to cut a text into fragments. *)
RECURSIVE Fragmented(_)
Fragmented(text) ==
  IF text = <<>> THEN {<<>>}
  ELSE UNION {{<<SubSeq(text, 1, n)>> \o rest :
                 rest \in Fragmented(SubSeq(text, n + 1, Len(text)))} : n \in 1..Len(text)}
MCHeadTexts ==
  {FlattenSeq(w) :
     w \in Words({<<"x">>, <<"x", "LF">>, <<"CR", "LF">>, <<"LF">>, <<"CR">>}, MaxPieces)}
MCHeadFragments == UNION {Fragmented(t) : t \in {h \in MCHeadTexts : Len(h) <= MaxHead}}

MCHeads ==
  [requestLine : {"none", "malformed", "good"},
   headers : Words({Header("content-length", 0), Header("content-length", 2),
                    Header("content-length", MaxBodyBytes + 1),
                    Header("content-length", NotDecimal),
                    Header("transfer-encoding", 0), Header("expect", 0),
                    Header("no colon", 0), Header("other", 0)}, MaxHeaders)]

(* Lines with every placement of the spaces, and targets with every query. *)
MCRequestLines ==
  (Words({"x", " ", "?"}, MaxLine) \ {<<>>})
    \cup {<<"x", " ", "?">> \o q : q \in Words({"a", "?", "&", "="}, MaxLine)}
MCEncodedTexts == Words({"x", "+", "%", "2", "5", "B"}, MaxLexeme)

MCRpcRequests ==
  [headers : [origin : BOOLEAN, mediaType : {"json", "other"},
              bearer : {"", "token", "another"}],
   body : [form : {"malformed", "scalar", "table"}, version : BOOLEAN,
           method : {"ping", "rpc.discover", "eval", "unknown", "not a string"},
           params : {"absent", "scalar", "no code", "code"},
           code : {"syntax", "raises", "value", "function"},
           id : {"absent", "1", "huge"}]]
MCTokens == {"", "token"}

(* Tables 1 and 2 are received, 3 and 4 expected; table 4 inside an        *)
(* objectContaining holds no table, which could lead back to the matcher.  *)
FieldsOf(keysets, values) == UNION {[ks -> values] : ks \in keysets}
Tables4(classes, fields) == [class : classes, fields : fields]
One == Val("atom", 1)
Anything == Val("anything", 0)
Containing4 == Val("objectContaining", 4)
MCComparisons ==
  {c \in [heap : {<<a, b, x, y>> :
             a \in Tables4({"plain", "class"},
                    FieldsOf({{}, {"a"}, {"a", "b"}}, {One, Table(1), Table(2)})),
             b \in Tables4({"plain"}, FieldsOf({{}, {"a"}}, {One, Table(1), Table(2)})),
             x \in Tables4({"plain"},
                    FieldsOf({{"a"}, {"a", "b"}},
                             {One, Table(1), Table(3), Table(4), Anything, Containing4})),
             y \in Tables4({"plain"},
                    FieldsOf({{}, {"a"}}, {One, Table(3), Table(4), Anything}))},
           strict : BOOLEAN] :
     Containing4 \in {c.heap[3].fields[k] : k \in DOMAIN c.heap[3].fields} =>
       \A k \in DOMAIN c.heap[4].fields : c.heap[4].fields[k].kind # "table"}
=============================================================================
