---------------------------- MODULE DeepEquality ----------------------------
(* deepEqual of luatest, over a heap of tables that may contain each other. *)
(* Where two values differ, and how that is worded, is left out: a          *)
(* difference ends the comparison.                                          *)
EXTENDS Naturals, Sequences, FiniteSets, SequencesExt

(* A value: an atom (nan among them), a table of the heap, nil, or a        *)
(* matcher: anything(), or objectContaining of a table of the heap. A heap  *)
(* maps names to tables: [class, fields], fields a function on keys.        *)
Val(kind, of) == [kind |-> kind, of |-> of]
Table(id) == Val("table", id)
Missing == Val("nil", 0)

isAsymmetric(v) == v.kind \in {"anything", "objectContaining"}

rawget(heap, id, key) ==
  IF key \in DOMAIN heap[id].fields THEN heap[id].fields[key] ELSE Missing

(* MISTAKE: a received table under comparison is taken to equal any other. *)
SeenByReceived(seen, r, e) == \E p \in seen : p[1] = r

(* A pair under comparison is taken to be equal. *)
Seen(seen, r, e) == <<r, e>> \in seen

Verdict(equal, seen) == [equal |-> equal, seen |-> seen]

RECURSIVE diff(_, _, _, _, _)

(* objectContaining starts a comparison of its own for each of its fields,  *)
(* not a strict one.                                                        *)
matches(heap, received, matcher) ==
  CASE matcher.kind = "anything" -> received # Missing
    [] matcher.kind = "objectContaining" ->
         /\ received.kind = "table"
         /\ \A key \in DOMAIN heap[matcher.of].fields :
              diff(heap, rawget(heap, received.of, key),
                   heap[matcher.of].fields[key], FALSE, {}).equal

diffTables(heap, r, e, strict, seen) ==
  LET Field(verdict, key) ==
        LET received == rawget(heap, r, key)
            expected == heap[e].fields[key]
        IN CASE ~verdict.equal -> verdict
             [] verdict.equal /\ received = Missing /\ ~isAsymmetric(expected) ->
                  Verdict(FALSE, verdict.seen)
             [] OTHER -> diff(heap, received, expected, strict, verdict.seen)
      fields == FoldLeft(Field, Verdict(TRUE, seen \cup {<<r, e>>}),
                         SetToSeq(DOMAIN heap[e].fields))
  IN CASE Seen(seen, r, e) -> Verdict(TRUE, seen)
       [] ~Seen(seen, r, e) ->
            IF strict /\ heap[r].class # heap[e].class
            THEN Verdict(FALSE, seen)
            ELSE Verdict(fields.equal /\
                           DOMAIN heap[r].fields \subseteq DOMAIN heap[e].fields,
                         fields.seen)

diff(heap, received, expected, strict, seen) ==
  CASE isAsymmetric(expected) ->
         Verdict(matches(heap, received, expected), seen)
    [] ~isAsymmetric(expected) ->
         CASE received = expected -> Verdict(TRUE, seen)
           [] received # expected ->
                IF received.kind = "table" /\ expected.kind = "table"
                THEN diffTables(heap, received.of, expected.of, strict, seen)
                ELSE Verdict(FALSE, seen)

deepEqual(heap, received, expected, strict) ==
  diff(heap, received, expected, strict, {}).equal
=============================================================================
