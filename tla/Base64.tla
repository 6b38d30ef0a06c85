------------------------------- MODULE Base64 -------------------------------
(* encode and decodeText of tslua-base64. Data is a sequence of bytes; text *)
(* is a sequence of sextets and the marks below. The two alphabets, which   *)
(* map sextets to characters, and the chunks that bound how many bytes are  *)
(* taken at a time (a multiple of three) are left out.                      *)
EXTENDS Naturals, Sequences, SequencesExt

Pad == 64
Space == 65
Foreign == 66   \* a character outside the alphabet

Sextets(a, b, c) ==
  <<a \div 4, (a % 4) * 16 + b \div 16, (b % 16) * 4 + c \div 64, c % 64>>

(* One or two last bytes. *)
LastGroup(data, padding) ==
  LET b == IF Len(data) = 2 THEN data[2] ELSE 0
      marks == IF padding THEN [i \in 1..3 - Len(data) |-> Pad] ELSE <<>>
  IN SubSeq(Sextets(data[1], b, 0), 1, Len(data) + 1) \o marks

RECURSIVE encode64(_, _)
encode64(data, padding) ==
  CASE data = <<>> -> <<>>
    [] Len(data) \in 1..2 -> LastGroup(data, padding)
    [] Len(data) > 2 ->
         Sextets(data[1], data[2], data[3])
           \o encode64(SubSeq(data, 4, Len(data)), padding)

(* The loop of decodeText over one character: bytes so far, the sextets of *)
(* an open group as a number, how many they are, the padding seen.         *)
Start == [ok |-> TRUE, bytes |-> <<>>, group |-> 0, size |-> 0, pads |-> 0]

AfterPadding(s) == s.pads > 0

Read(s, char) ==
  LET group == s.group * 64 + char
      whole == <<group \div 65536, (group \div 256) % 256, group % 256>>
  IN CASE ~s.ok \/ char = Space -> s
       [] s.ok /\ char = Pad ->
            [s EXCEPT !.pads = @ + 1, !.ok = s.pads < 2]
       [] s.ok /\ char \in {Foreign} \cup 0..63 ->
            CASE char = Foreign \/ AfterPadding(s) -> [s EXCEPT !.ok = FALSE]
              [] OTHER ->
                   IF s.size = 3
                   THEN [s EXCEPT !.bytes = @ \o whole, !.group = 0, !.size = 0]
                   ELSE [s EXCEPT !.group = group, !.size = @ + 1]

(* The open group gives the bytes it holds in full. *)
LastBytes(s) ==
  CASE s.size = 2 -> <<s.group \div 16>>
    [] s.size = 3 -> <<s.group \div 1024, (s.group \div 4) % 256>>
    [] OTHER -> <<>>

Refusal == [ok |-> FALSE, bytes |-> <<>>]

(* MISTAKE: padding is not compared with the group it completes. *)
PaddedLax(s) == TRUE

Padded(s) == s.pads > 0 => s.size + s.pads = 4

decodeText(text) ==
  LET s == FoldLeft(Read, Start, text)
  IN IF s.ok /\ s.size # 1 /\ Padded(s)
     THEN [ok |-> TRUE, bytes |-> s.bytes \o LastBytes(s)]
     ELSE Refusal
=============================================================================
