------------------------ MODULE BridgeInstallerProofs -----------------------
(***************************************************************************)
(* InstallerInv is an invariant of BridgeInstaller for every set of        *)
(* profiles, every sequence of texts DCS brings and every bound, and with  *)
(* it the properties of BridgeInstaller.                                   *)
(***************************************************************************)
EXTENDS BridgeInstaller, InductionLemmas, SequenceTheorems, FiniteSetTheorems

Texts == Seq(Pieces)
G == GameTexts[1]

(* A text without a whole loader: no end mark, and a begin mark, left by a *)
(* write that was cut, only behind an anchor.                              *)
Plain(t) ==
  /\ t \in Texts
  /\ \A i \in 1..Len(t) :
       t[i] # "END" /\ (t[i] = "BEGIN" => \E j \in 1..(i - 1) : t[j] = Anchor)

(* What MissionScripting.lua can hold: a plain text, patched or not. *)
Sound(t) ==
  LET c == stripLoader(t)
  IN Plain(c) /\ (t = c \/ (HasAnchor(c) /\ t = Patched(c)))

Copies == {Absent, "partial", "whole"}
Files == [token : Nat \cup {Absent}, hook : Copies, script : Copies, mission : Copies]
Games == [profile : Profiles \cup {NoBridge}, gui : Nat \cup {NoBridge},
          missionBridge : Nat \cup {NoBridge}, mission : BOOLEAN]

Copying == {"token", "hook", "script", "mission"}
Patching == {"read", "backup", "patch"}
Removing == {"rm_hook", "rm_script", "rm_mission", "rm_token", "strip"}

(* Every variable has its type. *)
InstallerTypeOK ==
  /\ disk \in [Profiles -> Files]
  /\ scripting \in Texts \cup {Absent} /\ source \in Texts /\ backup \in Texts \cup {Absent}
  /\ newest \in Profiles /\ profile \in Profiles
  /\ dcs \in Games /\ (dcs = Off \/ dcs.profile \in Profiles)
  /\ pc \in {"idle"} \cup Copying \cup Patching \cup Removing
  /\ version \in 1..Len(GameTexts)
  /\ revoked \in BOOLEAN
  /\ made \in Nat /\ faults \in Nat

(* A mission the game has open is on its profile's disk. *)
OpenInv == dcs.mission => disk[dcs.profile].mission = "whole"

(* What install has written, and uninstall removed, when it gets to pc. *)
FilesInv ==
  LET now == disk[profile]
  IN /\ pc \in Copying \cup Patching /\ pc # "token" => now.token # Absent
     /\ pc \in {"script", "mission"} \cup Patching => now.hook = "whole"
     /\ pc \in {"mission"} \cup Patching => now.script = "whole"
     /\ pc \in Patching => now.mission # Absent
     /\ pc \in Removing /\ pc # "rm_hook" => now.hook = Absent
     /\ pc \in {"rm_mission", "rm_token", "strip"} => now.script = Absent
     /\ pc \in {"rm_token", "strip"} => now.mission = Absent
     /\ pc = "strip" => now.token = Absent

(* The text on disk, if there is one, and the one install has read, are    *)
(* sound.                                                                  *)
TextInv == (scripting # Absent => Sound(scripting)) /\ (pc \in {"backup", "patch"} => Sound(source))

(* The first text is in the file, and in what install has read from it. *)
InPlace == stripLoader(scripting) = G /\ (pc \in {"backup", "patch"} => stripLoader(source) = G)

(* Before the first failure no backup is written but of the first text,    *)
(* and none is patched without one; one failure spoils the file or the     *)
(* backup.                                                                 *)
KeepInv ==
  version = 1 =>
    /\ faults = 0 =>
         /\ InPlace
         /\ backup = Absent => scripting = G /\ pc # "patch" /\ (pc = "backup" => source = G)
         /\ backup \in {Absent, G}
    /\ faults = 1 => InPlace \/ backup = G

InstallerInv ==
  /\ InstallerTypeOK
  /\ RunningGameKeepsAccepting
  /\ OpenInv
  /\ FilesInv
  /\ TextInv
  /\ KeepInv

-----------------------------------------------------------------------------
(* Sequences of pieces. *)

LEMMA TextFacts ==
  ASSUME NEW t \in Texts
  PROVE  /\ Len(t) \in Nat /\ DOMAIN t = 1..Len(t)
         /\ \A i \in 1..Len(t) : t[i] \in Pieces
         /\ HasAnchor(t) <=> \E i \in 1..Len(t) : t[i] = Anchor
<1>1. Len(t) \in Nat /\ DOMAIN t = 1..Len(t) /\ \A i \in 1..Len(t) : t[i] \in Pieces
  BY LenProperties DEF Texts
<1> QED BY <1>1 DEF HasAnchor, ToSet

LEMMA MarkFacts ==
  /\ {"nl", "BEGIN", "dofile", "END"} \subseteq Pieces
  /\ Loader \in Texts /\ Len(Loader) = 3
  /\ Loader[1] = "BEGIN" /\ Loader[2] = "dofile" /\ Loader[3] = "END"
<1>1. Len(Loader) = 3 /\ Loader[1] = "BEGIN" /\ Loader[2] = "dofile" /\ Loader[3] = "END"
  BY DEF Loader
<1>3. {"nl", "BEGIN", "dofile", "END"} \subseteq Pieces
  BY DEF Pieces
<1>4. <<"BEGIN", "dofile", "END">> \in Seq(Pieces)
  BY <1>3
<1> QED BY <1>1, <1>3, <1>4 DEF Texts, Loader

(* The beginning of a text. *)
LEMMA CutFacts ==
  ASSUME NEW t \in Texts, NEW n \in 0..Len(t)
  PROVE  /\ SubSeq(t, 1, n) \in Texts /\ Len(SubSeq(t, 1, n)) = n
         /\ \A i \in 1..n : SubSeq(t, 1, n)[i] = t[i] /\ i \in 1..Len(t)
<1>1. n \in Nat /\ Len(t) \in Nat /\ n <= Len(t) /\ 1 \in Int /\ n \in Int
  BY TextFacts
<1>2. \A i \in 1..n : i \in 1..Len(t) /\ t[i] \in Pieces
  BY <1>1, TextFacts
<1>3. /\ SubSeq(t, 1, n) \in Seq(Pieces)
      /\ Len(SubSeq(t, 1, n)) = IF 1 <= n THEN n - 1 + 1 ELSE 0
      /\ \A i \in 1..n - 1 + 1 : SubSeq(t, 1, n)[i] = t[1 + i - 1]
  BY <1>1, <1>2, SubSeqProperties
<1>4. /\ (IF 1 <= n THEN n - 1 + 1 ELSE 0) = n /\ n - 1 + 1 = n
      /\ \A i \in 1..n : 1 + i - 1 = i
  BY <1>1
<1> QED BY <1>2, <1>3, <1>4 DEF Texts

(* The end of a text. *)
LEMMA RestFacts ==
  ASSUME NEW t \in Texts, NEW n \in 0..Len(t)
  PROVE  /\ SubSeq(t, n + 1, Len(t)) \in Texts /\ Len(SubSeq(t, n + 1, Len(t))) = Len(t) - n
         /\ \A i \in 1..Len(t) - n : /\ SubSeq(t, n + 1, Len(t))[i] = t[n + i]
                                     /\ n + i \in 1..Len(t)
<1> DEFINE m == Len(t)
           b == n + 1
<1>1. n \in Nat /\ m \in Nat /\ n <= m /\ b \in Int /\ m \in Int
  BY TextFacts
<1>2. \A i \in b..m : i \in 1..m /\ t[i] \in Pieces
  <2>1. \A i \in b..m : i \in 1..m
    BY <1>1
  <2> QED BY <2>1, TextFacts
<1> HIDE DEF m, b
<1>3. /\ SubSeq(t, b, m) \in Seq(Pieces)
      /\ Len(SubSeq(t, b, m)) = IF b <= m THEN m - b + 1 ELSE 0
      /\ \A i \in 1..m - b + 1 : SubSeq(t, b, m)[i] = t[b + i - 1]
  BY <1>1, <1>2, SubSeqProperties
<1>4. /\ (IF b <= m THEN m - b + 1 ELSE 0) = m - n /\ m - b + 1 = m - n
      /\ \A i \in 1..m - n : b + i - 1 = n + i /\ n + i \in 1..m
  BY <1>1 DEF b
<1> QED BY <1>3, <1>4 DEF Texts, m, b

(* A text with an anchor has a first one, behind which Patched writes. *)
First(t, a) == a = Min({i \in DOMAIN t : t[i] = Anchor})

LEMMA FirstAnchor ==
  ASSUME NEW t \in Texts, HasAnchor(t)
  PROVE  \E a \in 1..Len(t) :
           First(t, a) /\ t[a] = Anchor /\ \A i \in 1..(a - 1) : t[i] # Anchor
<1> DEFINE A == {i \in DOMAIN t : t[i] = Anchor}
           T == {n \in Nat : (\E i \in A : i <= n) => \E x \in A : \A y \in A : x =< y}
<1>1. DOMAIN t = 1..Len(t) /\ Len(t) \in Nat /\ A # {} /\ A \subseteq 1..Len(t)
  BY TextFacts
<1>2. 0 \in T
  BY <1>1
<1>3. ASSUME NEW n \in Nat, n \in T PROVE n + 1 \in T
  <2>1. CASE \E i \in A : i <= n
    BY <1>3, <2>1
  <2>2. CASE ~ \E i \in A : i <= n
    <3>1. \A y \in A : y \in Nat /\ ~(y <= n)
      BY <1>1, <2>2
    <3>2. \A y \in A : y >= n + 1
      BY <3>1
    <3>3. ASSUME NEW i \in A, i <= n + 1 PROVE \A y \in A : i =< y
      BY <3>1, <3>2, <3>3
    <3> HIDE DEF A
    <3> QED BY <3>3
  <2> QED BY <2>1, <2>2
<1>4. Nat \subseteq T
  <2> HIDE DEF T
  <2> QED BY <1>2, <1>3, NatSetInduction
<1>5. \E x \in A : \A y \in A : x =< y
  <2>1. \E i \in A : i <= Len(t)
    BY <1>1
  <2> QED BY <1>1, <1>4, <2>1
<1>6. Min(A) \in A /\ \A y \in A : Min(A) =< y
  <2> HIDE DEF A
  <2> QED BY <1>5 DEF Min
<1>7. Min(A) \in 1..Len(t) /\ t[Min(A)] = Anchor
  BY <1>1, <1>6
<1>8. \A i \in 1..(Min(A) - 1) : t[i] # Anchor
  <2> DEFINE a == Min(A)
  <2>1. a \in 1..Len(t) /\ \A y \in A : a =< y
    BY <1>6, <1>7
  <2> HIDE DEF a
  <2>2. \A i \in 1..(a - 1) : i \in 1..Len(t) /\ ~(a =< i)
    BY <1>1, <2>1
  <2> QED BY <1>1, <2>1, <2>2 DEF a
<1> QED BY <1>7, <1>8 DEF First

(* r is s and then t. *)
Joins(r, s, t) ==
  /\ Len(r) = Len(s) + Len(t)
  /\ \A i \in 1..Len(s) + Len(t) : r[i] = IF i <= Len(s) THEN s[i] ELSE t[i - Len(s)]

LEMMA JoinedFacts ==
  ASSUME NEW s \in Texts, NEW t \in Texts
  PROVE  s \o t \in Texts /\ Joins(s \o t, s, t)
BY ConcatProperties DEF Texts, Joins

LEMMA JoinedAt ==
  ASSUME NEW r, NEW s, NEW t, NEW m \in Nat, NEW n \in Nat, Len(s) = m, Len(t) = n,
         Joins(r, s, t)
  PROVE  /\ Len(r) = m + n
         /\ \A i \in 1..m : r[i] = s[i]
         /\ \A i \in 1..n : r[m + i] = t[i]
<1>1. \A i \in 1..m + n : r[i] = IF i <= m THEN s[i] ELSE t[i - m]
  BY DEF Joins
<1>2. \A i \in 1..m : r[i] = s[i]
  BY <1>1
<1>3. ASSUME NEW i \in 1..n PROVE r[m + i] = t[i]
  <2>1. m + i \in 1..m + n /\ ~(m + i <= m) /\ m + i - m = i
    OBVIOUS
  <2> QED BY <1>1, <2>1
<1> QED BY <1>2, <1>3 DEF Joins

(* A patched text, piece by piece. *)
LEMMA PatchedFacts ==
  ASSUME NEW c \in Texts, NEW a \in 1..Len(c),
         First(c, a)
  PROVE  /\ Patched(c) \in Texts /\ Len(Patched(c)) = Len(c) + 5
         /\ \A i \in 1..a : Patched(c)[i] = c[i]
         /\ Patched(c)[a + 1] = "nl" /\ Patched(c)[a + 2] = "nl"
         /\ Patched(c)[a + 3] = "BEGIN" /\ Patched(c)[a + 4] = "dofile"
         /\ Patched(c)[a + 5] = "END"
         /\ \A i \in (a + 6)..(Len(c) + 5) : Patched(c)[i] = c[i - 5]
<1> DEFINE s == SubSeq(c, 1, a)
           w == <<"nl", "nl">>
           e == SubSeq(c, a + 1, Len(c))
           n == Len(c)
<1>1. a \in Nat /\ n \in Nat /\ a <= n /\ a \in 0..n
  BY TextFacts
<1>2. s \in Texts /\ Len(s) = a /\ \A i \in 1..a : s[i] = c[i]
  BY <1>1, CutFacts
<1>3. e \in Texts /\ Len(e) = n - a /\ \A i \in 1..n - a : e[i] = c[a + i]
  BY <1>1, RestFacts
<1>4. w \in Texts /\ Len(w) = 2 /\ w[1] = "nl" /\ w[2] = "nl"
  BY MarkFacts DEF Texts
<1>5. /\ Loader \in Texts /\ Len(Loader) = 3
      /\ Loader[1] = "BEGIN" /\ Loader[2] = "dofile" /\ Loader[3] = "END"
  BY MarkFacts
<1>6. Patched(c) = ((s \o w) \o Loader) \o e
  BY DEF Patched, First
<1> HIDE DEF s, w, e, n
(* The lengths as constants of their own: the lemma on \o is stated of such. *)
<1>7. PICK two \in Nat, three \in Nat, a2 \in Nat, a5 \in Nat, m \in Nat :
        two = 2 /\ three = 3 /\ a2 = a + two /\ a5 = a2 + three /\ m = n - a
  <2>1. a + 2 \in Nat /\ (a + 2) + 3 \in Nat /\ n - a \in Nat
    BY <1>1
  <2> QED BY <2>1
<1>8. two \in Nat /\ three \in Nat /\ a2 \in Nat /\ a5 \in Nat /\ m \in Nat /\ a \in Nat
  BY <1>1, <1>7
<1>9. Len(s) = a /\ Len(w) = two /\ Len(Loader) = three /\ Len(e) = m
  BY <1>2, <1>3, <1>4, <1>5, <1>7
<1> DEFINE p == s \o w
           q == p \o Loader
           P == q \o e
<1>10. p \in Texts /\ Joins(p, s, w)
  BY <1>2, <1>4, JoinedFacts
<1>11. q \in Texts /\ Joins(q, p, Loader)
  BY <1>5, <1>10, JoinedFacts
<1>12. P \in Texts /\ Joins(P, q, e)
  BY <1>3, <1>11, JoinedFacts
<1>13. Patched(c) = P
  BY <1>6
<1> HIDE DEF p, q, P
<1>14. /\ Len(p) = a + two
       /\ \A i \in 1..a : p[i] = s[i]
       /\ \A i \in 1..two : p[a + i] = w[i]
  <2>1. Len(s) = a /\ Len(w) = two /\ Joins(p, s, w) /\ a \in Nat /\ two \in Nat
    BY <1>8, <1>9, <1>10
  <2>2. Len(p) = a + two
    BY <2>1, JoinedAt
  <2>3. \A i \in 1..a : p[i] = s[i]
    BY <2>1, JoinedAt
  <2>4. \A i \in 1..two : p[a + i] = w[i]
    BY <2>1, JoinedAt
  <2> QED BY <2>2, <2>3, <2>4
<1>15. Len(p) = a2
  BY <1>7, <1>14
<1>16. /\ Len(q) = a2 + three
       /\ \A i \in 1..a2 : q[i] = p[i]
       /\ \A i \in 1..three : q[a2 + i] = Loader[i]
  <2>1. Len(p) = a2 /\ Len(Loader) = three /\ Joins(q, p, Loader)
        /\ a2 \in Nat /\ three \in Nat
    BY <1>8, <1>9, <1>11, <1>15
  <2>2. Len(q) = a2 + three
    BY <2>1, JoinedAt
  <2>3. \A i \in 1..a2 : q[i] = p[i]
    BY <2>1, JoinedAt
  <2>4. \A i \in 1..three : q[a2 + i] = Loader[i]
    BY <2>1, JoinedAt
  <2> QED BY <2>2, <2>3, <2>4
<1>17. Len(q) = a5
  BY <1>7, <1>16
<1>18. /\ Len(P) = a5 + m
       /\ \A i \in 1..a5 : P[i] = q[i]
       /\ \A i \in 1..m : P[a5 + i] = e[i]
  BY <1>8, <1>9, <1>12, <1>17, JoinedAt
<1>19. \A i \in 1..a : P[i] = c[i]
  <2>1. \A i \in 1..a : i \in 1..a5 /\ i \in 1..a2
    BY <1>7
  <2> QED BY <1>2, <1>14, <1>16, <1>18, <2>1
<1>20. P[a + 1] = "nl" /\ P[a + 2] = "nl"
  <2>1. \A i \in 1..two : a + i \in 1..a2 /\ a + i \in 1..a5
    BY <1>1, <1>7
  <2>2. \A i \in 1..two : P[a + i] = w[i]
    BY <1>14, <1>16, <1>18, <2>1
  <2>3. 1 \in 1..two /\ 2 \in 1..two
    BY <1>7
  <2> QED BY <1>4, <2>2, <2>3
<1>21. P[a + 3] = "BEGIN" /\ P[a + 4] = "dofile" /\ P[a + 5] = "END"
  <2>1. \A i \in 1..three : a2 + i \in 1..a5
    BY <1>7
  <2>2. \A i \in 1..three : P[a2 + i] = Loader[i]
    BY <1>16, <1>18, <2>1
  <2>3. /\ 1 \in 1..three /\ 2 \in 1..three /\ 3 \in 1..three
        /\ a2 + 1 = a + 3 /\ a2 + 2 = a + 4 /\ a2 + 3 = a + 5
    BY <1>1, <1>7
  <2>4. P[a2 + 1] = "BEGIN" /\ P[a2 + 2] = "dofile" /\ P[a2 + 3] = "END"
    BY <1>5, <2>2, <2>3
  <2> QED BY <2>3, <2>4
<1>22. \A i \in (a + 6)..(n + 5) : P[i] = c[i - 5]
  <2>1. ASSUME NEW i \in (a + 6)..(n + 5) PROVE P[i] = c[i - 5]
    <3>1. PICK k \in 1..m : k = i - a5
      <4>1. a5 = a + 5 /\ m = n - a /\ i >= a + 6 /\ i <= n + 5 /\ i \in Int
        BY <1>1, <1>7
      <4>2. i - a5 \in 1..m
        BY <1>1, <4>1
      <4> QED BY <4>2
    <3>2. P[a5 + k] = e[k]
      BY <1>18
    <3>3. k \in 1..n - a /\ a5 + k = i /\ a + k = i - 5
      <4>1. a5 = a + 5 /\ m = n - a /\ i \in Int
        BY <1>1, <1>7
      <4> QED BY <1>1, <3>1, <4>1
    <3>4. e[k] = c[a + k]
      BY <1>3, <3>3
    <3> QED BY <3>2, <3>3, <3>4
  <2> QED BY <2>1
<1>23. Len(P) = n + 5
  <2>1. a5 = a + 5 /\ m = n - a /\ Len(P) = a5 + m
    BY <1>1, <1>7, <1>18
  <2> QED BY <1>1, <2>1
<1> QED BY <1>12, <1>13, <1>19, <1>20, <1>21, <1>22, <1>23 DEF n

-----------------------------------------------------------------------------
(* What stripLoader does to the texts there can be. *)

LEMMA PlainBlocks == ASSUME NEW t, Plain(t) PROVE Blocks(t) = {}
<1>1. DOMAIN t = 1..Len(t) /\ \A i \in 1..Len(t) : t[i] # "END"
  BY TextFacts DEF Plain
<1>2. ASSUME NEW m \in Blocks(t) PROVE FALSE
  <2>1. m[2] \in DOMAIN t /\ t[m[2]] = "END"
    BY DEF Blocks, WholeBlock
  <2> QED BY <1>1, <2>1
<1> QED BY <1>2

LEMMA PatchedBlocks ==
  ASSUME NEW c, Plain(c), NEW a \in 1..Len(c),
         First(c, a), \A i \in 1..(a - 1) : c[i] # Anchor
  PROVE  Blocks(Patched(c)) = {<<a + 3, a + 5>>}
<1> DEFINE P == Patched(c)
           n == Len(c)
<1>1. c \in Texts /\ n \in Nat /\ a \in Nat /\ a >= 1 /\ a <= n
  BY TextFacts DEF Plain
<1>2. /\ P \in Texts /\ Len(P) = n + 5
      /\ \A i \in 1..a : P[i] = c[i]
      /\ P[a + 1] = "nl" /\ P[a + 2] = "nl"
      /\ P[a + 3] = "BEGIN" /\ P[a + 4] = "dofile" /\ P[a + 5] = "END"
      /\ \A i \in (a + 6)..(n + 5) : P[i] = c[i - 5]
  BY <1>1, PatchedFacts
<1>3. DOMAIN P = 1..n + 5
  BY <1>2, TextFacts
<1>4. \A i \in 1..n : c[i] # "END" /\ (c[i] = "BEGIN" => \E j \in 1..(i - 1) : c[j] = Anchor)
  BY DEF Plain
<1> HIDE DEF P, n
<1>5. ASSUME NEW i \in 1..n + 5, P[i] = "END" PROVE i = a + 5
  <2>1. \/ i \in 1..a /\ i \in 1..n
        \/ i \in {a + 1, a + 2, a + 3, a + 4}
        \/ i = a + 5
        \/ i \in (a + 6)..(n + 5) /\ i - 5 \in 1..n
    BY <1>1
  <2> QED BY <1>2, <1>4, <1>5, <2>1
<1>6. ASSUME NEW i \in 1..a + 4, P[i] = "BEGIN" PROVE i = a + 3
  <2>1. CASE i \in 1..a
    <3>1. i \in 1..n /\ c[i] = "BEGIN"
      <4>1. i \in 1..n
        BY <1>1, <2>1
      <4>2. P[i] = c[i]
        BY <1>2, <2>1
      <4> QED BY <1>6, <4>1, <4>2
    <3>2. PICK j \in 1..(i - 1) : c[j] = Anchor
      BY <1>4, <3>1
    <3>3. j \in 1..(a - 1)
      BY <1>1, <2>1
    <3> QED BY <3>2, <3>3
  <2>2. CASE i \notin 1..a
    <3>1. i \in {a + 1, a + 2, a + 3, a + 4}
      BY <1>1, <2>2
    <3> QED BY <1>2, <1>6, <3>1
  <2> QED BY <2>1, <2>2
<1>7. WholeBlock(P, a + 3, a + 5)
  <2>1. \A i \in (a + 3)..((a + 5) - 1) : P[i] # "END"
    <3>1. \A i \in (a + 3)..((a + 5) - 1) : i \in 1..n + 5 /\ i # a + 5
      BY <1>1
    <3> QED BY <1>5, <3>1
  <2>2. \A i \in 1..((a + 3) - 1) : P[i] # "BEGIN"
    <3>1. \A i \in 1..((a + 3) - 1) : i \in 1..a + 4 /\ i # a + 3
      BY <1>1
    <3> QED BY <1>6, <3>1
  <2>3. a + 3 < a + 5
    BY <1>1
  <2> QED BY <1>2, <2>1, <2>2, <2>3 DEF WholeBlock
<1>8. ASSUME NEW b \in DOMAIN P, NEW e \in DOMAIN P, WholeBlock(P, b, e)
      PROVE  b = a + 3 /\ e = a + 5
  <2>1. P[b] = "BEGIN" /\ P[e] = "END" /\ b < e /\ b \in 1..n + 5 /\ e \in 1..n + 5
    BY <1>3, <1>8 DEF WholeBlock
  <2>2. e = a + 5
    BY <1>5, <2>1
  <2>3. b \in 1..a + 4
    BY <1>1, <2>1, <2>2
  <2> QED BY <1>6, <2>1, <2>2, <2>3
<1>9. a + 3 \in DOMAIN P /\ a + 5 \in DOMAIN P
  BY <1>1, <1>3
<1>10. Blocks(P) = {<<a + 3, a + 5>>}
  <2>1. <<a + 3, a + 5>> \in Blocks(P)
    BY <1>7, <1>9 DEF Blocks
  <2>2. ASSUME NEW m \in Blocks(P) PROVE m = <<a + 3, a + 5>>
    <3>1. m \in (DOMAIN P) \X (DOMAIN P) /\ WholeBlock(P, m[1], m[2])
      BY DEF Blocks
    <3>2. m = <<m[1], m[2]>> /\ m[1] \in DOMAIN P /\ m[2] \in DOMAIN P
      BY <3>1
    <3>3. m[1] = a + 3 /\ m[2] = a + 5
      BY <1>8, <3>1, <3>2
    <3> QED BY <3>2, <3>3
  <2> QED BY <2>1, <2>2
<1> QED BY <1>10 DEF P

LEMMA LineEndsFacts ==
  ASSUME NEW t, NEW b \in Nat, b > 2, t[b - 1] = "nl", t[b - 2] = "nl"
  PROVE  LineEndsBefore(t, b) = 2
<1> DEFINE N == {n \in 0..2 : n < b /\ \A i \in (b - n)..(b - 1) : t[i] = "nl"}
<1>1. 2 \in N
  <2>1. \A i \in (b - 2)..(b - 1) : i = b - 1 \/ i = b - 2
    OBVIOUS
  <2> QED BY <2>1
<1>2. \A n \in N : n \in Int /\ 2 >= n
  OBVIOUS
<1> HIDE DEF N
<1>3. PICK x : x = Max(N)
  OBVIOUS
<1>4. x \in N /\ \A n \in N : x >= n
  BY <1>1, <1>2, <1>3 DEF Max
<1>5. x = 2
  BY <1>1, <1>2, <1>4
<1> QED BY <1>3, <1>5 DEF LineEndsBefore, N

LEMMA WithoutAt ==
  ASSUME NEW t, NEW b, NEW e, NEW k, LineEndsBefore(t, b) = k
  PROVE  WithoutBlock(t, <<b, e>>) = SubSeq(t, 1, b - 1 - k) \o SubSeq(t, e + 1, Len(t))
BY DEF WithoutBlock

(* Without its block and the two line ends before it, the patched text is  *)
(* the text it was.                                                        *)
LEMMA PatchedWithout ==
  ASSUME NEW c \in Texts, NEW a \in 1..Len(c), First(c, a)
  PROVE  WithoutBlock(Patched(c), <<a + 3, a + 5>>) = c
<1> DEFINE P == Patched(c)
           n == Len(c)
           s == SubSeq(P, 1, a)
           e == SubSeq(P, a + 6, n + 5)
<1>1. n \in Nat /\ a \in Nat /\ a >= 1 /\ a <= n
  BY TextFacts
<1>2. /\ P \in Texts /\ Len(P) = n + 5
      /\ \A i \in 1..a : P[i] = c[i]
      /\ P[a + 1] = "nl" /\ P[a + 2] = "nl"
      /\ \A i \in (a + 6)..(n + 5) : P[i] = c[i - 5]
  BY <1>1, PatchedFacts
<1> HIDE DEF P, n
<1>3. PICK b \in Nat, f \in Nat : b = a + 3 /\ f = a + 5
  BY <1>1
<1>4. WithoutBlock(P, <<a + 3, a + 5>>) = s \o e
  <2>1. b > 2 /\ b - 1 = a + 2 /\ b - 2 = a + 1
    BY <1>1, <1>3
  <2>2. LineEndsBefore(P, b) = 2
    BY <1>2, <1>3, <2>1, LineEndsFacts
  <2>3. WithoutBlock(P, <<b, f>>) = SubSeq(P, 1, b - 1 - 2) \o SubSeq(P, f + 1, Len(P))
    BY <2>2, WithoutAt
  <2>4. b - 1 - 2 = a /\ f + 1 = a + 6 /\ Len(P) = n + 5
    BY <1>1, <1>2, <1>3
  <2> QED BY <1>3, <2>3, <2>4
<1>5. s \in Texts /\ Len(s) = a /\ \A i \in 1..a : s[i] = P[i]
  <2>1. a \in 0..Len(P)
    BY <1>1, <1>2
  <2> QED BY <1>2, <2>1, CutFacts
<1>6. /\ e \in Texts /\ Len(e) = n - a
      /\ \A i \in 1..n - a : e[i] = P[a + 5 + i]
  <2>1. PICK k \in 0..Len(P) : k = a + 5
    <3>1. Len(P) = n + 5
      BY <1>2
    <3>2. a + 5 \in 0..n + 5
      BY <1>1
    <3> QED BY <3>1, <3>2
  <2>2. k + 1 = a + 6 /\ Len(P) - k = n - a
    BY <1>1, <1>2, <2>1
  <2>3. /\ SubSeq(P, k + 1, Len(P)) \in Texts /\ Len(SubSeq(P, k + 1, Len(P))) = Len(P) - k
        /\ \A i \in 1..Len(P) - k : SubSeq(P, k + 1, Len(P))[i] = P[k + i]
    BY <1>2, RestFacts
  <2> QED BY <1>2, <2>1, <2>2, <2>3
<1> HIDE DEF s, e
<1>7. PICK m \in Nat : m = n - a
  <2>1. n - a \in Nat
    BY <1>1
  <2> QED BY <2>1
<1>8. /\ s \o e \in Texts /\ Len(s \o e) = a + m
      /\ \A i \in 1..a : (s \o e)[i] = s[i]
      /\ \A i \in 1..m : (s \o e)[a + i] = e[i]
  <2> DEFINE r == s \o e
  <2>1. r \in Texts /\ Joins(r, s, e)
    BY <1>5, <1>6, JoinedFacts
  <2>2. Len(s) = a /\ Len(e) = m /\ a \in Nat /\ m \in Nat
    BY <1>1, <1>5, <1>6, <1>7
  <2> HIDE DEF r
  <2>3. Len(r) = a + m
    BY <2>1, <2>2, JoinedAt
  <2>4. \A i \in 1..a : r[i] = s[i]
    BY <2>1, <2>2, JoinedAt
  <2>5. \A i \in 1..m : r[a + i] = e[i]
    BY <2>1, <2>2, JoinedAt
  <2> QED BY <2>1, <2>3, <2>4, <2>5 DEF r
<1> DEFINE r == s \o e
<1> HIDE DEF r
<1>9. ASSUME NEW i \in 1..n PROVE r[i] = c[i]
  <2>1. CASE i <= a
    BY <1>1, <1>2, <1>5, <1>8, <2>1 DEF r
  <2>2. CASE ~(i <= a)
    <3>1. PICK k \in 1..m : k = i - a
      BY <1>1, <1>7, <2>2
    <3>2. r[a + k] = e[k] /\ e[k] = P[a + 5 + k]
      BY <1>6, <1>7, <1>8, <3>1 DEF r
    <3>3. a + k = i /\ a + 5 + k \in (a + 6)..(n + 5)
      BY <1>1, <2>2, <3>1
    <3>4. PICK j \in (a + 6)..(n + 5) : j = a + 5 + k
      BY <3>3
    <3>5. P[j] = c[j - 5]
      BY <1>2
    <3>6. j - 5 = i
      BY <1>1, <3>1, <3>4
    <3>7. r[i] = P[j]
      BY <3>2, <3>3, <3>4
    <3> QED BY <3>5, <3>6, <3>7
  <2> QED BY <2>1, <2>2
<1>10. r \in Seq(Pieces) /\ c \in Seq(Pieces) /\ Len(r) = Len(c)
  BY <1>1, <1>7, <1>8 DEF r, Texts, n
<1>11. r = c
  BY <1>9, <1>10, SeqEqual DEF n
<1> QED BY <1>4, <1>11 DEF P, r

(* One pass of stripLoader's replacement: the first block goes. *)
Once(t) == IF Blocks(t) = {} THEN t ELSE WithoutBlock(t, CHOOSE m \in Blocks(t) : TRUE)

(* When one pass makes t the text c, and c has no block, c is the outcome. *)
LEMMA StripFacts ==
  ASSUME NEW t \in Texts, NEW c, Once(t) = c, Blocks(c) = {}
  PROVE  stripLoader(t) = c
<1> DEFINE V == {t, c}
           L == Len(t)
           Passes(h) == h = [n \in 0..L |->
             IF n = 0 THEN t
             ELSE LET u == h[n - 1]
                  IN IF Blocks(u) = {} THEN u
                     ELSE WithoutBlock(u, CHOOSE m \in Blocks(u) : TRUE)]
           after == CHOOSE h : Passes(h)
           step == [k \in 1..L |-> [u \in V |-> c]]
<1>1. L \in Nat /\ DOMAIN t = 1..L
  BY TextFacts
<1>2. stripLoader(t) = after[L]
  BY DEF stripLoader
<1>3. \A u \in V : Once(u) = c
  <2>1. Once(c) = c
    BY DEF Once
  <2> QED BY <2>1
<1>4. step \in [1..L -> [V -> V]]
  OBVIOUS
<1>5. \A k \in 1..L : \A u \in V : step[k][u] = c
  OBVIOUS
<1> HIDE DEF step
<1>6. PICK g \in [0..L -> V] : Recursion(L, t, step, g)
  <2>1. t \in V
    OBVIOUS
  <2> HIDE DEF V, L
  <2> QED BY <1>1, <1>4, <2>1, RecursionExists
<1>7. g = [n \in 0..L |-> IF n = 0 THEN t ELSE step[n][g[n - 1]]]
  BY <1>6 DEF Recursion
<1>8. Passes(g)
  <2>1. \A n \in 0..L : n # 0 => n \in 1..L /\ n - 1 \in 0..L
    BY <1>1
  <2> HIDE DEF V, L
  <2>2. ASSUME NEW n \in 0..L
        PROVE  (IF n = 0 THEN t ELSE step[n][g[n - 1]]) = IF n = 0 THEN t ELSE Once(g[n - 1])
    <3>1. CASE n # 0
      BY <1>3, <1>5, <1>6, <2>1, <3>1
    <3>2. CASE n = 0
      BY <3>2
    <3> QED BY <3>1, <3>2
  <2>3. g = [n \in 0..L |-> IF n = 0 THEN t ELSE Once(g[n - 1])]
    BY <1>7, <2>2
  <2> QED BY <2>3 DEF Once
<1>9. Passes(after)
  <2> HIDE DEF Passes
  <2> QED BY <1>8
<1>10. after = [n \in 0..L |-> IF n = 0 THEN t ELSE Once(after[n - 1])]
  <2> HIDE DEF after
  <2> QED BY <1>9 DEF Once
<1> HIDE DEF after, Passes, V
<1>11. after[0] = t /\ \A n \in 1..L : after[n] = Once(after[n - 1])
  <2> HIDE DEF L
  <2> QED BY <1>1, <1>10, Predecessors
<1>12. \A n \in 0..L : after[n] \in V
  <2>1. \A n \in 1..L : after[n - 1] \in V => after[n] = step[n][after[n - 1]]
    BY <1>3, <1>5, <1>11
  <2>2. after[0] \in V
    BY <1>11 DEF V
  <2> HIDE DEF L
  <2> QED BY <1>1, <1>4, <2>1, <2>2, RecursionStays
<1>13. CASE L = 0
  <2>1. Blocks(t) = {}
    BY <1>1, <1>13 DEF Blocks
  <2>2. t = c
    BY <2>1 DEF Once
  <2> QED BY <1>2, <1>11, <1>13, <2>2
<1>14. CASE L # 0
  <2> HIDE DEF L
  <2>1. L \in 1..L /\ L - 1 \in 0..L
    BY <1>1, <1>14
  <2>2. after[L] = Once(after[L - 1]) /\ after[L - 1] \in V
    BY <1>11, <1>12, <2>1
  <2> QED BY <1>2, <1>3, <2>2
<1> QED BY <1>13, <1>14

(* A plain text is its own outcome, and that of the text patched into it. *)
LEMMA StripPlain == ASSUME NEW t, Plain(t) PROVE stripLoader(t) = t
<1>1. t \in Texts /\ Blocks(t) = {}
  BY PlainBlocks DEF Plain
<1>2. Once(t) = t
  BY <1>1 DEF Once
<1> QED BY <1>1, <1>2, StripFacts

LEMMA StripPatched ==
  ASSUME NEW c, Plain(c), HasAnchor(c)
  PROVE  /\ Patched(c) \in Texts /\ stripLoader(Patched(c)) = c
         /\ Blocks(Patched(c)) # {}
<1>1. c \in Texts /\ Blocks(c) = {}
  BY PlainBlocks DEF Plain
<1>2. PICK a \in 1..Len(c) : First(c, a) /\ \A i \in 1..(a - 1) : c[i] # Anchor
  BY <1>1, FirstAnchor
<1>3. Patched(c) \in Texts
  BY <1>1, <1>2, PatchedFacts
<1>4. Blocks(Patched(c)) = {<<a + 3, a + 5>>}
  BY <1>2, PatchedBlocks
<1>5. WithoutBlock(Patched(c), <<a + 3, a + 5>>) = c
  BY <1>1, <1>2, PatchedWithout
<1>6. Once(Patched(c)) = c
  <2>1. PICK m : m = <<a + 3, a + 5>>
    OBVIOUS
  <2>2. (CHOOSE x \in {m} : TRUE) = m
    OBVIOUS
  <2> QED BY <1>4, <1>5, <2>1, <2>2 DEF Once
<1> QED BY <1>1, <1>3, <1>4, <1>6, StripFacts

LEMMA PlainSound == ASSUME NEW t, Plain(t) PROVE Sound(t)
BY StripPlain DEF Sound

LEMMA PatchedSound == ASSUME NEW c, Plain(c), HasAnchor(c) PROVE Sound(Patched(c))
BY StripPatched DEF Sound

LEMMA SoundText == ASSUME NEW t, Sound(t) PROVE t \in Texts /\ Plain(stripLoader(t))
<1>1. Plain(stripLoader(t)) /\ (t = stripLoader(t) \/ (HasAnchor(stripLoader(t)) /\ t = Patched(stripLoader(t))))
  BY DEF Sound
<1> QED BY <1>1, StripPatched DEF Plain

-----------------------------------------------------------------------------
(* What a write that fails leaves. *)

LEMMA PlainCut ==
  ASSUME NEW t, Plain(t), NEW n \in 0..Len(t)
  PROVE  Plain(SubSeq(t, 1, n))
<1> DEFINE s == SubSeq(t, 1, n)
<1>1. t \in Texts /\ n \in Nat
  BY TextFacts DEF Plain
<1>2. s \in Texts /\ Len(s) = n /\ \A i \in 1..n : s[i] = t[i] /\ i \in 1..Len(t)
  BY <1>1, CutFacts
<1> HIDE DEF s
<1>3. ASSUME NEW i \in 1..n
      PROVE  s[i] # "END" /\ (s[i] = "BEGIN" => \E j \in 1..(i - 1) : s[j] = Anchor)
  <2>1. i \in 1..Len(t) /\ s[i] = t[i]
    BY <1>2
  <2>2. \A j \in 1..(i - 1) : s[j] = t[j]
    <3>1. \A j \in 1..(i - 1) : j \in 1..n
      BY <1>1
    <3> QED BY <1>2, <3>1
  <2> QED BY <2>1, <2>2 DEF Plain
<1>4. Plain(s)
  BY <1>2, <1>3 DEF Plain
<1> QED BY <1>4 DEF s

(* A patched text cut behind its loader is the text, cut, and patched; cut *)
(* before that, it is plain.                                               *)
LEMMA PatchedCut ==
  ASSUME NEW c, Plain(c), HasAnchor(c), NEW k \in 0..Len(Patched(c))
  PROVE  Sound(SubSeq(Patched(c), 1, k))
<1> DEFINE P == Patched(c)
           s == SubSeq(P, 1, k)
           n == Len(c)
<1>1. c \in Texts
  BY DEF Plain
<1>2. PICK a \in 1..Len(c) : First(c, a) /\ c[a] = Anchor /\ \A i \in 1..(a - 1) : c[i] # Anchor
  BY <1>1, FirstAnchor
<1>3. /\ P \in Texts /\ Len(P) = n + 5
      /\ \A i \in 1..a : P[i] = c[i]
      /\ P[a + 1] = "nl" /\ P[a + 2] = "nl"
      /\ P[a + 3] = "BEGIN" /\ P[a + 4] = "dofile" /\ P[a + 5] = "END"
      /\ \A i \in (a + 6)..(n + 5) : P[i] = c[i - 5]
  BY <1>1, <1>2, PatchedFacts
<1>4. n \in Nat /\ a \in Nat /\ a >= 1 /\ a <= n /\ k \in Nat /\ k <= n + 5
  <2>1. Len(P) = n + 5
    BY <1>3
  <2> QED BY <1>1, <2>1, TextFacts
<1> HIDE DEF P
<1>5. s \in Texts /\ Len(s) = k /\ \A i \in 1..k : s[i] = P[i]
  BY <1>3, CutFacts DEF P
<1> HIDE DEF s, n
<1>6. CASE k < a + 5
  <2>1. ASSUME NEW i \in 1..k
        PROVE  s[i] # "END" /\ (s[i] = "BEGIN" => \E j \in 1..(i - 1) : s[j] = Anchor)
    <3>1. s[i] = P[i]
      BY <1>5
    <3>2. CASE i \in 1..a
      <4>1. i \in 1..n /\ P[i] = c[i] /\ \A j \in 1..(i - 1) : j \in 1..a /\ j \in 1..k
        BY <1>3, <1>4, <3>2
      <4>2. \A j \in 1..(i - 1) : s[j] = c[j]
        BY <1>3, <1>5, <4>1
      <4> QED BY <3>1, <4>1, <4>2 DEF Plain, n
    <3>3. CASE i \notin 1..a
      <4>1. i \in {a + 1, a + 2, a + 3, a + 4}
        BY <1>4, <1>6, <3>3
      <4>2. P[i] # "END"
        BY <1>3, <4>1
      <4>3. a \in 1..(i - 1) /\ s[a] = Anchor
        <5>1. a \in 1..(i - 1) /\ a \in 1..k /\ a \in 1..a
          BY <1>4, <4>1
        <5> QED BY <1>2, <1>3, <1>5, <5>1
      <4> QED BY <3>1, <4>2, <4>3
    <3> QED BY <3>2, <3>3
  <2>2. Plain(s)
    BY <1>5, <2>1 DEF Plain
  <2> QED BY <2>2, PlainSound DEF s, P
<1>7. CASE ~(k < a + 5)
  <2>1. PICK m \in 0..n : m = k - 5
    BY <1>4, <1>7
  <2> DEFINE d == SubSeq(c, 1, m)
             Q == Patched(d)
  <2>2. /\ m >= a /\ m \in Nat /\ k = m + 5
    BY <1>4, <1>7, <2>1
  <2>3. Plain(d)
    BY <2>1, PlainCut DEF n
  <2>4. d \in Texts /\ Len(d) = m /\ \A i \in 1..m : d[i] = c[i]
    BY <1>1, <2>1, CutFacts DEF n
  <2> HIDE DEF d
  <2>5. a \in 1..Len(d) /\ d[a] = Anchor /\ HasAnchor(d)
    <3>1. a \in 1..m
      BY <1>4, <2>2
    <3> QED BY <1>2, <2>4, <3>1, TextFacts
  <2>6. First(d, a)
    <3>1. PICK b \in 1..Len(d) :
            First(d, b) /\ d[b] = Anchor /\ \A i \in 1..(b - 1) : d[i] # Anchor
      BY <2>4, <2>5, FirstAnchor
    <3>2. b \in Nat /\ b \in 1..m
      BY <2>2, <2>4
    <3>3. ~(a < b)
      <4>1. a < b => a \in 1..(b - 1)
        BY <1>4, <3>2
      <4> QED BY <2>5, <3>1, <4>1
    <3>4. ~(b < a)
      <4>1. b < a => b \in 1..(a - 1)
        BY <1>4, <3>2
      <4>2. c[b] = Anchor
        BY <2>4, <3>1, <3>2
      <4> QED BY <1>2, <4>1, <4>2
    <3>5. a = b
      BY <1>4, <3>2, <3>3, <3>4
    <3> QED BY <3>1, <3>5
  <2>7. /\ Q \in Texts /\ Len(Q) = m + 5
        /\ \A i \in 1..a : Q[i] = d[i]
        /\ Q[a + 1] = "nl" /\ Q[a + 2] = "nl"
        /\ Q[a + 3] = "BEGIN" /\ Q[a + 4] = "dofile" /\ Q[a + 5] = "END"
        /\ \A i \in (a + 6)..(m + 5) : Q[i] = d[i - 5]
    BY <2>4, <2>5, <2>6, PatchedFacts
  <2> HIDE DEF Q
  <2>8. ASSUME NEW i \in 1..k PROVE s[i] = Q[i]
    <3>1. s[i] = P[i]
      BY <1>5
    <3>2. CASE i \in 1..a
      <4>1. i \in 1..m
        BY <1>4, <2>2, <3>2
      <4> QED BY <1>3, <2>4, <2>7, <3>1, <3>2, <4>1
    <3>3. CASE i \in {a + 1, a + 2, a + 3, a + 4, a + 5}
      BY <1>3, <2>7, <3>1, <3>3
    <3>4. CASE i \notin 1..a /\ i \notin {a + 1, a + 2, a + 3, a + 4, a + 5}
      <4>1. i \in (a + 6)..(m + 5) /\ i \in (a + 6)..(n + 5) /\ i - 5 \in 1..m
        BY <1>4, <2>2, <3>4
      <4>2. P[i] = c[i - 5] /\ Q[i] = d[i - 5]
        BY <1>3, <2>7, <4>1
      <4>3. d[i - 5] = c[i - 5]
        BY <2>4, <4>1
      <4> QED BY <3>1, <4>2, <4>3
    <3> QED BY <3>2, <3>3, <3>4
  <2>9. s = Q
    <3>1. s \in Seq(Pieces) /\ Q \in Seq(Pieces) /\ Len(s) = Len(Q)
      BY <1>5, <2>2, <2>7 DEF Texts
    <3>2. \A i \in 1..Len(s) : s[i] = Q[i]
      BY <1>5, <2>8
    <3> QED BY <3>1, <3>2, SeqEqual
  <2> QED BY <2>3, <2>5, <2>9, PatchedSound DEF s, P, Q
<1> QED BY <1>6, <1>7

(* The beginning of a sound text is sound. *)
LEMMA SoundCut ==
  ASSUME NEW t, Sound(t), NEW b \in Beginnings(t)
  PROVE  Sound(b)
<1>1. t \in Texts /\ Plain(stripLoader(t))
  BY SoundText
<1>2. PICK n \in 0..(Len(t) - 1) : b = SubSeq(t, 1, n)
  BY DEF Beginnings
<1>3. n \in 0..Len(t)
  BY <1>1, TextFacts
<1>4. CASE t = stripLoader(t)
  <2>1. Plain(t)
    BY <1>1, <1>4
  <2> QED BY <1>2, <1>3, <2>1, PlainCut, PlainSound
<1>5. CASE HasAnchor(stripLoader(t)) /\ t = Patched(stripLoader(t))
  BY <1>1, <1>2, <1>3, <1>5, PatchedCut
<1> QED BY <1>4, <1>5 DEF Sound

-----------------------------------------------------------------------------
(* InstallerInv, step by step. *)

LEMMA GameTextFacts ==
  /\ Len(GameTexts) \in Nat /\ 1 \in 1..Len(GameTexts)
  /\ \A v \in 1..Len(GameTexts) : Plain(GameTexts[v]) /\ GameTexts[v] # Absent
<1>1. /\ GameTexts \in Seq(Seq(GamePieces)) /\ GameTexts # <<>>
      /\ Absent \notin Texts /\ {"BEGIN", "END"} \cap GamePieces = {}
  BY FilesAssumption DEF FilesAssumption, Texts
<1>2. Len(GameTexts) \in Nat /\ 1 \in 1..Len(GameTexts) /\ DOMAIN GameTexts = 1..Len(GameTexts)
  BY <1>1, EmptySeq, LenProperties
<1>3. ASSUME NEW v \in 1..Len(GameTexts) PROVE Plain(GameTexts[v]) /\ GameTexts[v] # Absent
  <2>1. GameTexts[v] \in Seq(GamePieces)
    BY <1>1
  <2>2. GameTexts[v] \in Texts
    BY <2>1, SeqMonotonic DEF Texts, Pieces
  <2>3. \A i \in 1..Len(GameTexts[v]) : GameTexts[v][i] \notin {"BEGIN", "END"}
    BY <1>1, <2>1, ElementOfSeq
  <2>4. GameTexts[v] # Absent
    BY <1>1, <2>2
  <2> QED BY <2>2, <2>3, <2>4 DEF Plain
<1> QED BY <1>2, <1>3

LEMMA InitInstaller == Init => InstallerInv
<1> SUFFICES ASSUME Init PROVE InstallerInv
  OBVIOUS
<1>1. /\ Plain(G) /\ G # Absent /\ G \in Texts /\ stripLoader(G) = G /\ Sound(G)
      /\ 1 \in 1..Len(GameTexts)
  BY GameTextFacts, StripPlain, PlainSound DEF G, Plain
<1>2. /\ disk = [p \in Profiles |->
           [token |-> Absent, hook |-> Absent, script |-> Absent, mission |-> Absent]]
      /\ version = 1 /\ scripting = G /\ backup = Absent
      /\ newest \in Profiles /\ profile = newest /\ source = <<>>
      /\ dcs = Off /\ pc = "idle" /\ revoked = FALSE /\ made = 0 /\ faults = 0
  BY DEF Init, G
<1>3. Off \in Games /\ Off.mission = FALSE /\ Off.gui = NoBridge /\ Off.missionBridge = NoBridge
  BY DEF Off, Games
<1>4. InstallerTypeOK
  <2>1. disk \in [Profiles -> Files]
    BY <1>2 DEF Files, Copies
  <2>2. source \in Texts
    BY <1>2 DEF Texts
  <2> QED BY <1>1, <1>2, <1>3, <2>1, <2>2 DEF InstallerTypeOK
<1>5. RunningGameKeepsAccepting /\ OpenInv
  BY <1>2, <1>3 DEF RunningGameKeepsAccepting, OpenInv
<1>6. FilesInv
  BY <1>2 DEF FilesInv, Copying, Patching, Removing
<1>7. TextInv /\ KeepInv
  BY <1>1, <1>2 DEF TextInv, KeepInv, InPlace
<1> QED BY <1>4, <1>5, <1>6, <1>7 DEF InstallerInv

Fields == {"token", "hook", "script", "mission"}

(* One file of the command's profile written. *)
LEMMA FileFacts ==
  ASSUME InstallerTypeOK, NEW f \in Fields, NEW v \in Nat \cup Copies,
         f = "token" => v \in Nat \cup {Absent}, f # "token" => v \in Copies, File(f, v)
  PROVE  /\ disk' \in [Profiles -> Files]
         /\ \A p \in Profiles : p # profile => disk'[p] = disk[p]
         /\ disk'[profile].token = IF f = "token" THEN v ELSE disk[profile].token
         /\ disk'[profile].hook = IF f = "hook" THEN v ELSE disk[profile].hook
         /\ disk'[profile].script = IF f = "script" THEN v ELSE disk[profile].script
         /\ disk'[profile].mission = IF f = "mission" THEN v ELSE disk[profile].mission
<1>1. /\ disk \in [Profiles -> Files] /\ profile \in Profiles /\ disk[profile] \in Files
      /\ disk' = [disk EXCEPT ![profile][f] = v]
  BY DEF InstallerTypeOK, File
<1> DEFINE x == [disk[profile] EXCEPT ![f] = v]
<1>2. disk' = [disk EXCEPT ![profile] = x]
  BY <1>1
<1>3. /\ x \in Files
      /\ x.token = IF f = "token" THEN v ELSE disk[profile].token
      /\ x.hook = IF f = "hook" THEN v ELSE disk[profile].hook
      /\ x.script = IF f = "script" THEN v ELSE disk[profile].script
      /\ x.mission = IF f = "mission" THEN v ELSE disk[profile].mission
  <2>1. CASE f = "token"
    BY <1>1, <2>1 DEF Files
  <2>2. CASE f = "hook"
    BY <1>1, <2>2 DEF Files
  <2>3. CASE f = "script"
    BY <1>1, <2>3 DEF Files
  <2>4. CASE f = "mission"
    BY <1>1, <2>4 DEF Files
  <2> QED BY <2>1, <2>2, <2>3, <2>4 DEF Fields
<1> HIDE DEF x
<1> QED BY <1>1, <1>2, <1>3

(* The running game, and the profile it runs on. *)
LEMMA GameFacts ==
  ASSUME InstallerTypeOK
  PROVE  /\ dcs = Off => ~dcs.mission /\ dcs.gui = NoBridge /\ dcs.missionBridge = NoBridge
         /\ dcs # Off => dcs.profile \in Profiles
         /\ dcs.mission => dcs.profile \in Profiles
         /\ \A b \in {dcs.gui, dcs.missionBridge} :
              b # NoBridge => b \in Nat /\ dcs.profile \in Profiles
<1>1. dcs \in Games /\ (dcs = Off \/ dcs.profile \in Profiles)
  BY DEF InstallerTypeOK
<1>2. dcs = Off => ~dcs.mission /\ dcs.gui = NoBridge /\ dcs.missionBridge = NoBridge
  BY DEF Off
<1>3. dcs.gui \in Nat \cup {NoBridge} /\ dcs.missionBridge \in Nat \cup {NoBridge}
  BY <1>1 DEF Games
<1> QED BY <1>1, <1>2, <1>3

(* A token that is there stays. *)
LEMMA TokensStay ==
  ASSUME InstallerInv, dcs' = dcs, revoked' = revoked,
         \A p \in Profiles : disk[p].token # Absent => disk'[p].token = disk[p].token
  PROVE  RunningGameKeepsAccepting'
<1> SUFFICES ASSUME NEW b \in {dcs.gui, dcs.missionBridge}, b \notin {NoBridge, Refusing}
             PROVE  disk'[dcs.profile].token = b \/ revoked
  BY DEF RunningGameKeepsAccepting, Refusing, Empty
<1>1. b \in Nat /\ dcs.profile \in Profiles
  BY GameFacts DEF InstallerInv
<1>2. disk[dcs.profile].token = b \/ revoked
  BY DEF InstallerInv, RunningGameKeepsAccepting
<1>3. b # Absent
  BY <1>1, FilesAssumption DEF FilesAssumption
<1> QED BY <1>1, <1>2, <1>3

(* The mission the game has open stays. *)
LEMMA MissionsStay ==
  ASSUME InstallerInv, dcs' = dcs,
         \A p \in Profiles : dcs.mission /\ dcs.profile = p
           => disk'[p].mission = disk[p].mission
  PROVE  OpenInv'
BY GameFacts DEF InstallerInv, OpenInv

(* Where the command has got to in a step that writes none of its files. *)
LEMMA DiskStays ==
  ASSUME InstallerInv, UNCHANGED <<disk, dcs, revoked>>,
         \/ pc' \in {"idle", "token", "rm_hook"}
         \/ profile' = profile /\ pc' = pc
         \/ profile' = profile /\ pc = "read" /\ pc' = "backup"
         \/ profile' = profile /\ pc = "backup" /\ pc' = "patch"
  PROVE  RunningGameKeepsAccepting' /\ OpenInv' /\ FilesInv'
<1>1. RunningGameKeepsAccepting'
  BY TokensStay
<1>2. OpenInv'
  BY MissionsStay
<1>3. FilesInv'
  BY DEF InstallerInv, FilesInv, Copying, Patching, Removing
<1> QED BY <1>1, <1>2, <1>3

(* A step that touches neither text on disk. *)
LEMMA TextStays ==
  ASSUME InstallerInv, UNCHANGED <<scripting, backup, version>>,
         faults' \in {faults, faults + 1},
         pc' \notin {"backup", "patch"} \/ UNCHANGED <<pc, source, faults>>
  PROVE  TextInv' /\ KeepInv'
<1>1. faults \in Nat
  BY DEF InstallerInv, InstallerTypeOK
<1>2. TextInv'
  <2>1. CASE pc' \notin {"backup", "patch"}
    BY <2>1 DEF InstallerInv, TextInv
  <2>2. CASE UNCHANGED <<pc, source, faults>>
    BY <2>2 DEF InstallerInv, TextInv
  <2> QED BY <2>1, <2>2
<1>3. KeepInv'
  <2>1. InPlace => InPlace'
    BY DEF InPlace, G
  <2>2. faults' = 0 => faults = 0
    BY <1>1
  <2>3. faults' = 1 => faults = 0 \/ faults = 1
    BY <1>1
  <2>4. G' = G
    BY DEF G
  <2>5. CASE pc' \notin {"backup", "patch"}
    BY <2>1, <2>2, <2>3, <2>4, <2>5 DEF InstallerInv, KeepInv
  <2>6. CASE UNCHANGED <<pc, source, faults>>
    BY <2>1, <2>4, <2>6 DEF InstallerInv, KeepInv
  <2> QED BY <2>5, <2>6
<1> QED BY <1>2, <1>3

LEMMA CommandInv ==
  ASSUME InstallerInv, Install \/ Uninstall PROVE InstallerInv'
<1>1. /\ pc' \in {"token", "rm_hook", "idle"} /\ profile' = newest /\ source' = <<>>
      /\ UNCHANGED <<newest, dcs, version, revoked, disk, scripting, backup, made, faults>>
  BY DEF Install, Uninstall, Command, game
<1>2. InstallerTypeOK'
  <2>1. source' \in Texts
    BY <1>1 DEF Texts
  <2> QED BY <1>1, <2>1 DEF InstallerInv, InstallerTypeOK, Copying, Removing, Off
<1>3. RunningGameKeepsAccepting' /\ OpenInv' /\ FilesInv'
  BY <1>1, DiskStays
<1>4. TextInv' /\ KeepInv'
  BY <1>1, TextStays
<1> QED BY <1>2, <1>3, <1>4 DEF InstallerInv

LEMMA InstallTokenInv == ASSUME InstallerInv, InstallToken PROVE InstallerInv'
<1>1. /\ pc = "token"
      /\ UNCHANGED <<newest, dcs, version, revoked, scripting, backup, profile, source>>
      /\ InstallerTypeOK
  BY DEF InstallToken, game, InstallerInv
<1>2. CASE TokenKept
  <2>1. pc' = "hook" /\ UNCHANGED <<disk, faults, made>>
    BY <1>2 DEF InstallToken, Skip
  <2>2. InstallerTypeOK'
    BY <1>1, <2>1 DEF InstallerTypeOK, Copying, Off
  <2>3. RunningGameKeepsAccepting' /\ OpenInv'
    BY <1>1, <2>1, TokensStay, MissionsStay
  <2>4. FilesInv'
    BY <1>1, <1>2, <2>1 DEF FilesInv, Copying, Patching, Removing, TokenKept
  <2>5. TextInv' /\ KeepInv'
    BY <1>1, <2>1, TextStays
  <2> QED BY <2>2, <2>3, <2>4, <2>5 DEF InstallerInv
<1>3. CASE ~TokenKept
  <2>1. /\ made' = made + 1 /\ made \in Nat
        /\ WriteFile("token", Token(made + 1), TokenCuts(made + 1), "hook")
    BY <1>1, <1>3 DEF InstallToken, InstallerTypeOK
  <2>2. made + 1 \in Nat /\ Token(made + 1) \in Nat /\ TokenCuts(made + 1) \subseteq Nat
    BY <2>1 DEF Token, TokenCuts, Empty
  <2>3. ASSUME NEW v \in Nat, File("token", v), faults' \in {faults, faults + 1},
               pc' \in {"hook", "idle"}
        PROVE  InstallerInv'
    <3>1. /\ disk' \in [Profiles -> Files]
          /\ \A p \in Profiles : p # profile => disk'[p] = disk[p]
          /\ disk'[profile].token = v
          /\ disk'[profile].mission = disk[profile].mission
      BY <1>1, <2>3, FileFacts DEF Fields
    <3>2. InstallerTypeOK'
      <4>1. faults' \in Nat /\ made' \in Nat
        BY <1>1, <2>1, <2>2, <2>3 DEF InstallerTypeOK
      <4> QED BY <1>1, <2>3, <3>1, <4>1 DEF InstallerTypeOK, Copying, Off
    <3>3. RunningGameKeepsAccepting'
      BY <1>1, <1>3, <3>1, TokensStay DEF TokenKept
    <3>4. OpenInv'
      BY <1>1, <3>1, MissionsStay
    <3>5. FilesInv'
      <4>1. v # Absent
        BY <2>3, FilesAssumption DEF FilesAssumption
      <4> QED BY <1>1, <2>3, <3>1, <4>1 DEF FilesInv, Copying, Patching, Removing
    <3>6. TextInv' /\ KeepInv'
      BY <1>1, <2>3, TextStays
    <3> QED BY <3>2, <3>3, <3>4, <3>5, <3>6 DEF InstallerInv
  <2>4. CASE disk' = disk /\ Fault
    <3>1. faults' = faults + 1 /\ pc' = "idle"
      BY <2>4 DEF Fault
    <3>2. InstallerTypeOK'
      <4>1. faults' \in Nat /\ made' \in Nat
        BY <1>1, <2>1, <2>2, <3>1 DEF InstallerTypeOK
      <4> QED BY <1>1, <2>4, <3>1, <4>1 DEF InstallerTypeOK, Off
    <3>3. RunningGameKeepsAccepting' /\ OpenInv' /\ FilesInv'
      BY <1>1, <2>4, <3>1, DiskStays
    <3>4. TextInv' /\ KeepInv'
      BY <1>1, <3>1, TextStays
    <3> QED BY <3>2, <3>3, <3>4 DEF InstallerInv
  <2>5. \/ File("token", Token(made + 1)) /\ pc' = "hook" /\ faults' = faults
        \/ \E cut \in TokenCuts(made + 1) : File("token", cut) /\ Fault
        \/ disk' = disk /\ Fault
    BY <2>1 DEF WriteFile
  <2>6. Fault => faults' = faults + 1 /\ pc' = "idle"
    BY DEF Fault
  <2> QED BY <2>2, <2>3, <2>4, <2>5, <2>6
<1> QED BY <1>2, <1>3

(* A copy written or removed, other than of a mission that is open. *)
LEMMA CopyInv ==
  ASSUME InstallerInv, NEW f \in {"hook", "script", "mission"}, NEW v \in Copies, File(f, v),
         f = "mission" => ~MissionOpen,
         UNCHANGED <<newest, dcs, version, revoked, scripting, backup, profile, source, made>>,
         faults' \in {faults, faults + 1},
         \/ pc' = "idle"
         \/ pc = "hook" /\ pc' = "script" /\ f = "hook" /\ v = "whole"
         \/ pc = "script" /\ pc' = "mission" /\ f = "script" /\ v = "whole"
         \/ pc = "mission" /\ pc' = "read" /\ f = "mission" /\ v = "whole"
         \/ pc = "rm_hook" /\ pc' = "rm_script" /\ f = "hook" /\ v = Absent
         \/ pc = "rm_script" /\ pc' = "rm_mission" /\ f = "script" /\ v = Absent
         \/ pc = "rm_mission" /\ pc' = "rm_token" /\ f = "mission" /\ v = Absent
  PROVE  InstallerInv'
<1>1. /\ disk' \in [Profiles -> Files]
      /\ \A p \in Profiles : p # profile => disk'[p] = disk[p]
      /\ disk'[profile].token = disk[profile].token
      /\ disk'[profile].hook = IF f = "hook" THEN v ELSE disk[profile].hook
      /\ disk'[profile].script = IF f = "script" THEN v ELSE disk[profile].script
      /\ disk'[profile].mission = IF f = "mission" THEN v ELSE disk[profile].mission
  BY FileFacts DEF InstallerInv, Fields
<1>2. InstallerTypeOK'
  <2>1. faults' \in Nat
    BY DEF InstallerInv, InstallerTypeOK
  <2>2. pc' \in {"idle"} \cup Copying \cup Patching \cup Removing
    BY DEF Copying, Patching, Removing
  <2> QED BY <1>1, <2>1, <2>2 DEF InstallerInv, InstallerTypeOK, Off
<1>3. RunningGameKeepsAccepting'
  BY <1>1, TokensStay
<1>4. OpenInv'
  BY <1>1, MissionsStay DEF MissionOpen
<1>5. FilesInv'
  <2>1. "whole" # Absent
    BY FilesAssumption DEF FilesAssumption
  <2> QED BY <1>1, <2>1 DEF InstallerInv, FilesInv, Copying, Patching, Removing
<1>6. TextInv' /\ KeepInv'
  BY TextStays
<1> QED BY <1>2, <1>3, <1>4, <1>5, <1>6 DEF InstallerInv

(* A step of the command that writes nothing. *)
LEMMA NothingInv ==
  ASSUME InstallerInv, pc' = "idle" \/ (pc = "mission" /\ MissionOpen /\ pc' = "read"),
         UNCHANGED <<newest, dcs, version, revoked, disk, scripting, backup, profile, made>>,
         source' \in Texts, faults' \in {faults, faults + 1}
  PROVE  InstallerInv'
<1>1. InstallerTypeOK'
  <2>1. faults' \in Nat
    BY DEF InstallerInv, InstallerTypeOK
  <2>2. pc' \in {"idle"} \cup Copying \cup Patching \cup Removing
    BY DEF Patching
  <2> QED BY <2>1, <2>2 DEF InstallerInv, InstallerTypeOK, Off
<1>2. RunningGameKeepsAccepting' /\ OpenInv'
  BY TokensStay, MissionsStay
<1>3. FilesInv'
  <2>1. CASE pc' = "idle"
    BY <2>1 DEF FilesInv, Copying, Patching, Removing
  <2>2. CASE pc = "mission" /\ MissionOpen /\ pc' = "read"
    <3>1. disk[profile].mission = "whole" /\ "whole" # Absent
      BY <2>2, FilesAssumption DEF InstallerInv, OpenInv, MissionOpen, FilesAssumption
    <3> QED BY <2>2, <3>1 DEF InstallerInv, FilesInv, Copying, Patching, Removing
  <2> QED BY <2>1, <2>2
<1>4. TextInv' /\ KeepInv'
  BY TextStays
<1> QED BY <1>1, <1>2, <1>3, <1>4 DEF InstallerInv

LEMMA CopyFilesInv ==
  ASSUME InstallerInv, CopyBridges \/ CopyMission PROVE InstallerInv'
<1>1. /\ UNCHANGED <<newest, dcs, version, revoked, scripting, backup, profile, source, made>>
      /\ \/ pc = "hook" /\ WriteFile("hook", "whole", {"partial"}, "script")
         \/ pc = "script" /\ WriteFile("script", "whole", {"partial"}, "mission")
         \/ pc = "mission" /\ ~MissionOpen /\ WriteFile("mission", "whole", {"partial"}, "read")
         \/ pc = "mission" /\ MissionOpen /\ Skip("read")
  BY DEF CopyBridges, CopyMission, game
<1>2. source \in Texts
  BY DEF InstallerInv, InstallerTypeOK
<1>3. ASSUME NEW f \in {"hook", "script", "mission"}, NEW next,
             WriteFile(f, "whole", {"partial"}, next), pc = f, f = "mission" => ~MissionOpen,
             <<f, next>> \in {<<"hook", "script">>, <<"script", "mission">>, <<"mission", "read">>}
      PROVE  InstallerInv'
  <2>1. \/ File(f, "whole") /\ pc' = next /\ faults' = faults
        \/ File(f, "partial") /\ faults' = faults + 1 /\ pc' = "idle"
        \/ disk' = disk /\ faults' = faults + 1 /\ pc' = "idle"
    BY <1>3 DEF WriteFile, Fault
  <2>2. "whole" \in Copies /\ "partial" \in Copies
    BY DEF Copies
  <2>3. CASE File(f, "whole") /\ pc' = next /\ faults' = faults
    BY <1>1, <1>3, <2>2, <2>3, CopyInv
  <2>4. CASE File(f, "partial") /\ faults' = faults + 1 /\ pc' = "idle"
    BY <1>1, <1>3, <2>2, <2>4, CopyInv
  <2>5. CASE disk' = disk /\ faults' = faults + 1 /\ pc' = "idle"
    BY <1>1, <1>2, <2>5, NothingInv
  <2> QED BY <2>1, <2>3, <2>4, <2>5
<1>4. CASE pc = "mission" /\ MissionOpen /\ Skip("read")
  BY <1>1, <1>2, <1>4, NothingInv DEF Skip
<1> QED BY <1>1, <1>3, <1>4

LEMMA RemoveFilesInv == ASSUME InstallerInv, RemoveFiles PROVE InstallerInv'
<1>1. /\ UNCHANGED <<newest, dcs, version, revoked, scripting, backup, profile, source, made, faults>>
      /\ \/ pc = "rm_hook" /\ File("hook", Absent) /\ pc' = "rm_script"
         \/ pc = "rm_script" /\ File("script", Absent) /\ pc' = "rm_mission"
         \/ pc = "rm_mission" /\ ~MissionOpen /\ File("mission", Absent) /\ pc' = "rm_token"
         \/ pc = "rm_mission" /\ MissionOpen /\ UNCHANGED disk /\ pc' = "idle"
  BY DEF RemoveFiles, game
<1>2. Absent \in Copies /\ source \in Texts
  BY DEF Copies, InstallerInv, InstallerTypeOK
<1>3. CASE pc = "rm_hook" /\ File("hook", Absent) /\ pc' = "rm_script"
  BY <1>1, <1>2, <1>3, CopyInv
<1>4. CASE pc = "rm_script" /\ File("script", Absent) /\ pc' = "rm_mission"
  BY <1>1, <1>2, <1>4, CopyInv
<1>5. CASE pc = "rm_mission" /\ ~MissionOpen /\ File("mission", Absent) /\ pc' = "rm_token"
  BY <1>1, <1>2, <1>5, CopyInv
<1>6. CASE pc = "rm_mission" /\ MissionOpen /\ UNCHANGED disk /\ pc' = "idle"
  BY <1>1, <1>2, <1>6, NothingInv
<1> QED BY <1>1, <1>3, <1>4, <1>5, <1>6

LEMMA RemoveTokenInv == ASSUME InstallerInv, RemoveToken PROVE InstallerInv'
<1>1. /\ pc = "rm_token" /\ pc' = "strip" /\ File("token", Absent)
      /\ UNCHANGED <<newest, dcs, version, scripting, backup, profile, source, made, faults>>
      /\ InstallerTypeOK
  BY DEF RemoveToken, InstallerInv
<1>2. revoked' \in BOOLEAN /\ (revoked => revoked') /\ (profile = dcs.profile => revoked')
  <2>1. revoked' = (revoked \/ profile = dcs.profile)
    BY DEF RemoveToken
  <2>2. (revoked \/ profile = dcs.profile) \in BOOLEAN
    BY <1>1 DEF InstallerTypeOK
  <2> QED BY <2>1, <2>2, Zenon
<1>3. /\ disk' \in [Profiles -> Files]
      /\ \A p \in Profiles : p # profile => disk'[p] = disk[p]
      /\ disk'[profile].token = Absent
      /\ disk'[profile].hook = disk[profile].hook
      /\ disk'[profile].script = disk[profile].script
      /\ disk'[profile].mission = disk[profile].mission
  BY <1>1, FileFacts DEF Fields, Copies
<1>4. InstallerTypeOK'
  BY <1>1, <1>2, <1>3 DEF InstallerTypeOK, Removing, Off
<1>5. RunningGameKeepsAccepting'
  <2> SUFFICES ASSUME NEW b \in {dcs.gui, dcs.missionBridge}, b \notin {NoBridge, Refusing},
                      ~revoked'
               PROVE  disk'[dcs.profile].token = b
    BY <1>1 DEF RunningGameKeepsAccepting, Refusing, Empty
  <2>1. dcs.profile \in Profiles /\ dcs.profile # profile /\ ~revoked
    BY <1>1, <1>2, GameFacts
  <2>2. disk[dcs.profile].token = b
    BY <2>1 DEF InstallerInv, RunningGameKeepsAccepting
  <2> QED BY <1>3, <2>1, <2>2
<1>6. OpenInv'
  BY <1>1, <1>3, MissionsStay
<1>7. FilesInv'
  BY <1>1, <1>3 DEF InstallerInv, FilesInv, Copying, Patching, Removing
<1>8. TextInv' /\ KeepInv'
  BY <1>1, TextStays
<1> QED BY <1>4, <1>5, <1>6, <1>7, <1>8 DEF InstallerInv

LEMMA ReadScriptingInv == ASSUME InstallerInv, ReadScripting PROVE InstallerInv'
<1>1. /\ pc = "read"
      /\ UNCHANGED <<newest, dcs, version, revoked, disk, scripting, backup, profile, made, faults>>
      /\ \/ scripting # Absent /\ source' = scripting /\ pc' = "backup"
         \/ scripting = Absent /\ source' = source /\ pc' = "idle"
  BY DEF ReadScripting, game
<1>2. InstallerTypeOK'
  BY <1>1 DEF InstallerInv, InstallerTypeOK, Patching, Off
<1>3. RunningGameKeepsAccepting' /\ OpenInv' /\ FilesInv'
  BY <1>1, DiskStays
<1>4. CASE pc' = "backup"
  <2>1. TextInv'
    BY <1>1, <1>4 DEF InstallerInv, TextInv
  <2>2. InPlace => InPlace'
    BY <1>1, <1>4 DEF InPlace, G
  <2>3. KeepInv'
    BY <1>1, <1>4, <2>2 DEF InstallerInv, KeepInv, G
  <2> QED BY <1>2, <1>3, <2>1, <2>3 DEF InstallerInv
<1>5. CASE pc' = "idle"
  <2>1. TextInv' /\ KeepInv'
    BY <1>1, <1>5, TextStays
  <2> QED BY <1>2, <1>3, <2>1 DEF InstallerInv
<1> QED BY <1>1, <1>4, <1>5

(* The first text has no whole loader to strip, and is a file. *)
LEMMA FirstTextFacts == G # Absent /\ G \in Texts /\ Plain(G) /\ stripLoader(G) = G /\ G' = G
BY GameTextFacts, StripPlain DEF G, Plain

LEMMA BeginningsAreTexts == ASSUME NEW t \in Texts PROVE Beginnings(t) \subseteq Texts
<1>1. \A n \in 0..(Len(t) - 1) : n \in 0..Len(t)
  BY TextFacts
<1> QED BY <1>1, CutFacts DEF Beginnings

(* A step that writes a text, the running game and the files being as they *)
(* were.                                                                   *)
LEMMA TextWritten ==
  ASSUME InstallerInv,
         UNCHANGED <<newest, dcs, version, revoked, disk, profile, made>>,
         scripting' \in Texts \cup {Absent}, source' \in Texts, backup' \in Texts \cup {Absent},
         faults' \in {faults, faults + 1},
         pc' = "idle" \/ (pc = "backup" /\ pc' = "patch"),
         TextInv', KeepInv'
  PROVE  InstallerInv'
<1>1. InstallerTypeOK'
  <2>1. faults' \in Nat
    BY DEF InstallerInv, InstallerTypeOK
  <2>2. pc' \in {"idle"} \cup Copying \cup Patching \cup Removing
    BY DEF Patching
  <2> QED BY <2>1, <2>2 DEF InstallerInv, InstallerTypeOK, Off
<1>2. RunningGameKeepsAccepting' /\ OpenInv' /\ FilesInv'
  BY DiskStays
<1> QED BY <1>1, <1>2 DEF InstallerInv

LEMMA WriteBackupInv == ASSUME InstallerInv, WriteBackup PROVE InstallerInv'
<1>1. /\ pc = "backup"
      /\ UNCHANGED <<newest, dcs, version, revoked, disk, scripting, profile, source, made>>
      /\ source \in Texts /\ scripting \in Texts \cup {Absent}
      /\ backup \in Texts \cup {Absent} /\ faults \in Nat
  BY DEF WriteBackup, game, InstallerInv, InstallerTypeOK
<1>2. \/ backup # Absent /\ pc' = "patch" /\ backup' = backup /\ faults' = faults
      \/ backup = Absent /\ backup' = source /\ pc' = "patch" /\ faults' = faults
      \/ /\ backup = Absent /\ backup' \in Beginnings(source) \union {Absent}
         /\ faults' = faults + 1 /\ pc' = "idle"
  BY DEF WriteBackup, Fault
<1>3. InPlace => InPlace'
  BY <1>1 DEF InPlace, G
<1>4. TextInv'
  BY <1>1 DEF InstallerInv, TextInv
<1>5. backup' \in Texts \cup {Absent}
  BY <1>1, <1>2, BeginningsAreTexts
<1>6. KeepInv'
  <2>1. CASE backup # Absent /\ pc' = "patch" /\ backup' = backup /\ faults' = faults
    BY <1>1, <1>3, <2>1, FirstTextFacts DEF InstallerInv, KeepInv
  <2>2. CASE backup = Absent /\ backup' = source /\ pc' = "patch" /\ faults' = faults
    BY <1>1, <1>3, <2>2, FirstTextFacts DEF InstallerInv, KeepInv
  <2>3. CASE backup = Absent /\ faults' = faults + 1 /\ pc' = "idle"
    <3>1. faults' # 0 /\ (faults' = 1 => faults = 0)
      BY <1>1, <2>3
    <3> QED BY <1>1, <1>3, <3>1 DEF InstallerInv, KeepInv
  <2> QED BY <1>2, <2>1, <2>2, <2>3
<1> QED BY <1>1, <1>2, <1>4, <1>5, <1>6, TextWritten

LEMMA PatchInv == ASSUME InstallerInv, Patch PROVE InstallerInv'
<1> DEFINE c == stripLoader(source)
<1>1. /\ pc = "patch" /\ source' = <<>>
      /\ UNCHANGED <<newest, dcs, version, revoked, disk, backup, profile, made>>
      /\ scripting \in Texts \cup {Absent} /\ backup \in Texts \cup {Absent} /\ faults \in Nat
  BY DEF Patch, game, InstallerInv, InstallerTypeOK
<1>2. source' \in Texts
  BY <1>1 DEF Texts
<1>3. \/ ~HasAnchor(c) /\ pc' = "idle" /\ scripting' = scripting /\ faults' = faults
      \/ HasAnchor(c) /\ scripting' = Patched(c) /\ pc' = "idle" /\ faults' = faults
      \/ /\ HasAnchor(c) /\ scripting' \in Beginnings(Patched(c)) \union {scripting}
         /\ faults' = faults + 1 /\ pc' = "idle"
  BY DEF Patch, Clean, Fault
<1>4. Plain(c) /\ (scripting # Absent => Sound(scripting))
  BY <1>1, SoundText DEF InstallerInv, TextInv
<1> HIDE DEF c
<1>5. HasAnchor(c) => /\ Patched(c) \in Texts /\ Sound(Patched(c))
                      /\ stripLoader(Patched(c)) = c
  BY <1>4, StripPatched, PatchedSound
<1>6. (scripting' # Absent => Sound(scripting')) /\ scripting' \in Texts \cup {Absent}
  BY <1>1, <1>3, <1>4, <1>5, SoundCut, BeginningsAreTexts
<1>7. TextInv'
  BY <1>3, <1>6 DEF TextInv
<1>8. KeepInv'
  <2>1. faults = 0 /\ version = 1 => backup = G /\ c = G /\ InPlace
    BY <1>1 DEF InstallerInv, KeepInv, InPlace, c
  <2>2. faults = 1 /\ version = 1 => backup = G \/ (c = G /\ InPlace)
    BY <1>1 DEF InstallerInv, KeepInv, InPlace, c
  <2>3. CASE ~HasAnchor(c) /\ pc' = "idle" /\ scripting' = scripting /\ faults' = faults
    <3>1. InPlace => InPlace'
      BY <1>1, <2>3 DEF InPlace, G
    <3> QED BY <1>1, <2>1, <2>2, <2>3, <3>1, FirstTextFacts DEF KeepInv
  <2>4. CASE HasAnchor(c) /\ scripting' = Patched(c) /\ pc' = "idle" /\ faults' = faults
    <3>1. c = G => InPlace'
      BY <1>5, <2>4 DEF InPlace, G
    <3> QED BY <1>1, <2>1, <2>2, <2>4, <3>1, FirstTextFacts DEF KeepInv
  <2>5. CASE faults' = faults + 1 /\ pc' = "idle"
    <3>1. faults' # 0 /\ (faults' = 1 => faults = 0)
      BY <1>1, <2>5
    <3> QED BY <1>1, <2>1, <3>1, FirstTextFacts DEF KeepInv
  <2> QED BY <1>3, <2>3, <2>4, <2>5
<1> QED BY <1>1, <1>2, <1>3, <1>6, <1>7, <1>8, TextWritten

LEMMA StripInv == ASSUME InstallerInv, Strip PROVE InstallerInv'
<1> DEFINE c == stripLoader(scripting)
<1>1. /\ pc = "strip"
      /\ UNCHANGED <<newest, dcs, version, revoked, disk, backup, profile, source, made>>
      /\ source \in Texts /\ backup \in Texts \cup {Absent} /\ faults \in Nat
  BY DEF Strip, game, InstallerInv, InstallerTypeOK
<1>2. \/ scripting = Absent /\ pc' = "idle" /\ scripting' = scripting /\ faults' = faults
      \/ scripting # Absent /\ scripting' = c /\ pc' = "idle" /\ faults' = faults
      \/ /\ scripting # Absent /\ c # scripting
         /\ scripting' \in Beginnings(c) \union {scripting}
         /\ faults' = faults + 1 /\ pc' = "idle"
  BY DEF Strip, Fault
<1>3. CASE scripting = Absent
  BY <1>1, <1>2, <1>3, NothingInv
<1>4. CASE scripting # Absent
  <2>1. scripting \in Texts /\ Plain(c) /\ Sound(scripting)
    BY <1>4, SoundText DEF InstallerInv, TextInv
  <2> HIDE DEF c
  <2>2. c \in Texts /\ Sound(c) /\ stripLoader(c) = c
    BY <2>1, PlainSound, StripPlain DEF Plain
  <2>3. Sound(scripting') /\ scripting' \in Texts
    BY <1>2, <1>4, <2>1, <2>2, SoundCut, BeginningsAreTexts
  <2>4. TextInv'
    BY <1>2, <2>3 DEF TextInv
  <2>5. KeepInv'
    <3>1. CASE scripting' = c /\ pc' = "idle" /\ faults' = faults
      <4>1. InPlace => c = G /\ InPlace'
        BY <2>2, <3>1 DEF InPlace, G, c
      <4> QED BY <1>1, <3>1, <4>1, FirstTextFacts DEF InstallerInv, KeepInv
    <3>2. CASE c # scripting /\ faults' = faults + 1 /\ pc' = "idle"
      <4>1. faults' # 0 /\ (faults' = 1 => faults = 0)
        BY <1>1, <3>2
      <4>2. scripting # G
        BY <3>2, FirstTextFacts DEF c
      <4> QED BY <1>1, <4>1, <4>2, FirstTextFacts DEF InstallerInv, KeepInv
    <3> QED BY <1>2, <1>4, <3>1, <3>2
  <2> QED BY <1>1, <1>2, <2>3, <2>4, <2>5, TextWritten
<1> QED BY <1>3, <1>4

-----------------------------------------------------------------------------
(* The steps of DCS. *)

LEMMA StartGameInv ==
  ASSUME InstallerInv, NEW p \in Profiles, StartGame(p) PROVE InstallerInv'
<1> DEFINE gui == IF disk[p].hook = "whole" THEN TokenRead(p) ELSE NoBridge
<1>1. /\ newest' = p /\ revoked' = FALSE
      /\ dcs' = [Off EXCEPT !.profile = p, !.gui = gui]
      /\ UNCHANGED <<disk, scripting, backup, pc, profile, source, version, made, faults>>
  BY DEF StartGame
<1>2. disk[p].token \in Nat \cup {Absent}
  BY DEF InstallerInv, InstallerTypeOK, Files
<1>3. gui \in Nat \cup {NoBridge} /\ (gui \notin {NoBridge, Refusing} => disk[p].token = gui)
  BY <1>2 DEF TokenRead, Refusing, Empty
<1> HIDE DEF gui
<1>4. /\ dcs' \in Games /\ dcs'.profile = p /\ dcs'.gui = gui
      /\ dcs'.missionBridge = NoBridge /\ dcs'.mission = FALSE
  BY <1>1, <1>3 DEF Off, Games
<1>5. InstallerTypeOK'
  BY <1>1, <1>4 DEF InstallerInv, InstallerTypeOK
<1>6. RunningGameKeepsAccepting' /\ OpenInv'
  BY <1>1, <1>3, <1>4 DEF RunningGameKeepsAccepting, OpenInv, Refusing, Empty
<1>7. FilesInv'
  BY <1>1 DEF InstallerInv, FilesInv
<1>8. TextInv' /\ KeepInv'
  BY <1>1, TextStays
<1> QED BY <1>5, <1>6, <1>7, <1>8 DEF InstallerInv

LEMMA StartMissionInv == ASSUME InstallerInv, StartMission PROVE InstallerInv'
<1> DEFINE p == dcs.profile
           open == (disk[p].mission = "whole")
           bridge == IF Blocks(scripting) # {} /\ disk[p].script = "whole"
                     THEN TokenRead(p) ELSE NoBridge
<1>1. /\ dcs # Off /\ dcs' = [dcs EXCEPT !.mission = open, !.missionBridge = bridge]
      /\ UNCHANGED <<newest, version, revoked, disk, scripting, backup, pc, profile, source,
                     made, faults>>
  BY DEF StartMission
<1>2. p \in Profiles /\ dcs \in Games
  BY <1>1, GameFacts DEF InstallerInv, InstallerTypeOK
<1>3. disk[p].token \in Nat \cup {Absent}
  BY <1>2 DEF InstallerInv, InstallerTypeOK, Files
<1>4. /\ bridge \in Nat \cup {NoBridge}
      /\ bridge \notin {NoBridge, Refusing} => disk[p].token = bridge
  BY <1>3 DEF TokenRead, Refusing, Empty
<1>5. open \in BOOLEAN /\ (open => disk[p].mission = "whole")
  OBVIOUS
<1> HIDE DEF open, bridge, p
<1>6. /\ dcs' \in Games /\ dcs'.profile = p /\ dcs'.gui = dcs.gui
      /\ dcs'.missionBridge = bridge /\ dcs'.mission = open
  BY <1>1, <1>2, <1>4, <1>5 DEF Games, p
<1>7. InstallerTypeOK'
  BY <1>1, <1>2, <1>6 DEF InstallerInv, InstallerTypeOK
<1>8. RunningGameKeepsAccepting'
  BY <1>1, <1>4, <1>6 DEF InstallerInv, RunningGameKeepsAccepting, Refusing, Empty, p
<1>9. OpenInv'
  BY <1>1, <1>5, <1>6 DEF OpenInv
<1>10. FilesInv'
  BY <1>1 DEF InstallerInv, FilesInv
<1>11. TextInv' /\ KeepInv'
  BY <1>1, TextStays
<1> QED BY <1>7, <1>8, <1>9, <1>10, <1>11 DEF InstallerInv

LEMMA StopGameInv == ASSUME InstallerInv, StopGame PROVE InstallerInv'
<1>1. /\ dcs' = Off
      /\ UNCHANGED <<newest, version, revoked, disk, scripting, backup, pc, profile, source,
                     made, faults>>
  BY DEF StopGame
<1>2. /\ Off \in Games /\ Off.mission = FALSE
      /\ Off.gui = NoBridge /\ Off.missionBridge = NoBridge
  BY DEF Off, Games
<1>3. InstallerTypeOK'
  BY <1>1, <1>2 DEF InstallerInv, InstallerTypeOK, Off
<1>4. RunningGameKeepsAccepting' /\ OpenInv'
  BY <1>1, <1>2 DEF RunningGameKeepsAccepting, OpenInv
<1>5. FilesInv'
  BY <1>1 DEF InstallerInv, FilesInv
<1>6. TextInv' /\ KeepInv'
  BY <1>1, TextStays
<1> QED BY <1>3, <1>4, <1>5, <1>6 DEF InstallerInv

LEMMA UpdateGameInv == ASSUME InstallerInv, UpdateGame PROVE InstallerInv'
<1>1. /\ version < Len(GameTexts) /\ version' = version + 1
      /\ scripting' \in {GameTexts[version + 1], Absent}
      /\ UNCHANGED <<newest, dcs, revoked, disk, backup, pc, profile, source, made, faults>>
      /\ version \in 1..Len(GameTexts) /\ Len(GameTexts) \in Nat
  BY GameTextFacts DEF UpdateGame, InstallerInv, InstallerTypeOK
<1>2. version' \in 1..Len(GameTexts) /\ version' # 1
  BY <1>1
<1>3. scripting' = Absent \/ Plain(scripting')
  BY <1>1, <1>2, GameTextFacts
<1>4. InstallerTypeOK'
  <2>1. scripting' \in Texts \cup {Absent}
    BY <1>3 DEF Plain
  <2> QED BY <1>1, <1>2, <2>1 DEF InstallerInv, InstallerTypeOK, Off
<1>5. RunningGameKeepsAccepting' /\ OpenInv' /\ FilesInv'
  BY <1>1, DiskStays
<1>6. TextInv'
  BY <1>1, <1>3, PlainSound DEF InstallerInv, TextInv
<1>7. KeepInv'
  BY <1>2 DEF KeepInv
<1> QED BY <1>4, <1>5, <1>6, <1>7 DEF InstallerInv

-----------------------------------------------------------------------------
LEMMA NextInstaller == ASSUME InstallerInv, [Next]_vars PROVE InstallerInv'
<1>1. CASE UNCHANGED vars
  <2>1. UNCHANGED <<disk, scripting, backup, newest, dcs, pc, profile, source, version,
                    revoked, made, faults>>
    BY <1>1 DEF vars
  <2>2. InstallerTypeOK'
    BY <2>1 DEF InstallerInv, InstallerTypeOK, Off
  <2>3. RunningGameKeepsAccepting' /\ OpenInv' /\ FilesInv'
    BY <2>1, DiskStays
  <2>4. TextInv' /\ KeepInv'
    BY <2>1, TextStays
  <2> QED BY <2>2, <2>3, <2>4 DEF InstallerInv
<1>2. CASE Install \/ Uninstall
  BY <1>2, CommandInv
<1>3. CASE InstallToken \/ CopyBridges \/ CopyMission
  BY <1>3, InstallTokenInv, CopyFilesInv
<1>4. CASE ReadScripting \/ WriteBackup \/ Patch
  BY <1>4, ReadScriptingInv, WriteBackupInv, PatchInv
<1>5. CASE RemoveFiles \/ RemoveToken \/ Strip
  BY <1>5, RemoveFilesInv, RemoveTokenInv, StripInv
<1>6. ASSUME NEW p \in Profiles, StartGame(p) PROVE InstallerInv'
  BY <1>6, StartGameInv
<1>7. CASE StartMission \/ StopGame \/ UpdateGame
  BY <1>7, StartMissionInv, StopGameInv, UpdateGameInv
<1> QED BY <1>1, <1>2, <1>3, <1>4, <1>5, <1>6, <1>7 DEF Next

(* InstallerInv holds in every reachable state: whatever fails, and        *)
(* whatever DCS does between two steps of a command, the files, the texts  *)
(* and the running game stay consistent with each other.                   *)
THEOREM SpecInstallerInv == Spec => []InstallerInv
<1>1. InstallerInv /\ [Next]_vars => InstallerInv'
  BY NextInstaller
<1> QED BY <1>1, InitInstaller, PTL DEF Spec

(* The running game accepts the token on disk, until an uninstall removes  *)
(* it: no install, complete or failed, changes a token that is there.      *)
THEOREM SpecRunningGameKeepsAccepting == Spec => []RunningGameKeepsAccepting
<1>1. InstallerInv => RunningGameKeepsAccepting
  BY DEF InstallerInv
<1> QED BY <1>1, SpecInstallerInv, PTL

(* Up to one failed write, the file or the backup still holds the text the *)
(* first version of DCS brought.                                           *)
THEOREM SpecOneFailureKeepsTheText == Spec => []OneFailureKeepsTheText
<1>1. InstallerInv => OneFailureKeepsTheText
  <2> SUFFICES ASSUME InstallerInv, faults <= 1, version = 1
               PROVE  G \in {stripLoader(scripting), backup}
    BY DEF OneFailureKeepsTheText, G
  <2>1. faults = 0 \/ faults = 1
    BY DEF InstallerInv, InstallerTypeOK
  <2> QED BY <2>1 DEF InstallerInv, KeepInv, InPlace
<1> QED BY <1>1, SpecInstallerInv, PTL

(* What MissionScripting.lua holds is DCS's own text, perhaps cut short, or *)
(* such a text with one whole loader behind its first anchor: no sequence   *)
(* of installs, uninstalls, failures and updates leaves two.                *)
THEOREM SpecTextInv == Spec => []TextInv
<1>1. InstallerInv => TextInv
  BY DEF InstallerInv
<1> QED BY <1>1, SpecInstallerInv, PTL

-----------------------------------------------------------------------------
(* What the two commands leave behind. *)

(* What InstallLoads and UninstallRestores say of one step. *)
Loads ==
  pc = "patch" /\ pc' = "idle" /\ UNCHANGED faults /\ HasAnchor(stripLoader(source))
    => /\ LoaderBehindAnchor(scripting')
       /\ Quantify(DOMAIN scripting', LAMBDA i : scripting'[i] = "END") = 1
       /\ stripLoader(scripting') = stripLoader(source)
       /\ disk[profile].hook = "whole" /\ disk[profile].script = "whole"
       /\ {disk[profile].mission, disk[profile].token} \cap {Absent} = {}

Restores ==
  pc = "strip" /\ pc' = "idle" /\ UNCHANGED faults
    => /\ Range(disk[profile]) = {Absent}
       /\ \A v \in DOMAIN GameTexts :
            HasAnchor(GameTexts[v]) /\ scripting = Patched(GameTexts[v])
              => scripting' = GameTexts[v]

(* Only Patch and Strip end a command where it has got to "patch" and      *)
(* "strip".                                                                *)
LEMMA LastSteps ==
  ASSUME [Next]_vars, pc' = "idle"
  PROVE  (pc = "patch" => Patch) /\ (pc = "strip" => Strip)
<1>1. CASE UNCHANGED vars
  BY <1>1 DEF vars
<1>2. CASE Install \/ Uninstall
  BY <1>2 DEF Install, Uninstall, Command
<1>3. CASE InstallToken \/ CopyBridges \/ CopyMission
  BY <1>3 DEF InstallToken, CopyBridges, CopyMission
<1>4. CASE ReadScripting \/ WriteBackup \/ Patch
  BY <1>4 DEF ReadScripting, WriteBackup, Patch
<1>5. CASE RemoveFiles \/ RemoveToken \/ Strip
  BY <1>5 DEF RemoveFiles, RemoveToken, Strip
<1>6. ASSUME NEW p \in Profiles, StartGame(p) PROVE pc' = pc
  BY <1>6 DEF StartGame
<1>7. CASE StartMission \/ StopGame \/ UpdateGame
  BY <1>7 DEF StartMission, StopGame, UpdateGame
<1> QED BY <1>1, <1>2, <1>3, <1>4, <1>5, <1>6, <1>7 DEF Next

LEMMA OneLoader ==
  ASSUME NEW c, Plain(c), HasAnchor(c)
  PROVE  /\ Cardinality({i \in DOMAIN Patched(c) : Patched(c)[i] = "END"}) = 1
         /\ LoaderBehindAnchor(Patched(c))
<1> DEFINE P == Patched(c)
           n == Len(c)
<1>1. c \in Texts /\ \A i \in 1..n : c[i] # "END"
  BY DEF Plain
<1>2. PICK a \in 1..Len(c) :
        First(c, a) /\ c[a] = Anchor /\ \A i \in 1..(a - 1) : c[i] # Anchor
  BY <1>1, FirstAnchor
<1>3. n \in Nat /\ a \in Nat /\ a >= 1 /\ a <= n
  BY <1>1, TextFacts
<1>4. /\ P \in Texts /\ Len(P) = n + 5
      /\ \A i \in 1..a : P[i] = c[i]
      /\ P[a + 1] = "nl" /\ P[a + 2] = "nl"
      /\ P[a + 3] = "BEGIN" /\ P[a + 4] = "dofile" /\ P[a + 5] = "END"
      /\ \A i \in (a + 6)..(n + 5) : P[i] = c[i - 5]
  BY <1>1, <1>2, PatchedFacts
<1>5. DOMAIN P = 1..n + 5
  BY <1>4, TextFacts
<1> HIDE DEF P, n
<1>6. ASSUME NEW i \in 1..n + 5, P[i] = "END" PROVE i = a + 5
  <2>1. \/ i \in 1..a /\ i \in 1..n
        \/ i \in {a + 1, a + 2, a + 3, a + 4}
        \/ i = a + 5
        \/ i \in (a + 6)..(n + 5) /\ i - 5 \in 1..n
    BY <1>3
  <2> QED BY <1>1, <1>4, <1>6, <2>1
<1>7. PICK k \in 1..n + 5 : k = a + 5
  <2>1. a + 5 \in 1..n + 5
    BY <1>3
  <2> QED BY <2>1
<1>8. {i \in DOMAIN P : P[i] = "END"} = {k}
  <2>1. \A i \in 1..n + 5 : P[i] = "END" <=> i = k
    BY <1>4, <1>6, <1>7
  <2> QED BY <1>5, <2>1
<1>9. Cardinality({k}) = 1
  BY FS_Singleton
<1>10. LoaderBehindAnchor(P)
  <2>1. a \in DOMAIN P /\ P[a] = Anchor
    BY <1>2, <1>3, <1>4, <1>5
  <2>2. \A i \in 1..(a - 1) : P[i] # Anchor
    <3>1. \A i \in 1..(a - 1) : i \in 1..a
      BY <1>3
    <3> QED BY <1>2, <1>4, <3>1
  <2>3. PICK b \in Int : b = a + 3
    BY <1>3
  <2>4. b \in (a + 1)..(Len(P) - 2)
    BY <1>3, <1>4, <2>3
  <2>5. \A i \in (a + 1)..(b - 1) : P[i] = "nl"
    <3>1. \A i \in (a + 1)..(b - 1) : i = a + 1 \/ i = a + 2
      BY <1>3, <2>3
    <3> QED BY <1>4, <3>1
  <2>6. P[b] = "BEGIN" /\ P[b + 1] = "dofile" /\ P[b + 2] = "END"
    <3>1. b + 1 = a + 4 /\ b + 2 = a + 5
      BY <1>3, <2>3
    <3> QED BY <1>4, <2>3, <3>1
  <2> QED BY <2>1, <2>2, <2>4, <2>5, <2>6 DEF LoaderBehindAnchor
<1> QED BY <1>8, <1>9, <1>10 DEF P

LEMMA LoadsStep == ASSUME InstallerInv, [Next]_vars PROVE Loads
<1> SUFFICES ASSUME pc = "patch", pc' = "idle", faults' = faults,
                    HasAnchor(stripLoader(source))
             PROVE  /\ LoaderBehindAnchor(scripting')
                    /\ Quantify(DOMAIN scripting', LAMBDA i : scripting'[i] = "END") = 1
                    /\ stripLoader(scripting') = stripLoader(source)
                    /\ disk[profile].hook = "whole" /\ disk[profile].script = "whole"
                    /\ {disk[profile].mission, disk[profile].token} \cap {Absent} = {}
  BY DEF Loads
<1> DEFINE c == stripLoader(source)
<1>1. faults \in Nat /\ faults' # faults + 1
  BY DEF InstallerInv, InstallerTypeOK
<1>2. HasAnchor(c) /\ scripting' = Patched(c)
  BY <1>1, LastSteps DEF Patch, Clean, Fault
<1>3. Plain(c)
  BY SoundText DEF InstallerInv, TextInv
<1> HIDE DEF c
<1>4. stripLoader(scripting') = c
  BY <1>2, <1>3, StripPatched
<1>5. /\ Quantify(DOMAIN scripting', LAMBDA i : scripting'[i] = "END") = 1
      /\ LoaderBehindAnchor(scripting')
  <2>1. {i \in DOMAIN scripting' : scripting'[i] = "END"}
          = {i \in DOMAIN Patched(c) : Patched(c)[i] = "END"}
    BY <1>2
  <2>2. Cardinality({i \in DOMAIN scripting' : scripting'[i] = "END"}) = 1
    BY <1>2, <1>3, <2>1, OneLoader
  <2>3. LoaderBehindAnchor(scripting')
    BY <1>2, <1>3, OneLoader
  <2> QED BY <2>2, <2>3 DEF Quantify
<1>6. /\ disk[profile].hook = "whole" /\ disk[profile].script = "whole"
      /\ disk[profile].mission # Absent /\ disk[profile].token # Absent
  BY DEF InstallerInv, FilesInv, Patching
<1> QED BY <1>4, <1>5, <1>6 DEF c

LEMMA RestoresStep == ASSUME InstallerInv, [Next]_vars PROVE Restores
<1> SUFFICES ASSUME pc = "strip", pc' = "idle", faults' = faults
             PROVE  /\ Range(disk[profile]) = {Absent}
                    /\ \A v \in DOMAIN GameTexts :
                         HasAnchor(GameTexts[v]) /\ scripting = Patched(GameTexts[v])
                           => scripting' = GameTexts[v]
  BY DEF Restores
<1>1. faults \in Nat /\ faults' # faults + 1 /\ disk[profile] \in Files
  BY DEF InstallerInv, InstallerTypeOK
<1>2. scripting # Absent => scripting' = stripLoader(scripting)
  BY <1>1, LastSteps DEF Strip, Fault
<1>3. Range(disk[profile]) = {Absent}
  <2>1. /\ disk[profile].token = Absent /\ disk[profile].hook = Absent
        /\ disk[profile].script = Absent /\ disk[profile].mission = Absent
    BY DEF InstallerInv, FilesInv, Removing
  <2>2. DOMAIN disk[profile] = {"token", "hook", "script", "mission"}
    BY <1>1 DEF Files
  <2> QED BY <2>1, <2>2 DEF Range
<1>4. ASSUME NEW v \in DOMAIN GameTexts,
             HasAnchor(GameTexts[v]), scripting = Patched(GameTexts[v])
      PROVE  scripting' = GameTexts[v]
  <2>1. DOMAIN GameTexts = 1..Len(GameTexts)
    BY FilesAssumption, LenProperties DEF FilesAssumption
  <2>2. Plain(GameTexts[v]) /\ stripLoader(scripting) = GameTexts[v]
    BY <1>4, <2>1, GameTextFacts, StripPatched
  <2>3. scripting # Absent
    <3>1. scripting \in Texts
      BY <1>4, <2>2, PatchedSound, SoundText
    <3> QED BY <3>1, FilesAssumption DEF FilesAssumption, Texts
  <2> QED BY <1>2, <2>2, <2>3
<1> QED BY <1>3, <1>4

(* An install that completes on a text with an anchor leaves one whole      *)
(* loader in it, right behind its first anchor, with the files it loads in  *)
(* place and nothing else in the text changed.                              *)
THEOREM SpecInstallLoads == Spec => InstallLoads
<1>1. InstallerInv /\ [Next]_vars => [Loads]_vars
  BY LoadsStep
<1> QED BY <1>1, SpecInstallerInv, PTL DEF Spec, InstallLoads, Loads

(* An uninstall that completes leaves none of the installed files, and the  *)
(* text DCS brought, whichever version it was, where install had patched it.*)
THEOREM SpecUninstallRestores == Spec => UninstallRestores
<1>1. InstallerInv /\ [Next]_vars => [Restores]_vars
  BY RestoresStep
<1> QED BY <1>1, SpecInstallerInv, PTL DEF Spec, UninstallRestores, Restores

=============================================================================
