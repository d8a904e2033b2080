----------------------------- MODULE Text_proofs -----------------------------
(***************************************************************************)
(* What Stream answers is exact, for every target, terminator, length and  *)
(* timeout, whatever the peer sends and whenever it arrives.  The index of *)
(* find() is the length of the longest beginning of the target that the    *)
(* bytes read so far end with, and readBytes() keeps what it has read.     *)
(* Then the Strings, then the numbers, from print() to parseFloat(), and   *)
(* last what a call may still wait for.                                    *)
(***************************************************************************)
EXTENDS Text, FiniteSetTheorems, SequenceTheorems, TLAPS

(* Bytes, of whatever kind. *)
IsBytes(s) == s \in Seq(ToSet(s))

Ats == {"look", "clock", "done"}

FindCall == [op: {"find"}, at: Ats, target: Seq(Nat), index: Nat]
UntilCall == [op: {"findUntil"}, at: Ats, target: Seq(Nat), index: Nat,
              terminator: Seq(Nat) \ {<< >>}, tindex: Nat]
ParseCall == [op: {"parse"}, at: Ats, ends: SUBSET Nat, skips: SUBSET Nat,
              phase: {"skip", "digits", "fraction"}, negative: BOOLEAN,
              value: Int, places: Nat]
BytesCall == [op: {"bytes"}, at: Ats, length: Nat \cup {NoLength},
              terminators: SUBSET Nat, buffer: Seq(ToSet(taken))]

StreamTypeOK ==
    /\ IsBytes(taken)
    /\ call \in {NoCall} \cup FindCall \cup UntilCall \cup ParseCall \cup BytesCall

(* s ends with the first k bytes of t; t is somewhere in s. *)
Match(t, s, k) == k <= Len(s) /\ \A i \in 1 .. k : s[Len(s) - k + i] = t[i]
Occurs(t, s) == \E i \in 0 .. Len(s) - Len(t) : \A j \in 1 .. Len(t) : s[i + j] = t[j]

Longest(t, s, k) ==
    /\ k \in 0 .. Len(t) - 1
    /\ Match(t, s, k) /\ \A j \in k + 1 .. Len(t) - 1 : ~Match(t, s, j)

(* The search has read s and matched k bytes of t at its end, and t is not *)
(* in what it has read.                                                    *)
Searches(t, s, k) ==
    /\ k \in 0 .. Len(t) - 1
    /\ Restartable(t) => Longest(t, s, k) /\ ~Occurs(t, s)

(* The terminators that findUntil() is exact for, and what it has read. *)
Apart(t, u) == Len(u) = 1 /\ u[1] \notin ToSet(t)
Unended(s, u) == Len(u) = 1 => \A i \in 1 .. Len(s) : s[i] # u[1]

Collects(s, length, terminators) ==
    /\ \A i \in 1 .. Len(s) : s[i] \notin terminators
    /\ length # NoLength => Len(s) < length

CallInv ==
    /\ call # NoCall /\ call.at = "done" =>
         /\ taken = << >>
         /\ call.op \in {"find", "findUntil"} => call.target = << >>
         /\ call.op = "bytes" => call.length = 0
         /\ call.op # "parse"
    /\ call # NoCall /\ call.at # "done" =>
         /\ call.op = "find" => Searches(call.target, taken, call.index)
         /\ call.op = "findUntil" =>
              /\ call.tindex \in 0 .. Len(call.terminator) - 1
              /\ call.index \in 0 .. Len(call.target) - 1
              /\ Unended(taken, call.terminator)
              /\ Apart(call.target, call.terminator) =>
                   Searches(call.target, taken, call.index)
         /\ call.op = "bytes" =>
              call.buffer = taken /\ Collects(taken, call.length, call.terminators)

StreamInv == StreamTypeOK /\ CallInv /\ AnswersAreExact

-----------------------------------------------------------------------------
(* Bytes, and one more of them. *)
LEMMA IsBytesOf ==
    ASSUME NEW X, NEW s \in Seq(X)
    PROVE  IsBytes(s) /\ Len(s) \in Nat /\ DOMAIN s = 1 .. Len(s)
<1>1. /\ Len(s) \in Nat /\ DOMAIN s = 1 .. Len(s)
      /\ s = [i \in 1 .. Len(s) |-> s[i]]
  BY LenProperties
<1>2. \A i \in 1 .. Len(s) : s[i] \in ToSet(s)
  BY <1>1 DEF ToSet
<1>3. s \in [1 .. Len(s) -> ToSet(s)]
  BY <1>1, <1>2
<1> QED  BY <1>1, <1>3, SeqDef DEF IsBytes

(* u is s and one more byte. *)
OneMore(s, b, u) ==
    /\ IsBytes(s) /\ IsBytes(u)
    /\ Len(s) \in Nat /\ Len(u) = Len(s) + 1
    /\ u[Len(u)] = b /\ \A i \in 1 .. Len(s) : u[i] = s[i]

LEMMA AppendIsOneMore ==
    ASSUME NEW s, IsBytes(s), NEW b
    PROVE  OneMore(s, b, Append(s, b))
<1>1. s \in Seq(ToSet(s) \cup {b}) /\ b \in ToSet(s) \cup {b}
  BY SeqMonotonic DEF IsBytes
<1>2. PICK X : X = ToSet(s) \cup {b}
  OBVIOUS
<1>3. /\ Append(s, b) \in Seq(X) /\ Len(s) \in Nat /\ Len(Append(s, b)) = Len(s) + 1
      /\ \A i \in 1 .. Len(s) : Append(s, b)[i] = s[i]
      /\ Append(s, b)[Len(s) + 1] = b
  BY <1>1, <1>2, AppendProperties
<1> QED  BY <1>3, IsBytesOf DEF OneMore

(* Sequences are compared byte by byte. *)
LEMMA SameBytes ==
    ASSUME NEW s, IsBytes(s), NEW t, IsBytes(t), Len(s) = Len(t),
           \A i \in 1 .. Len(s) : s[i] = t[i]
    PROVE  s = t
<1>1. s \in Seq(ToSet(s) \cup ToSet(t)) /\ t \in Seq(ToSet(s) \cup ToSet(t))
  BY SeqMonotonic DEF IsBytes
<1> QED  BY <1>1, SeqEqual

LEMMA PieceIs ==
    ASSUME NEW s, IsBytes(s), NEW i \in 0 .. Len(s), NEW n \in i .. Len(s)
    PROVE  /\ IsBytes(SubSeq(s, i + 1, n)) /\ Len(SubSeq(s, i + 1, n)) = n - i
           /\ \A j \in 1 .. n - i : SubSeq(s, i + 1, n)[j] = s[i + j]
<1>1. Len(s) \in Nat /\ DOMAIN s = 1 .. Len(s)
  BY IsBytesOf DEF IsBytes
<1>2. \A j \in i + 1 .. n : s[j] \in ToSet(s)
  BY <1>1 DEF ToSet
<1>3. i + 1 \in Int /\ n \in Int
  BY <1>1
<1>4. /\ SubSeq(s, i + 1, n) \in Seq(ToSet(s))
      /\ Len(SubSeq(s, i + 1, n)) = IF i + 1 <= n THEN n - (i + 1) + 1 ELSE 0
      /\ \A j \in 1 .. n - (i + 1) + 1 : SubSeq(s, i + 1, n)[j] = s[i + 1 + j - 1]
  BY <1>2, <1>3, SubSeqProperties
<1>5. Len(SubSeq(s, i + 1, n)) = n - i
  BY <1>1, <1>4
<1>6. \A j \in 1 .. n - i : SubSeq(s, i + 1, n)[j] = s[i + j]
  BY <1>1, <1>4
<1> QED  BY <1>4, <1>5, <1>6, IsBytesOf

LEMMA PieceEquals ==
    ASSUME NEW s, IsBytes(s), NEW t, IsBytes(t),
           NEW i \in 0 .. Len(s), NEW n \in i .. Len(s), n - i = Len(t)
    PROVE  SubSeq(s, i + 1, n) = t <=> \A j \in 1 .. Len(t) : s[i + j] = t[j]
<1>1. /\ IsBytes(SubSeq(s, i + 1, n)) /\ Len(SubSeq(s, i + 1, n)) = Len(t)
      /\ \A j \in 1 .. Len(t) : SubSeq(s, i + 1, n)[j] = s[i + j]
  BY PieceIs
<1> QED  BY <1>1, SameBytes

-----------------------------------------------------------------------------
(* How far a target is matched. *)
LEMMA MatchMore ==
    ASSUME NEW t, NEW s, NEW b, NEW u, OneMore(s, b, u), NEW k \in Nat
    PROVE  Match(t, u, k + 1) <=> Match(t, s, k) /\ t[k + 1] = b
<1>1. Len(s) \in Nat /\ Len(u) = Len(s) + 1
  BY DEF OneMore
<1>2. CASE k <= Len(s)
  <2>1. \A i \in 1 .. k : Len(u) - (k + 1) + i = Len(s) - k + i /\ Len(s) - k + i \in 1 .. Len(s)
    BY <1>1, <1>2
  <2>2. \A i \in 1 .. k : u[Len(u) - (k + 1) + i] = s[Len(s) - k + i]
    BY <2>1 DEF OneMore
  <2>3. Len(u) - (k + 1) + (k + 1) = Len(u)
    BY <1>1
  <2>4. u[Len(u) - (k + 1) + (k + 1)] = b
    BY <2>3 DEF OneMore
  <2>5. 1 .. k + 1 = (1 .. k) \cup {k + 1}
    OBVIOUS
  <2>6. (\A i \in 1 .. k + 1 : u[Len(u) - (k + 1) + i] = t[i])
          <=> (\A i \in 1 .. k : s[Len(s) - k + i] = t[i]) /\ b = t[k + 1]
    BY <2>2, <2>4, <2>5
  <2> QED  BY <1>1, <1>2, <2>6 DEF Match
<1>3. CASE ~(k <= Len(s))
  BY <1>1, <1>3 DEF Match
<1> QED  BY <1>2, <1>3

LEMMA OccursMore ==
    ASSUME NEW t \in Seq(Nat), NEW s, NEW b, NEW u, OneMore(s, b, u)
    PROVE  Occurs(t, u) <=> Occurs(t, s) \/ Match(t, u, Len(t))
<1>1. Len(s) \in Nat /\ Len(u) = Len(s) + 1 /\ Len(t) \in Nat
  BY LenProperties DEF OneMore
<1>2. ASSUME NEW i \in 0 .. Len(s) - Len(t)
      PROVE  /\ i \in 0 .. Len(u) - Len(t)
             /\ \A j \in 1 .. Len(t) : u[i + j] = s[i + j]
  <2>1. \A j \in 1 .. Len(t) : i + j \in 1 .. Len(s)
    BY <1>1
  <2> QED  BY <1>1, <2>1 DEF OneMore
<1>3. ASSUME Occurs(t, s)  PROVE Occurs(t, u)
  BY <1>2, <1>3 DEF Occurs
<1>4. ASSUME Match(t, u, Len(t))  PROVE Occurs(t, u)
  <2>1. Len(u) - Len(t) \in 0 .. Len(u) - Len(t)
    BY <1>1, <1>4 DEF Match
  <2>2. \A j \in 1 .. Len(t) : u[(Len(u) - Len(t)) + j] = t[j]
    BY <1>4 DEF Match
  <2> QED  BY <2>1, <2>2 DEF Occurs
<1>5. ASSUME Occurs(t, u)  PROVE Occurs(t, s) \/ Match(t, u, Len(t))
  <2>1. PICK i \in 0 .. Len(u) - Len(t) : \A j \in 1 .. Len(t) : u[i + j] = t[j]
    BY <1>5 DEF Occurs
  <2>2. CASE i = Len(u) - Len(t)
    <3>1. Len(t) <= Len(u)
      BY <1>1
    <3> QED  BY <2>1, <2>2, <3>1 DEF Match
  <2>3. CASE i # Len(u) - Len(t)
    <3>1. i \in 0 .. Len(s) - Len(t)
      BY <1>1, <2>3
    <3> QED  BY <1>2, <2>1, <3>1 DEF Occurs
  <2> QED  BY <2>2, <2>3
<1> QED  BY <1>3, <1>4, <1>5

(* How find() goes on after a byte. *)
NextIndex(t, k, b) == IF b = t[k + 1] THEN k + 1 ELSE IF b = t[1] THEN 1 ELSE 0

(* After a mismatch of a target that restarts well, no beginning but its   *)
(* first byte can be matched: the bytes read end with the first k of it.   *)
LEMMA NoLongerMatch ==
    ASSUME NEW t \in Seq(Nat), Restartable(t), NEW s, IsBytes(s),
           NEW k \in 1 .. Len(t) - 1, Match(t, s, k),
           NEW j \in 1 .. k - 1, Match(t, s, j)
    PROVE  t[j + 1] = t[k + 1]
<1>1. Len(t) \in Nat /\ Len(s) \in Nat /\ IsBytes(t)
  BY LenProperties, IsBytesOf DEF IsBytes
<1> SUFFICES ASSUME t[j + 1] # t[k + 1]  PROVE FALSE
  OBVIOUS
<1>2. /\ j + 1 \in 2 .. Len(t) - 1 /\ k \in 1 .. Len(t) - 1 /\ j + 1 <= k
  BY <1>1
<1>3. SubSeq(t, k - (j + 1) + 2, k) # SubSeq(t, 1, (j + 1) - 1)
  BY <1>2 DEF Restartable
<1>4. PICK m \in Nat : m = k - j
  BY <1>1
<1>5. /\ k - (j + 1) + 2 = m + 1 /\ (j + 1) - 1 = j /\ k - m = j
      /\ m \in 0 .. Len(t) /\ k \in m .. Len(t) /\ k \in Nat /\ j \in Nat
      /\ 0 \in 0 .. Len(t) /\ j \in 0 .. Len(t) /\ j - 0 = j /\ 0 + 1 = 1
  BY <1>1, <1>4
<1>6. \A i \in 1 .. j : t[m + i] = t[i]
  <2> SUFFICES ASSUME NEW i \in 1 .. j  PROVE t[m + i] = t[i]
    OBVIOUS
  <2>1. m + i \in 1 .. k /\ Len(s) - k + (m + i) = Len(s) - j + i
    BY <1>1, <1>4
  <2>2. s[Len(s) - k + (m + i)] = t[m + i]
    BY <2>1 DEF Match
  <2>3. s[Len(s) - j + i] = t[i]
    BY DEF Match
  <2> QED  BY <2>1, <2>2, <2>3
<1>7. /\ IsBytes(SubSeq(t, 0 + 1, j)) /\ Len(SubSeq(t, 0 + 1, j)) = j - 0
      /\ \A i \in 1 .. j - 0 : SubSeq(t, 0 + 1, j)[i] = t[0 + i]
  BY <1>1, <1>5, PieceIs
<1>8. \A i \in 1 .. j : SubSeq(t, 1, j)[i] = t[m + i]
  <2> SUFFICES ASSUME NEW i \in 1 .. j  PROVE SubSeq(t, 1, j)[i] = t[m + i]
    OBVIOUS
  <2>1. i \in 1 .. j - 0 /\ 0 + i = i
    BY <1>5
  <2> QED  BY <1>5, <1>6, <1>7, <2>1
<1>9. SubSeq(t, m + 1, k) = SubSeq(t, 1, j)
  BY <1>1, <1>5, <1>7, <1>8, PieceEquals
<1> QED  BY <1>3, <1>5, <1>9

LEMMA SearchGoesOn ==
    ASSUME NEW t \in Seq(Nat), Restartable(t), NEW s, NEW b, NEW u, OneMore(s, b, u),
           NEW k, Longest(t, s, k), ~Occurs(t, s)
    PROVE  /\ NextIndex(t, k, b) = Len(t) => Match(t, u, Len(t))
           /\ NextIndex(t, k, b) # Len(t) => Longest(t, u, NextIndex(t, k, b)) /\ ~Occurs(t, u)
<1>1. /\ Len(t) \in Nat /\ k \in 0 .. Len(t) - 1 /\ Len(t) >= 1
      /\ Len(s) \in Nat /\ Len(u) = Len(s) + 1 /\ IsBytes(s)
  BY LenProperties DEF OneMore, Longest
<1>2. \A j \in Nat : Match(t, u, j + 1) <=> Match(t, s, j) /\ t[j + 1] = b
  BY MatchMore
<1>3. Occurs(t, u) <=> Match(t, u, Len(t))
  BY OccursMore
<1>4. ASSUME NEW j \in k + 1 .. Len(t) - 1  PROVE ~Match(t, s, j)
  BY DEF Longest
<1>5. CASE b = t[k + 1]
  <2>1. NextIndex(t, k, b) = k + 1 /\ Match(t, u, k + 1)
    BY <1>1, <1>2, <1>5 DEF NextIndex, Longest
  <2>2. ASSUME NEW j \in k + 2 .. Len(t)  PROVE ~Match(t, u, j)
    <3>1. j - 1 \in Nat /\ j - 1 \in k + 1 .. Len(t) - 1 /\ (j - 1) + 1 = j
      BY <1>1
    <3> QED  BY <1>2, <1>4, <3>1
  <2>3. CASE k + 1 = Len(t)
    BY <2>1, <2>3
  <2>4. CASE k + 1 # Len(t)
    <3>1. k + 1 \in 0 .. Len(t) - 1 /\ Len(t) \in k + 2 .. Len(t)
          /\ \A j \in (k + 1) + 1 .. Len(t) - 1 : j \in k + 2 .. Len(t)
      BY <1>1, <2>4
    <3> QED  BY <1>3, <2>1, <2>2, <2>4, <3>1 DEF Longest
  <2> QED  BY <2>3, <2>4
<1>6. CASE b # t[k + 1]
  <2>1. ASSUME NEW j \in 2 .. Len(t)  PROVE ~Match(t, u, j)
    <3> SUFFICES ASSUME Match(t, u, j)  PROVE FALSE
      OBVIOUS
    <3>1. j - 1 \in Nat /\ (j - 1) + 1 = j
      BY <1>1
    <3>2. Match(t, s, j - 1) /\ t[(j - 1) + 1] = b
      BY <1>2, <3>1
    <3>3. ~(j - 1 \in k + 1 .. Len(t) - 1) /\ j - 1 # k
      BY <1>4, <1>6, <3>2
    <3>4. j - 1 \in 1 .. k - 1 /\ k \in 1 .. Len(t) - 1
      BY <1>1, <3>3
    <3>5. t[(j - 1) + 1] = t[k + 1]
      BY <1>1, <3>2, <3>4, NoLongerMatch DEF Longest
    <3> QED  BY <1>6, <3>2, <3>5
  <2>2. Match(t, u, 1) <=> t[1] = b
    <3>1. Match(t, s, 0) /\ 0 \in Nat /\ 0 + 1 = 1
      BY <1>1 DEF Match
    <3> QED  BY <1>2, <3>1
  <2>3. Match(t, u, 0)
    BY <1>1 DEF Match
  <2>4. CASE b = t[1]
    <3>1. NextIndex(t, k, b) = 1 /\ k # 0 /\ Len(t) # 1 /\ 1 \in 0 .. Len(t) - 1
      BY <1>1, <1>6, <2>4 DEF NextIndex
    <3>2. Len(t) \in 2 .. Len(t) /\ \A j \in 1 + 1 .. Len(t) - 1 : j \in 2 .. Len(t)
      BY <1>1, <3>1
    <3> QED  BY <1>3, <2>1, <2>2, <2>4, <3>1, <3>2 DEF Longest
  <2>5. CASE b # t[1]
    <3>1. NextIndex(t, k, b) = 0 /\ Len(t) # 0 /\ 0 \in 0 .. Len(t) - 1
      BY <1>1, <1>6, <2>5 DEF NextIndex
    <3>2. \A j \in 1 .. Len(t) : ~Match(t, u, j)
      <4>1. \A j \in 1 .. Len(t) : j = 1 \/ j \in 2 .. Len(t)
        BY <1>1
      <4> QED  BY <2>1, <2>2, <2>5, <4>1
    <3>3. Len(t) \in 1 .. Len(t) /\ \A j \in 0 + 1 .. Len(t) - 1 : j \in 1 .. Len(t)
      BY <1>1
    <3> QED  BY <1>3, <2>3, <3>1, <3>2, <3>3 DEF Longest
  <2> QED  BY <2>4, <2>5
<1> QED  BY <1>5, <1>6

-----------------------------------------------------------------------------
(* What an answer says. *)
LEMMA OccursIs ==
    ASSUME NEW s, IsBytes(s), NEW t, IsBytes(t)
    PROVE  Occurs(t, s) <=>
             \E i \in 0 .. Len(s) - Len(t) : SubSeq(s, i + 1, i + Len(t)) = t
<1>1. Len(s) \in Nat /\ Len(t) \in Nat
  BY IsBytesOf DEF IsBytes
<1>2. ASSUME NEW i \in 0 .. Len(s) - Len(t)
      PROVE  SubSeq(s, i + 1, i + Len(t)) = t <=> \A j \in 1 .. Len(t) : s[i + j] = t[j]
  <2>1. /\ i \in 0 .. Len(s) /\ i + Len(t) \in i .. Len(s) /\ (i + Len(t)) - i = Len(t)
    BY <1>1
  <2> QED  BY <2>1, PieceEquals
<1> QED  BY <1>2 DEF Occurs

LEMMA MatchIsSuffix ==
    ASSUME NEW s, IsBytes(s), NEW t, IsBytes(t), Match(t, s, Len(t))
    PROVE  IsSuffix(t, s)
<1>1. Len(s) \in Nat /\ Len(t) \in Nat /\ Len(t) <= Len(s)
  BY IsBytesOf DEF IsBytes, Match
<1>2. ASSUME NEW r, IsBytes(r)
      PROVE  /\ IsBytes(Reverse(r)) /\ Len(Reverse(r)) = Len(r)
             /\ \A i \in 1 .. Len(r) : Reverse(r)[i] = r[(Len(r) - i) + 1]
  <2>1. Len(r) \in Nat /\ DOMAIN r = 1 .. Len(r)
    BY <1>2, IsBytesOf DEF IsBytes
  <2>2. \A i \in 1 .. Len(r) : r[(Len(r) - i) + 1] \in ToSet(r)
    <3>1. \A i \in 1 .. Len(r) : (Len(r) - i) + 1 \in DOMAIN r
      BY <2>1
    <3> QED  BY <3>1 DEF ToSet
  <2>3. Reverse(r) \in [1 .. Len(r) -> ToSet(r)]
    BY <2>2 DEF Reverse
  <2>4. Reverse(r) \in Seq(ToSet(r)) /\ Len(Reverse(r)) = Len(r)
    BY <2>1, <2>3, SeqDef, LenProperties
  <2> QED  BY <2>4, IsBytesOf DEF Reverse
<1>3. PICK p : p = Reverse(t)
  OBVIOUS
<1>4. PICK q : q = Reverse(s)
  OBVIOUS
<1>5. /\ IsBytes(p) /\ Len(p) = Len(t) /\ \A i \in 1 .. Len(t) : p[i] = t[(Len(t) - i) + 1]
      /\ IsBytes(q) /\ Len(q) = Len(s) /\ \A i \in 1 .. Len(s) : q[i] = s[(Len(s) - i) + 1]
  BY <1>2, <1>3, <1>4
<1>6. \A i \in 1 .. Len(t) : p[i] = q[i]
  <2> SUFFICES ASSUME NEW i \in 1 .. Len(t)  PROVE p[i] = q[i]
    OBVIOUS
  <2>1. /\ (Len(t) - i) + 1 \in 1 .. Len(t) /\ i \in 1 .. Len(s)
        /\ Len(s) - Len(t) + ((Len(t) - i) + 1) = (Len(s) - i) + 1
    BY <1>1
  <2>2. s[Len(s) - Len(t) + ((Len(t) - i) + 1)] = t[(Len(t) - i) + 1]
    BY <2>1 DEF Match
  <2> QED  BY <1>5, <2>1, <2>2
<1>7. /\ 0 \in 0 .. Len(p) /\ Len(p) \in 0 .. Len(p) /\ Len(p) - 0 = Len(t) /\ 0 + 1 = 1
      /\ 0 \in 0 .. Len(q) /\ Len(p) \in 0 .. Len(q)
      /\ \A i \in 1 .. Len(t) : 0 + i = i
  BY <1>1, <1>5
<1>8. SubSeq(p, 0 + 1, Len(p)) = p
  BY <1>5, <1>7, PieceEquals
<1>9. SubSeq(q, 0 + 1, Len(p)) = p
  BY <1>5, <1>6, <1>7, PieceEquals
<1> QED  BY <1>1, <1>3, <1>4, <1>5, <1>7, <1>8, <1>9 DEF IsSuffix, IsPrefix

LEMMA FrontIs ==
    ASSUME NEW s, NEW b, NEW u, OneMore(s, b, u)
    PROVE  Front(u) = s /\ Last(u) = b /\ u # << >>
<1>1. Len(s) \in Nat /\ Len(u) = Len(s) + 1 /\ IsBytes(s) /\ IsBytes(u)
  BY DEF OneMore
<1>2. /\ 0 \in 0 .. Len(u) /\ Len(s) \in 0 .. Len(u) /\ Len(s) - 0 = Len(s)
      /\ 0 + 1 = 1 /\ Len(u) - 1 = Len(s) /\ \A i \in 1 .. Len(s) : 0 + i = i
  BY <1>1
<1>3. SubSeq(u, 0 + 1, Len(s)) = s
  BY <1>1, <1>2, PieceEquals DEF OneMore
<1>4. u # << >>
  BY <1>1
<1> QED  BY <1>2, <1>3, <1>4 DEF Front, Last, OneMore

LEMMA TargetIsBytes ==
    ASSUME NEW t \in Seq(Nat)
    PROVE  IsBytes(t) /\ Len(t) \in Nat /\ DOMAIN t = 1 .. Len(t)
BY IsBytesOf

LEMMA EmptyIsBytes == IsBytes(<< >>) /\ Len(<< >>) = 0
BY EmptySeq, IsBytesOf

-----------------------------------------------------------------------------
(* The invariant over the actions. *)
LEMMA InitStream == StreamInit => StreamInv
<1> SUFFICES ASSUME StreamInit  PROVE StreamInv
  OBVIOUS
<1>1. StreamTypeOK
  BY EmptyIsBytes DEF StreamInit, StreamTypeOK
<1>2. CallInv
  BY DEF StreamInit, CallInv
<1>3. AnswersAreExact
  BY DEF StreamInit, AnswersAreExact, FindIsExact, BytesAreAccountedFor, Answered
<1> QED  BY <1>1, <1>2, <1>3 DEF StreamInv

(* Steps of others: the bytes taken, the call and the answer stay. *)
LEMMA KeepsStream ==
    ASSUME StreamInv, UNCHANGED <<call, taken, answer>>
    PROVE  StreamInv'
<1>1. StreamTypeOK'
  BY DEF StreamInv, StreamTypeOK, IsBytes, FindCall, UntilCall, ParseCall, BytesCall
<1>2. CallInv'
  BY DEF StreamInv, CallInv
<1>3. AnswersAreExact'
  BY DEF StreamInv, AnswersAreExact, FindIsExact, BytesAreAccountedFor, Answered, Seen
<1> QED  BY <1>1, <1>2, <1>3 DEF StreamInv

LEMMA PeerStream ==
    ASSUME StreamInv, NEW s, NEW n, PeerSays(s, n)
    PROVE  StreamInv'
<1>1. taken' = << >> /\ call' = NoCall /\ answer' = NoCall
  BY DEF PeerSays
<1>2. StreamTypeOK'
  BY <1>1, EmptyIsBytes DEF StreamTypeOK
<1>3. CallInv'
  BY <1>1 DEF CallInv
<1>4. AnswersAreExact'
  BY <1>1 DEF AnswersAreExact, FindIsExact, BytesAreAccountedFor, Answered
<1> QED  BY <1>2, <1>3, <1>4 DEF StreamInv

(* A call begins. *)
LEMMA BeginsStream ==
    ASSUME NEW op, Begins(op),
           op \in FindCall \cup UntilCall \cup ParseCall
             \/ op \in [op: {"bytes"}, at: Ats, length: Nat \cup {NoLength},
                        terminators: SUBSET Nat, buffer: {<< >>}],
           op.at \in {"look", "done"},
           op.op \in {"find", "findUntil"} =>
             op.index = 0 /\ (op.at = "done" <=> op.target = << >>),
           op.op = "findUntil" => op.tindex = 0,
           op.op = "bytes" => (op.at = "done" <=> op.length = 0),
           op.op = "parse" => op.at = "look"
    PROVE  StreamInv'
<1>1. call' = op /\ taken' = << >> /\ answer' = NoCall
  BY DEF Begins
<1>2. op # NoCall /\ op.op \in {"find", "findUntil", "bytes", "parse"}
  BY DEF FindCall, UntilCall, ParseCall, NoCall
<1>3. StreamTypeOK'
  <2>1. << >> \in Seq(ToSet(<< >>))
    BY EmptyIsBytes DEF IsBytes
  <2>2. op \in FindCall \cup UntilCall \cup ParseCall \cup
               [op: {"bytes"}, at: Ats, length: Nat \cup {NoLength},
                terminators: SUBSET Nat, buffer: Seq(ToSet(<< >>))]
    BY <2>1
  <2> QED
    BY <1>1, <2>2, EmptyIsBytes
    DEF StreamTypeOK, FindCall, UntilCall, ParseCall, BytesCall
<1>4. CallInv'
  <2>1. CASE op.at = "done"
    BY <1>1, <2>1 DEF CallInv
  <2>2. CASE op.at = "look" /\ op.op \in {"find", "findUntil"}
    <3>1. op.target \in Seq(Nat) /\ op.target # << >> /\ op.index = 0
      BY <2>2 DEF FindCall, UntilCall, ParseCall
    <3>2. Len(op.target) \in Nat /\ Len(op.target) >= 1
      BY <3>1, EmptySeq
    <3>3. PICK t \in Seq(Nat) : t = op.target
      BY <3>1
    <3>4. Searches(t, << >>, 0)
      <4>1. Len(<< >>) = 0 /\ 0 - Len(t) < 0
        BY <3>2, <3>3
      <4>2. ~Occurs(t, << >>)
        BY <3>2, <3>3, <4>1 DEF Occurs
      <4>3. Longest(t, << >>, 0)
        BY <3>2, <3>3, <4>1 DEF Longest, Match
      <4> QED  BY <3>2, <3>3, <4>2, <4>3 DEF Searches
    <3>5. op.op = "findUntil" =>
            op.tindex \in 0 .. Len(op.terminator) - 1 /\ 0 \in 0 .. Len(op.target) - 1
      <4>1. op.op = "findUntil" => op.terminator \in Seq(Nat) /\ op.terminator # << >>
        BY DEF FindCall, UntilCall, ParseCall
      <4>2. op.op = "findUntil" => Len(op.terminator) \in Nat \ {0}
        BY <4>1, EmptySeq
      <4> QED  BY <3>2, <4>2
    <3>6. PICK v : v = op.terminator
      OBVIOUS
    <3>7. Unended(<< >>, v)
      BY EmptyIsBytes DEF Unended
    <3> QED  BY <1>1, <2>2, <3>1, <3>3, <3>4, <3>5, <3>6, <3>7 DEF CallInv
  <2>3. CASE op.at = "look" /\ op.op = "bytes"
    <3>1. op.buffer = << >> /\ op.length \in Nat \cup {NoLength} /\ op.length # 0
      BY <2>3 DEF FindCall, UntilCall, ParseCall
    <3>2. PICK n, x : n = op.length /\ x = op.terminators
      OBVIOUS
    <3>3. Collects(<< >>, n, x)
      BY <3>1, <3>2, EmptyIsBytes DEF Collects, NoLength
    <3> QED  BY <1>1, <2>3, <3>1, <3>2, <3>3 DEF CallInv
  <2>4. CASE op.at = "look" /\ op.op = "parse"
    BY <1>1, <2>4 DEF CallInv
  <2> QED  BY <1>2, <2>1, <2>2, <2>3, <2>4
<1>5. AnswersAreExact'
  BY <1>1, <1>2 DEF AnswersAreExact, FindIsExact, BytesAreAccountedFor, Answered
<1> QED  BY <1>3, <1>4, <1>5 DEF StreamInv

LEMMA FindBegins ==
    ASSUME NEW t \in Seq(Nat), find(t)
    PROVE  StreamInv'
<1>1. PICK op : op = [op |-> "find", at |-> Looking(t # << >>), target |-> t, index |-> 0]
  OBVIOUS
<1>2. Looking(t # << >>) \in {"look", "done"} /\ (Looking(t # << >>) = "done" <=> t = << >>)
  BY DEF Looking
<1>3. /\ op \in FindCall /\ op.at \in {"look", "done"} /\ op.op = "find" /\ op.index = 0
      /\ op.at = "done" <=> op.target = << >>
  BY <1>1, <1>2 DEF FindCall, Ats
<1>4. Begins(op)
  BY <1>1 DEF find
<1> QED  BY <1>3, <1>4, BeginsStream

LEMMA UntilBegins ==
    ASSUME NEW t \in Seq(Nat), NEW u \in Seq(Nat) \ {<< >>}, findUntil(t, u)
    PROVE  StreamInv'
<1>1. PICK op : op = [op |-> "findUntil", at |-> Looking(t # << >>), target |-> t,
                      index |-> 0, terminator |-> u, tindex |-> 0]
  OBVIOUS
<1>2. Looking(t # << >>) \in {"look", "done"} /\ (Looking(t # << >>) = "done" <=> t = << >>)
  BY DEF Looking
<1>3. /\ op \in UntilCall /\ op.at \in {"look", "done"} /\ op.op = "findUntil"
      /\ op.index = 0 /\ op.tindex = 0 /\ (op.at = "done" <=> op.target = << >>)
  BY <1>1, <1>2 DEF UntilCall, Ats
<1>4. Begins(op)
  BY <1>1 DEF findUntil
<1> QED  BY <1>3, <1>4, BeginsStream

LEMMA ParseBegins ==
    ASSUME NEW ends \in SUBSET Nat, NEW skips \in SUBSET Nat, Parsing(ends, skips)
    PROVE  StreamInv'
<1>1. PICK op : op = [op |-> "parse", at |-> "look", ends |-> ends, skips |-> skips,
                      phase |-> "skip", negative |-> FALSE, value |-> 0, places |-> 0]
  OBVIOUS
<1>2. op \in ParseCall /\ op.at = "look" /\ op.op = "parse"
  BY <1>1 DEF ParseCall, Ats
<1>3. Begins(op)
  BY <1>1 DEF Parsing
<1> QED  BY <1>2, <1>3, BeginsStream

LEMMA BytesBegins ==
    ASSUME NEW n \in Nat \cup {NoLength}, NEW x \in SUBSET Nat, readBytes(n, x)
    PROVE  StreamInv'
<1>1. PICK op : op = [op |-> "bytes", at |-> Looking(n # 0), length |-> n,
                      terminators |-> x, buffer |-> << >>]
  OBVIOUS
<1>2. Looking(n # 0) \in {"look", "done"} /\ (Looking(n # 0) = "done" <=> n = 0)
  BY DEF Looking
<1>3. /\ op \in [op: {"bytes"}, at: Ats, length: Nat \cup {NoLength},
                 terminators: SUBSET Nat, buffer: {<< >>}]
      /\ op.at \in {"look", "done"} /\ op.op = "bytes" /\ (op.at = "done" <=> op.length = 0)
  BY <1>1, <1>2 DEF Ats
<1>4. Begins(op)
  BY <1>1 DEF readBytes
<1> QED  BY <1>3, <1>4, BeginsStream

-----------------------------------------------------------------------------
(* A call goes on, with what it took. *)
LEMMA TakesOne ==
    ASSUME StreamTypeOK, ready # << >>, Taking
    PROVE  OneMore(taken, Byte, taken') /\ IsBytes(taken')
<1>1. taken' = Append(taken, Byte) /\ IsBytes(taken)
  BY DEF Taking, StreamTypeOK
<1> QED  BY <1>1, AppendIsOneMore DEF OneMore

(* A call returns, and its answer is what it should be. *)
LEMMA ReturnsStream ==
    ASSUME NEW value, NEW late, Returns(value, late), IsBytes(taken'),
           call.op \in {"find", "findUntil"} => IsBytes(call.target),
           call.op = "findUntil" => IsBytes(call.terminator),
           call.op = "find" /\ Restartable(call.target) =>
             /\ value <=> Occurs(call.target, taken')
             /\ value \in BOOLEAN
             /\ value => IsSuffix(call.target, taken'),
           (call.op = "findUntil" /\ Restartable(call.target)
              /\ Apart(call.target, call.terminator)) =>
             /\ value <=> Occurs(call.target, taken')
             /\ value \in BOOLEAN
             /\ Occurs(call.terminator, taken') => ~value
             /\ Occurs(call.terminator, taken') \/ value \/ late,
           call.op = "bytes" =>
             /\ value = IF taken' # << >> /\ Last(taken') \in call.terminators
                        THEN Front(taken') ELSE taken'
             /\ \A i \in 1 .. Len(taken') - 1 : taken'[i] \notin call.terminators
             /\ ~late => Len(value) = call.length \/ Last(taken') \in call.terminators
             /\ call.length # NoLength => Len(value) <= call.length
    PROVE  StreamInv'
<1>1. call' = NoCall /\ answer' = [of |-> call, value |-> value, late |-> late]
  BY DEF Returns
<1>2. answer'.of = call /\ answer'.value = value /\ answer'.late = late
  BY <1>1
<1>3. PICK t, u, s : t = call.target /\ u = call.terminator /\ s = taken'
  OBVIOUS
<1>4. FindIsExact'
  <2>1. /\ IsBytes(t) => (Seen(t)' <=> Occurs(t, s))
        /\ IsBytes(u) => (Seen(u)' <=> Occurs(u, s))
    <3>1. IsBytes(s)
      BY <1>3
    <3>2. Seen(t)' <=> \E i \in 0 .. Len(s) - Len(t) : SubSeq(s, i + 1, i + Len(t)) = t
      BY <1>3 DEF Seen
    <3>3. Seen(u)' <=> \E i \in 0 .. Len(s) - Len(u) : SubSeq(s, i + 1, i + Len(u)) = u
      BY <1>3 DEF Seen
    <3>4. ASSUME NEW a, IsBytes(a)
          PROVE  Occurs(a, s) <=> \E i \in 0 .. Len(s) - Len(a) : SubSeq(s, i + 1, i + Len(a)) = a
      BY <3>1, <3>4, OccursIs
    <3>5. IsBytes(t) => (Seen(t)' <=> Occurs(t, s))
      BY <3>2, <3>4, Zenon
    <3>6. IsBytes(u) => (Seen(u)' <=> Occurs(u, s))
      BY <3>3, <3>4, Zenon
    <3> QED  BY <3>5, <3>6
  <2>2. ASSUME call.op = "find", Restartable(t)
        PROVE  value = Seen(t)' /\ (value => IsSuffix(t, s))
    <3>1. /\ IsBytes(t) /\ value \in BOOLEAN /\ (value <=> Occurs(t, s))
          /\ value => IsSuffix(t, s)
      BY <1>3, <2>2
    <3>2. Seen(t)' \in BOOLEAN
      BY DEF Seen
    <3> QED  BY <2>1, <3>1, <3>2
  <2>3. ASSUME call.op = "findUntil", Restartable(t), Apart(t, u)
        PROVE  value = Seen(t)' /\ (Seen(u)' => ~value) /\ (Seen(u)' \/ value \/ late)
    <3>1. /\ IsBytes(t) /\ IsBytes(u) /\ value \in BOOLEAN /\ (value <=> Occurs(t, s))
          /\ Occurs(u, s) => ~value
          /\ Occurs(u, s) \/ value \/ late
      BY <1>3, <2>3
    <3>2. Seen(t)' \in BOOLEAN
      BY DEF Seen
    <3> QED  BY <2>1, <3>1, <3>2
  <2>4. (answer.of.target)' = t /\ (answer.of.terminator)' = u /\ (answer.of.op)' = call.op
    BY <1>2, <1>3
  <2> QED  BY <1>2, <1>3, <2>2, <2>3, <2>4 DEF FindIsExact, Answered, Apart
<1>5. BytesAreAccountedFor'
  BY <1>2 DEF BytesAreAccountedFor, Answered
<1>6. StreamTypeOK' /\ CallInv'
  BY <1>1 DEF StreamTypeOK, CallInv
<1> QED  BY <1>4, <1>5, <1>6 DEF StreamInv, AnswersAreExact

(* A search goes on, after one more byte. *)
LEMMA SearchStep ==
    ASSUME NEW t \in Seq(Nat), NEW s, NEW b, NEW u, OneMore(s, b, u),
           NEW k, Searches(t, s, k)
    PROVE  /\ NextIndex(t, k, b) \in 0 .. Len(t)
           /\ NextIndex(t, k, b) = Len(t) =>
                IsSuffix(t, u) \/ ~Restartable(t)
           /\ NextIndex(t, k, b) = Len(t) /\ Restartable(t) => Occurs(t, u)
           /\ NextIndex(t, k, b) # Len(t) => Searches(t, u, NextIndex(t, k, b))
<1>1. Len(t) \in Nat /\ k \in 0 .. Len(t) - 1 /\ IsBytes(t) /\ IsBytes(u)
  BY LenProperties, TargetIsBytes DEF Searches, OneMore
<1>2. NextIndex(t, k, b) \in 0 .. Len(t)
  BY <1>1 DEF NextIndex
<1>3. CASE Restartable(t)
  <2>1. Longest(t, s, k) /\ ~Occurs(t, s)
    BY <1>3 DEF Searches
  <2>2. /\ NextIndex(t, k, b) = Len(t) => Match(t, u, Len(t))
        /\ NextIndex(t, k, b) # Len(t) => Longest(t, u, NextIndex(t, k, b)) /\ ~Occurs(t, u)
    BY <1>3, <2>1, SearchGoesOn
  <2>3. Match(t, u, Len(t)) => IsSuffix(t, u) /\ Occurs(t, u)
    BY <1>1, MatchIsSuffix, OccursMore
  <2>4. NextIndex(t, k, b) # Len(t) => NextIndex(t, k, b) \in 0 .. Len(t) - 1
    BY <1>1, <1>2
  <2> QED  BY <1>2, <2>2, <2>3, <2>4 DEF Searches
<1>4. CASE ~Restartable(t)
  <2>1. NextIndex(t, k, b) # Len(t) => NextIndex(t, k, b) \in 0 .. Len(t) - 1
    BY <1>1, <1>2
  <2> QED  BY <1>2, <1>4, <2>1 DEF Searches
<1> QED  BY <1>3, <1>4

LEMMA FindStream ==
    ASSUME StreamInv, FindStep
    PROVE  StreamInv'
<1>1. /\ call.op = "find" /\ call.at = "look" /\ call # NoCall /\ Taking
      /\ ready # << >>
  BY DEF FindStep, Looked, NoCall
<1>2. call \in FindCall
  BY <1>1 DEF StreamInv, StreamTypeOK, NoCall, FindCall, UntilCall, ParseCall, BytesCall
<1>3. PICK t \in Seq(Nat) : t = call.target
  BY <1>2 DEF FindCall
<1>4. PICK k, s, b, u : k = call.index /\ s = taken /\ b = Byte /\ u = taken'
  OBVIOUS
<1>5. Searches(t, s, k) /\ OneMore(s, b, u) /\ IsBytes(u) /\ IsBytes(t)
  BY <1>1, <1>3, <1>4, TakesOne, TargetIsBytes DEF StreamInv, CallInv
<1>6. PICK n : n = NextIndex(t, k, b)
  OBVIOUS
<1>7. Progress(call.target, call.index) = n
  BY <1>3, <1>4, <1>6 DEF Progress, NextIndex
<1>8. /\ n \in 0 .. Len(t) /\ (n = Len(t) => IsSuffix(t, u) \/ ~Restartable(t))
      /\ n = Len(t) /\ Restartable(t) => Occurs(t, u)
      /\ n # Len(t) => Searches(t, u, n)
  BY <1>5, <1>6, SearchStep
<1>9. CASE n = Len(t)
  <2>1. Returns(TRUE, FALSE)
    BY <1>3, <1>7, <1>9 DEF FindStep
  <2> QED  BY <1>1, <1>3, <1>4, <1>5, <1>8, <1>9, <2>1, ReturnsStream
<1>10. CASE n # Len(t)
  <2>1. call' = [call EXCEPT !.index = n] /\ answer' = answer
    BY <1>3, <1>7, <1>10 DEF FindStep, Continues
  <2>2. /\ call' \in FindCall /\ call'.op = "find" /\ call'.at = "look"
        /\ call'.target = t /\ call'.index = n
    <3>1. n \in Nat
      BY <1>3, <1>8, LenProperties
    <3> QED  BY <1>1, <1>2, <1>3, <2>1, <3>1 DEF FindCall
  <2>3. StreamTypeOK'
    BY <1>4, <1>5, <2>2 DEF StreamTypeOK, FindCall
  <2>4. CallInv'
    BY <1>4, <1>8, <1>10, <2>2 DEF CallInv
  <2>5. AnswersAreExact'
    BY <2>2 DEF AnswersAreExact, FindIsExact, BytesAreAccountedFor, Answered, NoCall
  <2> QED  BY <2>3, <2>4, <2>5 DEF StreamInv
<1> QED  BY <1>9, <1>10

(* A terminator of one byte that has not come is not in what was read. *)
LEMMA EndOccurs ==
    ASSUME NEW u \in Seq(Nat), Len(u) = 1, NEW s, IsBytes(s)
    PROVE  Occurs(u, s) <=> \E i \in 1 .. Len(s) : s[i] = u[1]
<1>1. Len(s) \in Nat
  BY IsBytesOf DEF IsBytes
<1>2. ASSUME Occurs(u, s)  PROVE \E i \in 1 .. Len(s) : s[i] = u[1]
  <2>1. PICK i \in 0 .. Len(s) - 1 : \A j \in 1 .. 1 : s[i + j] = u[j]
    BY <1>2 DEF Occurs
  <2>2. s[i + 1] = u[1] /\ i + 1 \in 1 .. Len(s)
    BY <1>1, <2>1
  <2> QED  BY <2>2
<1>3. ASSUME NEW i \in 1 .. Len(s), s[i] = u[1]  PROVE Occurs(u, s)
  <2>1. i - 1 \in 0 .. Len(s) - Len(u) /\ \A j \in 1 .. Len(u) : j = 1 /\ (i - 1) + j = i
    BY <1>1
  <2>2. \A j \in 1 .. Len(u) : s[(i - 1) + j] = u[j]
    BY <1>3, <2>1
  <2> QED  BY <2>1, <2>2 DEF Occurs
<1> QED  BY <1>2, <1>3

LEMMA UntilStream ==
    ASSUME StreamInv, FindUntilStep
    PROVE  StreamInv'
<1>1. /\ call.op = "findUntil" /\ call.at = "look" /\ call # NoCall /\ Taking
      /\ ready # << >>
  BY DEF FindUntilStep, Looked, NoCall
<1>2. call \in UntilCall
  BY <1>1 DEF StreamInv, StreamTypeOK, NoCall, FindCall, UntilCall, ParseCall, BytesCall
<1>3. PICK t \in Seq(Nat), v \in Seq(Nat) : t = call.target /\ v = call.terminator
  BY <1>2 DEF UntilCall
<1>4. PICK k, m, s, b, u : /\ k = call.index /\ m = call.tindex
                           /\ s = taken /\ b = Byte /\ u = taken'
  OBVIOUS
<1>5. /\ Apart(t, v) => Searches(t, s, k)
      /\ k \in 0 .. Len(t) - 1 /\ m \in 0 .. Len(v) - 1 /\ Unended(s, v)
      /\ OneMore(s, b, u) /\ IsBytes(u) /\ IsBytes(t) /\ IsBytes(v)
      /\ Len(t) \in Nat /\ Len(v) \in Nat
  BY <1>1, <1>3, <1>4, TakesOne, TargetIsBytes DEF StreamInv, CallInv
<1>6. PICK ending : ending \in BOOLEAN /\ (ending <=> b = v[m + 1])
  OBVIOUS
<1>7. PICK n, j : /\ n = IF ending THEN 0 ELSE NextIndex(t, k, b)
                  /\ j = IF ending THEN m + 1 ELSE 0
  OBVIOUS
<1>8. /\ j = Len(v) => Returns(FALSE, FALSE)
      /\ j # Len(v) /\ n = Len(t) => Returns(TRUE, FALSE)
      /\ j # Len(v) /\ n # Len(t) => call' = [call EXCEPT !.index = n, !.tindex = j]
  BY <1>3, <1>4, <1>6, <1>7 DEF FindUntilStep, Continues, Progress, NextIndex
<1>9. n \in 0 .. Len(t) /\ j \in 0 .. Len(v)
  BY <1>5, <1>6, <1>7 DEF NextIndex
<1>10. \A i \in 1 .. Len(u) : i \in 1 .. Len(s) \/ i = Len(u)
  BY <1>5 DEF OneMore
<1>11. Len(u) \in 1 .. Len(u)
  BY <1>5 DEF OneMore
<1>12. CASE j = Len(v)
  <2>1. ending /\ b = v[m + 1] /\ j = m + 1
    BY <1>5, <1>6, <1>7, <1>12
  <2>2. ASSUME Restartable(t), Apart(t, v)  PROVE ~Occurs(t, u) /\ Occurs(v, u)
    <3>1. Len(v) = 1 /\ v[1] \notin ToSet(t) /\ b = v[1] /\ u[Len(u)] = b
      BY <1>5, <1>12, <2>1, <2>2 DEF Apart, OneMore
    <3>2. ~Occurs(t, s) /\ Len(t) >= 1
      BY <1>5, <2>2 DEF Searches
    <3>3. Len(t) \in DOMAIN t
      BY <3>2, TargetIsBytes
    <3>4. t[Len(t)] # b
      BY <3>1, <3>3 DEF ToSet
    <3>5. ~Match(t, u, Len(t))
      <4>1. PICK i \in Nat : i + 1 = Len(t)
        <5>1. Len(t) - 1 \in Nat /\ (Len(t) - 1) + 1 = Len(t)
          BY <1>5, <3>2
        <5> QED  BY <5>1
      <4>2. Match(t, u, i + 1) <=> Match(t, s, i) /\ t[i + 1] = b
        BY <1>5, MatchMore
      <4> QED  BY <3>4, <4>1, <4>2
    <3>6. Occurs(v, u)
      BY <1>5, <1>11, <3>1, EndOccurs
    <3> QED  BY <1>5, <3>2, <3>5, <3>6, OccursMore
  <2>3. Returns(FALSE, FALSE)
    BY <1>8, <1>12
  <2> QED  BY <1>1, <1>3, <1>4, <1>5, <2>2, <2>3, ReturnsStream
<1>13. CASE j # Len(v) /\ n = Len(t)
  <2>1. ~ending /\ n = NextIndex(t, k, b)
    BY <1>5, <1>6, <1>7, <1>13
  <2>2. ASSUME Restartable(t), Apart(t, v)  PROVE Occurs(t, u) /\ ~Occurs(v, u)
    <3>1. Occurs(t, u)
      BY <1>5, <1>13, <2>1, <2>2, SearchStep
    <3>2. Len(v) = 1 /\ m = 0 /\ b # v[1]
      BY <1>5, <1>6, <2>1, <2>2 DEF Apart
    <3>3. \A i \in 1 .. Len(u) : u[i] # v[1]
      BY <1>5, <1>10, <3>2 DEF Unended, OneMore
    <3> QED  BY <1>5, <3>1, <3>2, <3>3, EndOccurs
  <2>3. Returns(TRUE, FALSE)
    BY <1>8, <1>13
  <2> QED  BY <1>1, <1>3, <1>4, <1>5, <2>2, <2>3, ReturnsStream
<1>14. CASE j # Len(v) /\ n # Len(t)
  <2>1. call' = [call EXCEPT !.index = n, !.tindex = j]
    BY <1>8, <1>14
  <2>2. n \in Nat /\ j \in Nat /\ n \in 0 .. Len(t) - 1 /\ j \in 0 .. Len(v) - 1
    BY <1>5, <1>9, <1>14
  <2>3. /\ call' \in UntilCall /\ call'.op = "findUntil" /\ call'.at = "look"
        /\ call'.target = t /\ call'.index = n /\ call'.terminator = v /\ call'.tindex = j
    BY <1>1, <1>2, <1>3, <2>1, <2>2 DEF UntilCall
  <2>4. StreamTypeOK'
    BY <1>4, <1>5, <2>3 DEF StreamTypeOK, UntilCall
  <2>5. Len(v) = 1 => ~ending
    BY <1>5, <1>7, <1>14
  <2>6. Unended(u, v)
    <3> SUFFICES ASSUME Len(v) = 1  PROVE \A i \in 1 .. Len(u) : u[i] # v[1]
      BY DEF Unended
    <3>1. m = 0 /\ b # v[1]
      BY <1>5, <1>6, <2>5
    <3> QED  BY <1>5, <1>10, <3>1 DEF Unended, OneMore
  <2>7. Apart(t, v) => Searches(t, u, n)
    <3> SUFFICES ASSUME Apart(t, v)  PROVE Searches(t, u, n)
      OBVIOUS
    <3>1. n = NextIndex(t, k, b)
      BY <1>7, <2>5 DEF Apart
    <3> QED  BY <1>5, <1>14, <3>1, SearchStep
  <2>8. CallInv'
    BY <1>4, <2>2, <2>3, <2>6, <2>7 DEF CallInv
  <2>9. AnswersAreExact'
    BY <2>3 DEF AnswersAreExact, FindIsExact, BytesAreAccountedFor, Answered, NoCall
  <2> QED  BY <2>4, <2>8, <2>9 DEF StreamInv
<1> QED  BY <1>12, <1>13, <1>14

LEMMA BytesStream ==
    ASSUME StreamInv, BytesStep
    PROVE  StreamInv'
<1>1. /\ call.op = "bytes" /\ call.at = "look" /\ call # NoCall /\ Taking
      /\ ready # << >>
  BY DEF BytesStep, Looked, NoCall
<1>2. /\ call \in BytesCall /\ call.length \in Nat \cup {NoLength}
  BY <1>1 DEF StreamInv, StreamTypeOK, NoCall, FindCall, UntilCall, ParseCall, BytesCall
<1>3. PICK x, n, s, b, u : /\ x = call.terminators /\ n = call.length
                           /\ s = taken /\ b = Byte /\ u = taken'
  OBVIOUS
<1>4. /\ OneMore(s, b, u) /\ IsBytes(u) /\ call.buffer = s /\ Collects(s, n, x)
      /\ u = Append(s, b) /\ Len(s) \in Nat /\ Len(u) = Len(s) + 1 /\ IsBytes(s)
  BY <1>1, <1>3, TakesOne DEF StreamInv, CallInv, OneMore, Taking
<1>5. Front(u) = s /\ Last(u) = b /\ u # << >>
  BY <1>4, FrontIs
<1>6. \A i \in 1 .. Len(u) - 1 : u[i] \notin x
  BY <1>4 DEF OneMore, Collects
<1>7. CASE b \in x
  <2>1. Returns(s, FALSE)
    BY <1>3, <1>4, <1>7 DEF BytesStep
  <2>2. n # NoLength => Len(s) <= n
    BY <1>2, <1>3, <1>4 DEF Collects, NoLength
  <2> QED  BY <1>1, <1>3, <1>4, <1>5, <1>6, <1>7, <2>1, <2>2, ReturnsStream
<1>8. CASE b \notin x /\ Len(u) = n
  <2>1. Returns(u, FALSE)
    BY <1>3, <1>4, <1>8 DEF BytesStep
  <2>2. n # NoLength => Len(u) <= n
    BY <1>4, <1>8
  <2> QED  BY <1>1, <1>3, <1>4, <1>5, <1>6, <1>8, <2>1, <2>2, ReturnsStream
<1>9. CASE b \notin x /\ Len(u) # n
  <2>1. call' = [call EXCEPT !.buffer = u] /\ answer' = answer
    BY <1>3, <1>4, <1>9 DEF BytesStep, Continues
  <2>2. u \in Seq(ToSet(u))
    BY <1>4 DEF IsBytes
  <2>3. call' \in [op: {"bytes"}, at: Ats, length: Nat \cup {NoLength},
                   terminators: SUBSET Nat, buffer: Seq(ToSet(u))]
        /\ call'.op = "bytes" /\ call'.at = "look"
        /\ call'.length = n /\ call'.terminators = x /\ call'.buffer = u
    BY <1>1, <1>2, <1>3, <2>1, <2>2 DEF BytesCall
  <2>4. StreamTypeOK'
    BY <1>3, <1>4, <2>3 DEF StreamTypeOK, BytesCall
  <2>5. Collects(u, n, x)
    <3>1. n # NoLength => Len(u) < n
      BY <1>2, <1>3, <1>4, <1>9 DEF Collects, NoLength
    <3>2. \A i \in 1 .. Len(u) : u[i] \notin x
      <4>1. \A i \in 1 .. Len(u) : i \in 1 .. Len(s) \/ i = Len(u)
        BY <1>4
      <4> QED  BY <1>4, <1>9, <4>1 DEF OneMore, Collects
    <3> QED  BY <3>1, <3>2 DEF Collects
  <2>6. CallInv'
    BY <1>3, <2>3, <2>5 DEF CallInv
  <2>7. AnswersAreExact'
    BY <2>3 DEF AnswersAreExact, FindIsExact, BytesAreAccountedFor, Answered, NoCall
  <2> QED  BY <2>4, <2>6, <2>7 DEF StreamInv
<1> QED  BY <1>7, <1>8, <1>9

(* parseInt() and parseFloat() do not claim anything of the bytes. *)
LEMMA ParseStream ==
    ASSUME StreamInv, ParseStep
    PROVE  StreamInv'
<1>1. /\ call.op = "parse" /\ call.at = "look" /\ call # NoCall /\ Taking /\ answer' = answer
      /\ ready # << >>
  BY DEF ParseStep, Looked, NoCall, Reads, Continues
<1>2. call \in ParseCall
  BY <1>1 DEF StreamInv, StreamTypeOK, NoCall, FindCall, UntilCall, ParseCall, BytesCall
<1>3. IsBytes(taken')
  BY <1>1, TakesOne DEF StreamInv
<1>4. call' \in ParseCall /\ call'.op = "parse" /\ call'.at = "look"
  <2>1. CASE call' = call
    BY <1>1, <1>2, <2>1
  <2>2. CASE call' = [call EXCEPT !.negative = TRUE, !.phase = "digits"]
    BY <1>1, <1>2, <2>2 DEF ParseCall
  <2>3. CASE Digit /\ call' = [call EXCEPT
                      !.value = 10 * @ + Byte - 48,
                      !.phase = IF @ = "skip" THEN "digits" ELSE @,
                      !.places = IF call.phase = "fraction" THEN @ + 1 ELSE @]
    <3>1. PICK v, p, q : /\ v = 10 * call.value + Byte - 48
                         /\ p = IF call.phase = "skip" THEN "digits" ELSE call.phase
                         /\ q = IF call.phase = "fraction" THEN call.places + 1
                                ELSE call.places
      OBVIOUS
    <3>2. v \in Int /\ p \in {"skip", "digits", "fraction"} /\ q \in Nat
      BY <1>2, <2>3, <3>1 DEF ParseCall, Digit
    <3>3. call' = [call EXCEPT !.value = v, !.phase = p, !.places = q]
      BY <2>3, <3>1
    <3> QED  BY <1>1, <1>2, <3>2, <3>3 DEF ParseCall
  <2>4. CASE call' = [call EXCEPT !.phase = "fraction"]
    BY <1>1, <1>2, <2>4 DEF ParseCall
  <2> QED  BY <2>1, <2>2, <2>3, <2>4 DEF ParseStep, Reads, Continues
<1>5. StreamTypeOK'
  BY <1>3, <1>4 DEF StreamTypeOK, ParseCall
<1>6. CallInv'
  BY <1>4 DEF CallInv
<1>7. AnswersAreExact'
  BY <1>4 DEF AnswersAreExact, FindIsExact, BytesAreAccountedFor, Answered, NoCall
<1> QED  BY <1>5, <1>6, <1>7 DEF StreamInv

LEMMA ParseEndsStream ==
    ASSUME StreamInv, ParseEnds
    PROVE  StreamInv'
<1>1. /\ call.op = "parse" /\ Returns(Value, FALSE) /\ taken' = taken
  BY DEF ParseEnds, Looked
<1>2. IsBytes(taken')
  BY <1>1 DEF StreamInv, StreamTypeOK
<1> QED  BY <1>1, <1>2, ReturnsStream

(* Looking again, or at the clock. *)
LEMMA WaitsStream ==
    ASSUME StreamInv, call # NoCall, call.at # "done", NEW at \in {"look", "clock"},
           call' = [call EXCEPT !.at = at], taken' = taken, answer' = answer
    PROVE  StreamInv'
<1>1. PICK c : c = call
  OBVIOUS
<1>2. PICK s : s = taken
  OBVIOUS
<1>3. IsBytes(s) /\ c \in FindCall \cup UntilCall \cup ParseCall \cup
               [op: {"bytes"}, at: Ats, length: Nat \cup {NoLength},
                terminators: SUBSET Nat, buffer: Seq(ToSet(s))]
  BY <1>1, <1>2 DEF StreamInv, StreamTypeOK, BytesCall
<1>4. PICK d : d = [c EXCEPT !.at = at]
  OBVIOUS
<1>5. /\ d \in FindCall \cup UntilCall \cup ParseCall \cup
               [op: {"bytes"}, at: Ats, length: Nat \cup {NoLength},
                terminators: SUBSET Nat, buffer: Seq(ToSet(s))]
      /\ d.at = at /\ d.op = c.op /\ d.op # "none"
      /\ c.op = "find" => d.target = c.target /\ d.index = c.index
      /\ c.op = "findUntil" => /\ d.target = c.target /\ d.index = c.index
                               /\ d.terminator = c.terminator /\ d.tindex = c.tindex
      /\ c.op = "bytes" => /\ d.length = c.length /\ d.terminators = c.terminators
                           /\ d.buffer = c.buffer
  <2>1. CASE c \in FindCall
    BY <1>4, <2>1 DEF FindCall, Ats
  <2>2. CASE c \in UntilCall
    BY <1>4, <2>2 DEF UntilCall, Ats
  <2>3. CASE c \in ParseCall
    BY <1>4, <2>3 DEF ParseCall, Ats
  <2>4. CASE c \in [op: {"bytes"}, at: Ats, length: Nat \cup {NoLength},
                    terminators: SUBSET Nat, buffer: Seq(ToSet(s))]
    BY <1>4, <2>4 DEF Ats
  <2> QED  BY <1>3, <2>1, <2>2, <2>3, <2>4
<1>6. call' = d /\ d # NoCall
  BY <1>1, <1>4, <1>5 DEF NoCall
<1>7. StreamTypeOK'
  BY <1>2, <1>3, <1>5, <1>6
  DEF StreamTypeOK, FindCall, UntilCall, ParseCall, BytesCall
<1>8. CallInv'
  BY <1>1, <1>2, <1>5, <1>6 DEF StreamInv, CallInv
<1>9. AnswersAreExact'
  BY <1>6 DEF AnswersAreExact, FindIsExact, BytesAreAccountedFor, Answered
<1> QED  BY <1>7, <1>8, <1>9 DEF StreamInv

LEMMA MissesStream ==
    ASSUME StreamInv, Misses
    PROVE  StreamInv'
BY WaitsStream DEF Misses

(* What the kinds of call are made of. *)
LEMMA KindsOfCall ==
    ASSUME StreamInv, call # NoCall
    PROVE  /\ call.op \in {"find", "findUntil", "parse", "bytes"}
           /\ IsBytes(taken) /\ Len(taken) \in Nat
           /\ call.op \in {"find", "findUntil"} => call.target \in Seq(Nat)
           /\ call.op = "findUntil" => call.terminator \in Seq(Nat) \ {<< >>}
           /\ call.op = "bytes" => call.length \in Nat \cup {NoLength}
<1>1. IsBytes(taken) /\ Len(taken) \in Nat
  BY IsBytesOf DEF StreamInv, StreamTypeOK, IsBytes
<1>2. call \in FindCall \cup UntilCall \cup ParseCall \cup BytesCall
  BY DEF StreamInv, StreamTypeOK
<1> QED  BY <1>1, <1>2 DEF FindCall, UntilCall, ParseCall, BytesCall

(* The timeout ends a call that has found nothing. *)
LEMMA ClockStream ==
    ASSUME StreamInv, ChecksClock
    PROVE  StreamInv'
<1>1. call # NoCall /\ call.at = "clock" /\ taken' = taken
  BY DEF ChecksClock
<1>2. CASE waited < Timeout
  BY <1>1, <1>2, WaitsStream DEF ChecksClock, Continues
<1>3. CASE ~(waited < Timeout)
  <2>1. PICK value : value = CASE call.op = "parse" -> Value
                             []   call.op = "bytes" -> call.buffer
                             []   OTHER -> FALSE
    OBVIOUS
  <2>2. Returns(value, TRUE)
    BY <1>3, <2>1 DEF ChecksClock
  <2>3. PICK t, v, s : t = call.target /\ v = call.terminator /\ s = taken
    OBVIOUS
  <2>4. /\ call.op \in {"find", "findUntil"} => t \in Seq(Nat) /\ IsBytes(t)
        /\ call.op = "findUntil" => v \in Seq(Nat) /\ IsBytes(v)
        /\ IsBytes(s)
    BY <1>1, <2>3, KindsOfCall, TargetIsBytes
  <2>5. ASSUME call.op = "find", Restartable(t)
        PROVE  value = FALSE /\ ~Occurs(t, s)
    BY <1>1, <2>1, <2>3, <2>5 DEF StreamInv, CallInv, Searches
  <2>6. ASSUME call.op = "findUntil", Restartable(t), Apart(t, v)
        PROVE  value = FALSE /\ ~Occurs(t, s)
    BY <1>1, <2>1, <2>3, <2>6 DEF StreamInv, CallInv, Searches
  <2>7. ASSUME call.op = "bytes"
        PROVE  /\ value = IF s # << >> /\ Last(s) \in call.terminators
                          THEN Front(s) ELSE s
               /\ \A i \in 1 .. Len(s) - 1 : s[i] \notin call.terminators
               /\ call.length # NoLength => Len(value) <= call.length
    <3>1. PICK x, n : x = call.terminators /\ n = call.length
      OBVIOUS
    <3>2. value = s /\ Collects(s, n, x) /\ n \in Nat \cup {NoLength} /\ Len(s) \in Nat
      BY <1>1, <2>1, <2>3, <2>7, <3>1, KindsOfCall DEF StreamInv, CallInv
    <3>3. s # << >> => Last(s) \notin x
      <4>1. s # << >> => Len(s) \in 1 .. Len(s)
        BY <2>4, <3>2, EmptySeq DEF IsBytes
      <4> QED  BY <3>2, <4>1 DEF Collects, Last
    <3> QED  BY <3>1, <3>2, <3>3 DEF Collects, NoLength
  <2> QED  BY <1>1, <2>2, <2>3, <2>4, <2>5, <2>6, <2>7, ReturnsStream
<1> QED  BY <1>2, <1>3

LEMMA WantsStream ==
    ASSUME StreamInv, WantsNothing
    PROVE  StreamInv'
<1>1. /\ call # NoCall /\ call.at = "done" /\ taken' = taken
      /\ Returns(IF call.op = "bytes" THEN << >> ELSE TRUE, FALSE)
  BY DEF WantsNothing
<1>2. /\ taken = << >>
      /\ call.op \in {"find", "findUntil"} => call.target = << >>
      /\ call.op = "bytes" => call.length = 0
  BY <1>1 DEF StreamInv, CallInv
<1>3. PICK e : e = << >>
  OBVIOUS
<1>4. IsBytes(e) /\ Len(e) = 0 /\ Occurs(e, e) /\ IsSuffix(e, e)
  <2>1. IsBytes(e) /\ Len(e) = 0
    BY <1>3, EmptyIsBytes
  <2>2. Match(e, e, Len(e))
    BY <2>1 DEF Match
  <2>3. Occurs(e, e)
    BY <2>1 DEF Occurs
  <2> QED  BY <2>1, <2>2, <2>3, MatchIsSuffix
<1>5. CASE call.op = "bytes"
  <2>1. Returns(e, FALSE)
    BY <1>1, <1>3, <1>5
  <2>2. /\ taken' = e /\ IsBytes(taken') /\ ~(taken' # << >>) /\ 1 .. Len(taken') - 1 = {}
        /\ Len(e) = call.length /\ Len(e) <= call.length
    BY <1>1, <1>2, <1>3, <1>4, <1>5
  <2> QED  BY <1>5, <2>1, <2>2, ReturnsStream
<1>6. CASE call.op # "bytes"
  <2>1. Returns(TRUE, FALSE)
    BY <1>1, <1>6
  <2>2. PICK v : v = call.terminator
    OBVIOUS
  <2>3. call.op = "findUntil" => IsBytes(v) /\ Len(v) \in Nat \ {0}
    BY <1>1, <2>2, KindsOfCall, TargetIsBytes, EmptySeq
  <2>4. call.op = "findUntil" => ~Occurs(v, e)
    BY <1>4, <2>3 DEF Occurs
  <2> QED  BY <1>1, <1>2, <1>3, <1>4, <1>6, <2>1, <2>2, <2>3, <2>4, ReturnsStream
<1> QED  BY <1>5, <1>6

LEMMA StepStream ==
    ASSUME StreamInv, StreamStep
    PROVE  StreamInv'
BY WantsStream, FindStream, UntilStream, BytesStream, ParseStream, ParseEndsStream,
   MissesStream, ClockStream
DEF StreamStep

LEMMA NextStream == StreamInv /\ [Next]_vars => StreamInv'
<1> SUFFICES ASSUME StreamInv, [Next]_vars  PROVE StreamInv'
  OBVIOUS
<1>1. CASE Peer
  BY <1>1, PeerStream DEF Peer, Printed
<1>2. CASE Parses
  <2>1. Space \in SUBSET Nat /\ {46} \in SUBSET Nat /\ {} \in SUBSET Nat
    BY DEF Space, LF, CR
  <2> QED  BY <1>2, <2>1, ParseBegins DEF Parses, parseInt, parseFloat
<1>3. CASE ReadsText
  <2>1. {} \in SUBSET Nat /\ {LF} \in SUBSET Nat
    BY DEF LF
  <2>2. /\ \A t \in Targets : t \in Seq(Nat)
        /\ \A u \in Terminators : u \in Seq(Nat) \ {<< >>}
        /\ \A n \in Lengths : n \in Nat \cup {NoLength}
    BY SketchAssumption
  <2> QED  BY <1>3, <2>1, <2>2, FindBegins, UntilBegins, BytesBegins DEF ReadsText
<1>4. CASE Step
  <2>1. Arrives => UNCHANGED <<call, taken, answer>>
    BY DEF Arrives
  <2> QED  BY <1>4, <2>1, StepStream, KeepsStream DEF Step
<1>5. CASE Tick
  <2>1. UNCHANGED <<call, taken, answer>>
    BY <1>5 DEF Tick, StreamTick
  <2> QED  BY <2>1, KeepsStream
<1>6. CASE OnString \/ UNCHANGED vars
  <2>1. UNCHANGED <<call, taken, answer>>
    BY <1>6 DEF OnString, vars, streamVars
  <2> QED  BY <2>1, KeepsStream
<1> QED  BY <1>1, <1>2, <1>3, <1>4, <1>5, <1>6 DEF Next, OnStream

-----------------------------------------------------------------------------
(* What find() has matched and readBytes() has collected, at every step of *)
(* a call: the longest beginning of the target, and every byte so far.     *)
THEOREM StreamInductive == Spec => []StreamInv
<1>1. Init => StreamInv
  BY InitStream DEF Init
<1> QED  BY <1>1, NextStream, PTL DEF Spec

(* What a call of Stream answers is true of what it has read, and of no    *)
(* byte more: find() stops at the first occurrence and only there, and no  *)
(* byte of readBytes() is lost, the terminator but.                        *)
THEOREM AnswersCorrect == Spec => []AnswersAreExact
<1>1. StreamInv => AnswersAreExact
  BY DEF StreamInv
<1> QED  BY StreamInductive, <1>1, PTL

-----------------------------------------------------------------------------
(* Strings.  Whatever is appended, replaced, trimmed and refused, the      *)
(* buffer holds the text, and the questions are answered about it.         *)
(* The loops of the code are recursive functions of the model; that such a *)
(* function exists, and that what holds step by step holds of it, follows  *)
(* by induction over sets of naturals.                                     *)

(* Induction on a set of naturals: without it, predecessor would map the   *)
(* exceptions below a number one to one to fewer of them.                  *)
LEMMA EveryNumber ==
  ASSUME NEW P, 0 \in P, \A n \in Nat : n \in P => n + 1 \in P
  PROVE  Nat \subseteq P
<1>1. SUFFICES ASSUME NEW n \in Nat, n \notin P
               PROVE  FALSE
  OBVIOUS
<1> DEFINE S == {k \in 0 .. n : k \notin P}
           T == {k \in 0 .. n - 1 : k \notin P}
           f == [k \in S |-> k - 1]
<1>2. \A k \in S : k - 1 \in T
  <2> TAKE k \in S
  <2>1. k # 0
    OBVIOUS
  <2>2. k - 1 \in Nat /\ (k - 1) + 1 = k
    BY <2>1
  <2>3. k - 1 \notin P
    BY <2>2
  <2> QED
    BY <2>2, <2>3
<1>3. IsFiniteSet(S) /\ IsFiniteSet(T)
  <2>1. S \in SUBSET (0 .. n) /\ T \in SUBSET (0 .. n)
    OBVIOUS
  <2>2. IsFiniteSet(0 .. n)
    BY FS_Interval
  <2> HIDE DEF S, T
  <2> QED
    BY <2>1, <2>2, FS_Subset
<1>4. Cardinality(T) < Cardinality(S)
  <2>1. T = S \ {n} /\ n \in S
    <3>1. n \in S
      BY <1>1
    <3>2. \A k : k \in T <=> k \in S /\ k # n
      OBVIOUS
    <3> QED
      BY <3>1, <3>2
  <2>2. Cardinality(S) \in Nat
    BY <1>3, FS_CardinalityType
  <2> HIDE DEF S, T
  <2>3. Cardinality(S \ {n}) = Cardinality(S) - 1
    BY <1>3, <2>1, FS_RemoveElement
  <2> QED
    BY <2>1, <2>2, <2>3
<1>5. f \in [S -> T]
  BY <1>2
<1>6. \A x, y \in S : x # y => f[x] # f[y]
  OBVIOUS
<1> HIDE DEF S, T, f
<1>7. \E x, y \in S : x # y /\ f[x] = f[y]
  BY <1>3, <1>4, <1>5, FS_PigeonHole
<1> QED
  BY <1>6, <1>7

(* A set of naturals has a least element. *)
LEMMA LeastExists ==
  ASSUME NEW S \in SUBSET Nat, S # {}
  PROVE  /\ Least(S) \in S
         /\ \A j \in S : Least(S) <= j
<1> DEFINE P == {n \in Nat : \A j \in S : n <= j}
<1>1. 0 \in P
  OBVIOUS
<1>2. ~ (Nat \subseteq P)
  <2>1. PICK j \in S : TRUE
    OBVIOUS
  <2>2. j + 1 \in Nat /\ j + 1 \notin P
    OBVIOUS
  <2> QED
    BY <2>2
<1>3. PICK n \in Nat : n \in P /\ n + 1 \notin P
  <2> HIDE DEF P
  <2> QED
    BY <1>1, <1>2, EveryNumber
<1>4. PICK j \in S : j < n + 1
  BY <1>3
<1>5. j = n
  BY <1>3, <1>4
<1>6. j \in S /\ \A i \in S : j <= i
  BY <1>3, <1>5
<1> QED
  BY <1>6 DEF Least

(* What a descending recursion computes: on done it is base, elsewhere a   *)
(* step is joined to what it computes at the next point.                   *)
Computes(f, U, done, base, next, join) ==
    \A x \in U : f[x] = IF x \in done THEN base[x] ELSE join[<<x, f[next[x]]>>]

Descends(D, R, rank, done, base, next, join) ==
    /\ rank \in [D -> Nat] /\ done \subseteq D
    /\ base \in [done -> R] /\ next \in [D \ done -> D]
    /\ join \in [(D \ done) \X R -> R]
    /\ \A x \in D \ done : rank[next[x]] < rank[x]

Below(D, rank, n) == {x \in D : rank[x] < n}

(* One more layer of it. *)
LEMMA DescentStep ==
  ASSUME NEW D, NEW R, NEW r \in R, NEW rank, NEW done, NEW base, NEW next, NEW join,
         Descends(D, R, rank, done, base, next, join), NEW n \in Nat,
         NEW f \in [D -> R],
         Computes(f, Below(D, rank, n), done, base, next, join)
  PROVE  \E g \in [D -> R] :
            Computes(g, Below(D, rank, n + 1), done, base, next, join)
<1> DEFINE g == [x \in D |-> IF x \in done THEN base[x]
                             ELSE IF rank[x] < n + 1 THEN join[<<x, f[next[x]]>>] ELSE r]
<1>1. g \in [D -> R]
  BY DEF Descends
<1>2. ASSUME NEW x \in Below(D, rank, n + 1)
      PROVE  g[x] = IF x \in done THEN base[x] ELSE join[<<x, g[next[x]]>>]
  <2>0. x \in D /\ rank[x] < n + 1
    BY DEF Below
  <2>1. CASE x \in done
    BY <2>0, <2>1
  <2>2. CASE x \notin done
    <3> DEFINE y == next[x]
    <3>1. y \in D /\ rank[y] < rank[x] /\ rank[x] \in Nat /\ rank[y] \in Nat
      BY <2>0, <2>2 DEF Descends
    <3>2. rank[y] < n /\ rank[y] < n + 1
      BY <2>0, <3>1
    <3>3. f[y] = IF y \in done THEN base[y] ELSE join[<<y, f[next[y]]>>]
      BY <3>1, <3>2 DEF Computes, Below
    <3>4. g[y] = f[y]
      BY <3>1, <3>2, <3>3
    <3>5. g[x] = join[<<x, f[y]>>]
      BY <2>0, <2>2
    <3> QED
      BY <2>2, <3>4, <3>5
  <2> QED
    BY <2>1, <2>2
<1> HIDE DEF g
<1> QED
  BY <1>1, <1>2 DEF Computes

(* Two that compute it below n agree there. *)
LEMMA DescentAgrees ==
  ASSUME NEW D, NEW R, NEW rank, NEW done, NEW base, NEW next, NEW join,
         Descends(D, R, rank, done, base, next, join), NEW n \in Nat,
         NEW f, NEW g,
         Computes(f, Below(D, rank, n), done, base, next, join),
         Computes(g, Below(D, rank, n), done, base, next, join)
  PROVE  \A x \in Below(D, rank, n) : f[x] = g[x]
<1> DEFINE P == {m \in Nat : m <= n => \A x \in Below(D, rank, m) : f[x] = g[x]}
<1>1. 0 \in P
  BY DEF Below, Descends
<1>2. ASSUME NEW m \in Nat, m \in P
      PROVE  m + 1 \in P
  <2> SUFFICES ASSUME m + 1 <= n, NEW x \in Below(D, rank, m + 1)
               PROVE  f[x] = g[x]
    OBVIOUS
  <2>0. x \in D /\ rank[x] < m + 1 /\ rank[x] \in Nat
    BY DEF Below, Descends
  <2>1. x \in Below(D, rank, n)
    BY <2>0 DEF Below
  <2>2. CASE x \in done
    BY <2>1, <2>2 DEF Computes
  <2>3. CASE x \notin done
    <3>1. next[x] \in D /\ rank[next[x]] < rank[x] /\ rank[next[x]] \in Nat
      BY <2>0, <2>3 DEF Descends
    <3>2. next[x] \in Below(D, rank, m)
      BY <2>0, <3>1 DEF Below
    <3>3. f[next[x]] = g[next[x]]
      BY <1>2, <3>2
    <3>4. f[x] = join[<<x, f[next[x]]>>] /\ g[x] = join[<<x, g[next[x]]>>]
      BY <2>1, <2>3 DEF Computes
    <3> QED
      BY <3>3, <3>4
  <2> QED
    BY <2>2, <2>3
<1> HIDE DEF P
<1>3. n \in P
  BY <1>1, <1>2, EveryNumber
<1> QED
  BY <1>3 DEF P

(* So there is one function that computes it everywhere. *)
LEMMA DescentDefines ==
  ASSUME NEW D, NEW R, NEW r \in R, NEW rank, NEW done, NEW base, NEW next, NEW join,
         Descends(D, R, rank, done, base, next, join)
  PROVE  \E f \in [D -> R] : Computes(f, D, done, base, next, join)
<1> DEFINE Sol(f, n) == f \in [D -> R]
                        /\ Computes(f, Below(D, rank, n), done, base, next, join)
           P == {n \in Nat : \E f \in [D -> R] :
                    Computes(f, Below(D, rank, n), done, base, next, join)}
           G(n) == CHOOSE f : Sol(f, n)
           h == [x \in D |-> G(rank[x] + 1)[x]]
<1>1. 0 \in P
  <2>1. [x \in D |-> r] \in [D -> R]
    OBVIOUS
  <2>2. Below(D, rank, 0) = {}
    BY DEF Below, Descends
  <2> QED
    BY <2>1, <2>2 DEF Computes
<1>2. \A n \in Nat : n \in P => n + 1 \in P
  BY DescentStep
<1>3. \A n \in Nat : \E f : Sol(f, n)
  <2>1. Nat \subseteq P
    <3> HIDE DEF P
    <3> QED
      BY <1>1, <1>2, EveryNumber
  <2> QED
    BY <2>1
<1>4. \A n \in Nat : Sol(G(n), n)
  <2> TAKE n \in Nat
  <2> HIDE DEF Sol
  <2> QED
    BY <1>3
<1> HIDE DEF G, P
<1>5. h \in [D -> R]
  BY <1>4 DEF Descends
<1>6. ASSUME NEW x \in D, x \in done
      PROVE  h[x] = base[x]
  <2>1. rank[x] \in Nat /\ x \in Below(D, rank, rank[x] + 1)
    BY DEF Below, Descends
  <2>2. Computes(G(rank[x] + 1), Below(D, rank, rank[x] + 1), done, base, next, join)
    BY <1>4, <2>1
  <2> QED
    BY <1>6, <2>1, <2>2 DEF Computes
<1>7. ASSUME NEW x \in D, x \notin done
      PROVE  h[x] = join[<<x, h[next[x]]>>]
  <2> DEFINE y == next[x]
             n == rank[x] + 1
             m == rank[y] + 1
  <2>1. y \in D /\ rank[y] \in Nat /\ rank[x] \in Nat /\ rank[y] < rank[x]
    BY <1>7 DEF Descends
  <2>2. n \in Nat /\ m \in Nat /\ m <= n
    BY <2>1
  <2>3. x \in Below(D, rank, n) /\ y \in Below(D, rank, m)
    BY <2>1 DEF Below
  <2>4. h[x] = G(n)[x] /\ h[y] = G(m)[y]
    BY <2>1
  <2>5. G(n)[x] = join[<<x, G(n)[y]>>]
    BY <1>4, <1>7, <2>2, <2>3 DEF Computes
  <2>6. Computes(G(m), Below(D, rank, m), done, base, next, join)
    BY <1>4, <2>2
  <2>7. Computes(G(n), Below(D, rank, m), done, base, next, join)
    <3>1. Computes(G(n), Below(D, rank, n), done, base, next, join)
      BY <1>4, <2>2
    <3>2. \A z \in Below(D, rank, m) : z \in Below(D, rank, n)
      BY <2>2 DEF Below, Descends
    <3> QED
      BY <3>1, <3>2 DEF Computes
  <2>8. G(n)[y] = G(m)[y]
    <3> HIDE DEF y, n, m
    <3> QED
      BY <2>2, <2>3, <2>6, <2>7, DescentAgrees
  <2> QED
    BY <2>4, <2>5, <2>8
<1> HIDE DEF h
<1> QED
  BY <1>5, <1>6, <1>7 DEF Computes

(* Induction on the rank of a point. *)
LEMMA ByRank ==
  ASSUME NEW D, NEW rank, NEW Good, \A x \in D : rank[x] \in Nat,
         \A x \in D : (\A y \in D : rank[y] < rank[x] => y \in Good) => x \in Good
  PROVE  D \subseteq Good
<1> DEFINE P == {n \in Nat : \A x \in D : rank[x] < n => x \in Good}
<1>1. 0 \in P
  OBVIOUS
<1>2. ASSUME NEW n \in Nat, n \in P
      PROVE  n + 1 \in P
  <2> SUFFICES ASSUME NEW x \in D, rank[x] < n + 1
               PROVE  x \in Good
    OBVIOUS
  <2>1. ASSUME NEW y \in D, rank[y] < rank[x]
        PROVE  y \in Good
    <3>1. rank[y] < n
      BY <2>1
    <3> QED
      BY <1>2, <3>1
  <2> QED
    BY <2>1
<1> HIDE DEF P
<1>3. Nat \subseteq P
  BY <1>1, <1>2, EveryNumber
<1> USE DEF P
<1> SUFFICES ASSUME NEW x \in D
             PROVE  x \in Good
  OBVIOUS
<1>4. rank[x] \in Nat /\ rank[x] + 1 \in P
  BY <1>3
<1> QED
  BY <1>4

(* The doubled capacity reaches what is needed, and no more than it must.  *)
LEMMA NewCapFits ==
  ASSUME NEW str, Len(str.buf) \in Nat, str.buf = << >> \/ Len(str.buf) # 0, NEW n \in Nat
  PROVE  /\ NewCap(str, n) \in Nat /\ n <= NewCap(str, n) /\ NewCap(str, n) > 0
         /\ \/ NewCap(str, n) = IF str.buf = << >> THEN FirstCap ELSE Len(str.buf)
            \/ NewCap(str, n) < 2 * n
<1> DEFINE D == Nat \ {0}
           first == IF str.buf = << >> THEN FirstCap ELSE Len(str.buf)
           done == {c \in D : c >= n}
           base == [c \in done |-> c]
           next == [c \in D \ done |-> 2 * c]
           join == [p \in (D \ done) \X D |-> p[2]]
           rank == [c \in D |-> IF c \in done THEN 0 ELSE n - c]
<1>0. first \in D
  BY StringAssumption
<1>1. Descends(D, D, rank, done, base, next, join)
  <2>1. rank \in [D -> Nat] /\ done \subseteq D /\ base \in [done -> D]
        /\ next \in [D \ done -> D]
    OBVIOUS
  <2>2. join \in [(D \ done) \X D -> D]
    OBVIOUS
  <2>3. ASSUME NEW x \in D \ done PROVE rank[next[x]] < rank[x]
    OBVIOUS
  <2> HIDE DEF D, done, base, next, join, rank
  <2> QED
    BY <2>1, <2>2, <2>3 DEF Descends
<1>2. PICK f \in [D -> D] : Computes(f, D, done, base, next, join)
  <2>1. 1 \in D
    OBVIOUS
  <2> HIDE DEF D, done, base, next, join, rank
  <2> QED
    BY <1>1, <2>1, DescentDefines
<1>3. f = [c \in D |-> IF c < n THEN f[2 * c] ELSE c]
  <2>1. ASSUME NEW c \in D PROVE f[c] = IF c < n THEN f[2 * c] ELSE c
    <3>1. CASE c \in done
      <4>1. f[c] = c
        BY <1>2, <3>1 DEF Computes
      <4> QED
        BY <3>1, <4>1
    <3>2. CASE c \notin done
      <4>1. f[c] = join[<<c, f[next[c]]>>]
        <5> HIDE DEF D, done, base, next, join
        <5> QED
          BY <1>2, <3>2 DEF Computes
      <4>2. next[c] = 2 * c /\ 2 * c \in D /\ f[2 * c] \in D /\ c < n
        BY <3>2
      <4> QED
        BY <3>2, <4>1, <4>2
    <3> QED
      BY <3>1, <3>2
  <2> QED
    BY <2>1
<1>4. \E g : g = [c \in D |-> IF c < n THEN g[2 * c] ELSE c]
  BY <1>3
<1>5. PICK g : /\ g = [c \in D |-> IF c < n THEN g[2 * c] ELSE c]
               /\ NewCap(str, n) = g[first]
  BY <1>4 DEF NewCap
<1> DEFINE Good == {c \in D : g[c] \in D /\ g[c] >= n /\ (g[c] = c \/ g[c] < 2 * n)}
<1>6. ASSUME NEW c \in D, \A y \in D : rank[y] < rank[c] => y \in Good
      PROVE  c \in Good
  <2>1. CASE c >= n
    <3>1. g[c] = c
      BY <1>5, <2>1
    <3> QED
      BY <2>1, <3>1
  <2>2. CASE c < n
    <3>1. 2 * c \in D /\ rank[2 * c] < rank[c]
      BY <2>2
    <3>2. 2 * c \in Good
      <4> HIDE DEF Good, rank
      <4> QED
        BY <1>6, <3>1
    <3>3. g[c] = g[2 * c]
      BY <1>5, <2>2
    <3> QED
      BY <2>2, <3>2, <3>3
  <2> QED
    BY <2>1, <2>2
<1>7. \A c \in D : rank[c] \in Nat
  OBVIOUS
<1>8. D \subseteq Good
  <2> HIDE DEF D, rank, Good, first
  <2>1. \A c \in D : (\A y \in D : rank[y] < rank[c] => y \in Good) => c \in Good
    BY <1>6
  <2> QED
    BY <1>7, <2>1, ByRank
<1> QED
  <2> HIDE DEF first
  <2>1. /\ g[first] \in Nat \ {0} /\ g[first] >= n
        /\ g[first] = first \/ g[first] < 2 * n
    BY <1>0, <1>8
  <2>2. NewCap(str, n) = g[first]
    BY <1>5
  <2> QED
    BY <2>1, <2>2 DEF first

(* What a buffer is made of. *)
Bytes == Char \cup {NUL, Junk}

(* A buffer and a length hold a text, with its terminator behind it. *)
Holds(str, t) ==
    /\ t \in Seq(Char) /\ str.buf \in Seq(Bytes) /\ str.len = Len(t)
    /\ IF str.buf = << >> THEN Len(t) = 0
       ELSE Len(t) < Len(str.buf) /\ str.buf[Len(t) + 1] = NUL
    /\ \A k \in 1 .. Len(t) : str.buf[k] = t[k]

(* Sequences with the same elements are the same.                          *)
LEMMA SameSeq ==
  ASSUME NEW S, NEW s \in Seq(S), NEW t \in Seq(S), Len(s) = Len(t),
         \A k \in 1 .. Len(s) : s[k] = t[k]
  PROVE  s = t
  OBVIOUS

(* A concatenation, element by element.                                    *)
LEMMA ConcatIs ==
  ASSUME NEW S, NEW s \in Seq(S), NEW t \in Seq(S)
  PROVE  /\ s \o t \in Seq(S) /\ Len(s \o t) = Len(s) + Len(t)
         /\ \A k \in 1 .. Len(s) : (s \o t)[k] = s[k]
         /\ \A k \in 1 .. Len(t) : (s \o t)[Len(s) + k] = t[k]
         /\ \A k \in Len(s) + 1 .. Len(s) + Len(t) : (s \o t)[k] = t[k - Len(s)]
  OBVIOUS

LEMMA TextConcatIs ==
  ASSUME NEW s \in Seq(Char), NEW t \in Seq(Char)
  PROVE  /\ s \o t \in Seq(Char) /\ Len(s \o t) = Len(s) + Len(t)
         /\ \A k \in 1 .. Len(s) : (s \o t)[k] = s[k]
         /\ \A k \in Len(s) + 1 .. Len(s) + Len(t) : (s \o t)[k] = t[k - Len(s)]
  OBVIOUS

(* No character is the terminator.                                         *)
LEMMA NoCharIsNUL ==
  /\ \A c \in Char : c # NUL /\ c # Junk /\ c \in Bytes
  /\ NUL \in Bytes /\ Junk \in Bytes /\ Blank \in Char
  BY StringAssumption DEF NUL, Junk, Bytes

(* memcpy() into a buffer, byte by byte.                                   *)
LEMMA StoreIs ==
  ASSUME NEW buf \in Seq(Bytes), NEW i \in Nat, NEW s \in Seq(Bytes)
  PROVE  /\ Store(buf, i, s) \in Seq(Bytes) /\ Len(Store(buf, i, s)) = Len(buf)
         /\ \A k \in 1 .. Len(buf) :
              Store(buf, i, s)[k] = IF k \in i + 1 .. i + Len(s) THEN s[k - i] ELSE buf[k]
<1> DEFINE new == [k \in 1 .. Len(buf) |-> IF k \in i + 1 .. i + Len(s) THEN s[k - i] ELSE buf[k]]
<1>1. ASSUME NEW k \in 1 .. Len(buf)
      PROVE  (IF k \in i + 1 .. i + Len(s) THEN s[k - i] ELSE buf[k]) \in Bytes
  <2>1. CASE k \in i + 1 .. i + Len(s)
    <3>1. k - i \in 1 .. Len(s)
      BY <2>1
    <3> QED
      BY <2>1, <3>1
  <2> QED
    BY <2>1
<1>2. new \in [1 .. Len(buf) -> Bytes]
  BY <1>1
<1>3. new \in Seq(Bytes) /\ Len(new) = Len(buf)
  <2> HIDE DEF new
  <2> QED
    BY <1>2
<1> QED
  BY <1>3 DEF Store

(* realloc() of a buffer, byte by byte.                                    *)
LEMMA GrowIs ==
  ASSUME NEW buf \in Seq(Bytes), NEW size \in Nat
  PROVE  /\ Grow(buf, size) \in Seq(Bytes) /\ Len(Grow(buf, size)) = size
         /\ \A k \in 1 .. size : k <= Len(buf) => Grow(buf, size)[k] = buf[k]
<1> DEFINE new == [k \in 1 .. size |-> IF k <= Len(buf) THEN buf[k] ELSE Junk]
<1>1. new \in [1 .. size -> Bytes]
  BY NoCharIsNUL
<1>2. new \in Seq(Bytes) /\ Len(new) = size
  <2> HIDE DEF new
  <2> QED
    BY <1>1
<1> QED
  BY <1>2 DEF Grow

(* What is held is read back.                                              *)
LEMMA HeldIs ==
  ASSUME NEW str, NEW t, Holds(str, t)
  PROVE  Held(str) = t
<1>1. Len(t) \in Nat /\ Len(t) <= Len(str.buf) /\ str.buf \in Seq(Bytes) /\ t \in Seq(Char)
  BY DEF Holds
<1>2. /\ Held(str) \in Seq(Bytes) /\ Len(Held(str)) = Len(t)
      /\ \A k \in 1 .. Len(t) : Held(str)[k] = str.buf[k]
  BY <1>1 DEF Held, Holds
<1>3. t \in Seq(Bytes)
  BY <1>1 DEF Bytes
<1>4. \A k \in 1 .. Len(t) : Held(str)[k] = t[k]
  BY <1>2 DEF Holds
<1> QED
  BY <1>2, <1>3, <1>4, SameSeq

(* The store of appendBuffer(), where there is room for it. *)
LEMMA StoredHolds ==
  ASSUME NEW t \in Seq(Char), NEW s \in Seq(Char), NEW roomy \in Seq(Bytes),
         Len(t) + Len(s) < Len(roomy), \A k \in 1 .. Len(t) : roomy[k] = t[k]
  PROVE  Holds([buf |-> Store(roomy, Len(t), Append(s, NUL)), len |-> Len(t) + Len(s)], t \o s)
<1> DEFINE sN == Append(s, NUL)
           b == Store(roomy, Len(t), sN)
           n == Len(t) + Len(s)
<1>1. /\ sN \in Seq(Bytes) /\ Len(sN) = Len(s) + 1 /\ sN[Len(s) + 1] = NUL
      /\ \A k \in 1 .. Len(s) : sN[k] = s[k]
  BY NoCharIsNUL
<1>2. /\ t \o s \in Seq(Char) /\ Len(t \o s) = n /\ n \in Nat
      /\ \A k \in 1 .. n : (t \o s)[k] = IF k <= Len(t) THEN t[k] ELSE s[k - Len(t)]
  OBVIOUS
<1> HIDE DEF sN
<1>3. /\ b \in Seq(Bytes) /\ Len(b) = Len(roomy)
      /\ \A k \in 1 .. Len(roomy) :
           b[k] = IF k \in Len(t) + 1 .. Len(t) + Len(sN) THEN sN[k - Len(t)] ELSE roomy[k]
  BY <1>1, StoreIs
<1> HIDE DEF b
<1>4. b[n + 1] = NUL
  BY <1>1, <1>3
<1>5. ASSUME NEW k \in 1 .. n PROVE b[k] = (t \o s)[k]
  <2>0. k \in 1 .. Len(roomy)
    OBVIOUS
  <2>1. CASE k <= Len(t)
    BY <1>2, <1>3, <2>0, <2>1
  <2>2. CASE k > Len(t)
    <3>1. k - Len(t) \in 1 .. Len(s) /\ k \in Len(t) + 1 .. Len(t) + Len(sN)
      BY <1>1, <2>2
    <3>2. b[k] = sN[k - Len(t)] /\ sN[k - Len(t)] = s[k - Len(t)]
      BY <1>1, <1>3, <2>0, <3>1
    <3> QED
      BY <1>2, <2>2, <3>2
  <2> QED
    BY <2>1, <2>2
<1>6. b # << >>
  BY <1>3
<1> HIDE DEF n
<1>7. Holds([buf |-> b, len |-> n], t \o s)
  BY <1>2, <1>3, <1>4, <1>5, <1>6 DEF Holds, n
<1> QED
  BY <1>7 DEF b, n, sN

(* appendBuffer() appends, or leaves the String as it was; a heap that has *)
(* the doubled capacity to give does not refuse.                           *)
LEMMA AppendedHolds ==
  ASSUME NEW str, NEW t, Holds(str, t), NEW s \in Seq(Char), NEW heap \in Nat
  PROVE  /\ \/ Appended(str, s, heap) = str
            \/ /\ Holds(Appended(str, s, heap), t \o s)
               /\ Appended(str, s, heap).len = Len(t) + Len(s)
         /\ (s = << >> \/ Needs(str, s) <= Len(str.buf) \/ NewCap(str, Needs(str, s)) <= heap)
              => Holds(Appended(str, s, heap), t \o s)
         /\ Len(Appended(str, s, heap).buf) \in
              {Len(str.buf), NewCap(str, Needs(str, s))}
<1> DEFINE n == Needs(str, s)
           cap == NewCap(str, n)
           roomy == IF n <= Len(str.buf) THEN str.buf
                    ELSE IF cap <= heap THEN Grow(str.buf, cap)
                    ELSE << >>
           new == [buf |-> Store(roomy, Len(t), Append(s, NUL)), len |-> Len(t) + Len(s)]
<1>1. /\ t \in Seq(Char) /\ str.buf \in Seq(Bytes) /\ str.len = Len(t)
      /\ Len(t) \in Nat /\ Len(s) \in Nat /\ Len(str.buf) \in Nat
      /\ str.buf = << >> \/ Len(str.buf) # 0
      /\ Len(t) <= Len(str.buf) /\ \A k \in 1 .. Len(t) : str.buf[k] = t[k]
  BY DEF Holds
<1>2. n = Len(t) + Len(s) + 1 /\ n \in Nat
  BY <1>1 DEF Needs
<1>3. cap \in Nat /\ n <= cap /\ cap > 0
  BY <1>1, <1>2, NewCapFits
<1>4. Appended(str, s, heap) = IF s = << >> \/ roomy = << >> THEN str ELSE new
  BY <1>1 DEF Appended
<1> HIDE DEF n, cap
<1>5. ASSUME roomy # << >>
      PROVE  /\ roomy \in Seq(Bytes) /\ Len(roomy) >= n /\ Len(roomy) \in {Len(str.buf), cap}
             /\ \A k \in 1 .. Len(t) : roomy[k] = t[k]
  <2>1. CASE n <= Len(str.buf)
    BY <1>1, <1>2, <2>1
  <2>2. CASE ~(n <= Len(str.buf)) /\ cap <= heap
    <3>1. /\ Grow(str.buf, cap) \in Seq(Bytes) /\ Len(Grow(str.buf, cap)) = cap
          /\ \A k \in 1 .. cap : k <= Len(str.buf) => Grow(str.buf, cap)[k] = str.buf[k]
      BY <1>1, <1>3, GrowIs
    <3>2. roomy = Grow(str.buf, cap)
      BY <2>2
    <3> HIDE DEF roomy
    <3>3. roomy \in Seq(Bytes) /\ Len(roomy) = cap
      BY <3>1, <3>2
    <3>4. ASSUME NEW k \in 1 .. Len(t) PROVE roomy[k] = t[k]
      <4>1. k \in 1 .. cap /\ k <= Len(str.buf)
        BY <1>1, <1>2, <1>3
      <4>2. roomy[k] = str.buf[k]
        BY <3>1, <3>2, <4>1
      <4> QED
        BY <1>1, <4>2
    <3> QED
      BY <1>3, <3>3, <3>4
  <2> QED
    BY <1>5, <2>1, <2>2
<1>6. ASSUME n <= Len(str.buf) \/ cap <= heap
      PROVE  roomy # << >>
  <2>1. CASE n <= Len(str.buf)
    BY <1>1, <1>2, <2>1
  <2>2. CASE ~(n <= Len(str.buf)) /\ cap <= heap
    <3>1. Len(Grow(str.buf, cap)) = cap
      BY <1>1, <1>3, GrowIs
    <3> QED
      BY <1>3, <2>2, <3>1
  <2> QED
    BY <1>6, <2>1, <2>2
<1> HIDE DEF roomy
<1>7. ASSUME roomy # << >>
      PROVE  Holds(new, t \o s) /\ new.len = Len(t) + Len(s) /\ Len(new.buf) = Len(roomy)
  <2>1. Len(t) + Len(s) < Len(roomy)
    BY <1>1, <1>2, <1>5, <1>7
  <2>2. Holds(new, t \o s)
    BY <1>1, <1>5, <1>7, <2>1, StoredHolds
  <2>3. Len(new.buf) = Len(roomy)
    <3>1. Append(s, NUL) \in Seq(Bytes)
      <4>1. s \in Seq(Bytes) /\ NUL \in Bytes
        BY NoCharIsNUL
      <4> QED
        BY <4>1
    <3> HIDE DEF new
    <3>2. new.buf = Store(roomy, Len(t), Append(s, NUL))
      BY DEF new
    <3>3. Len(Store(roomy, Len(t), Append(s, NUL))) = Len(roomy)
      <4>1. roomy \in Seq(Bytes) /\ Len(t) \in Nat
        BY <1>1, <1>5, <1>7
      <4> QED
        BY <3>1, <4>1, StoreIs, Zenon
    <3> QED
      BY <3>2, <3>3
  <2> QED
    BY <2>2, <2>3
<1>8. s = << >> => t \o s = t
  BY <1>1
<1> HIDE DEF new
<1>9. \/ Appended(str, s, heap) = str
      \/ /\ Holds(Appended(str, s, heap), t \o s)
         /\ Appended(str, s, heap).len = Len(t) + Len(s)
  BY <1>4, <1>7
<1>10. (s = << >> \/ n <= Len(str.buf) \/ cap <= heap)
         => Holds(Appended(str, s, heap), t \o s)
  BY <1>4, <1>6, <1>7, <1>8
<1>11. Len(Appended(str, s, heap).buf) \in {Len(str.buf), cap}
  BY <1>4, <1>5, <1>7
<1> QED
  BY <1>9, <1>10, <1>11 DEF n, cap

(* appendBuffer() makes a buffer of any buffer.                            *)
LEMMA AppendedIsBuffer ==
  ASSUME NEW str \in Buffers, NEW s \in Seq(Char), NEW heap \in Nat
  PROVE  Appended(str, s, heap) \in Buffers
<1> DEFINE n == Needs(str, s)
           roomy == IF n <= Len(str.buf) THEN str.buf
                    ELSE IF NewCap(str, n) <= heap THEN Grow(str.buf, NewCap(str, n))
                    ELSE << >>
<1>1. /\ str.buf \in Seq(Bytes) /\ str.len \in Nat /\ Len(str.buf) \in Nat /\ Len(s) \in Nat
      /\ str.buf = << >> \/ Len(str.buf) # 0
  BY DEF Buffers, Bytes
<1>2. n \in Nat
  BY <1>1 DEF Needs
<1> HIDE DEF n
<1>3. roomy \in Seq(Bytes)
  BY <1>1, <1>2, NewCapFits, GrowIs
<1>4. Append(s, NUL) \in Seq(Bytes)
  BY NoCharIsNUL
<1>5. Appended(str, s, heap) = IF s = << >> \/ roomy = << >> THEN str
           ELSE [buf |-> Store(roomy, str.len, Append(s, NUL)), len |-> str.len + Len(s)]
  BY DEF Appended, n
<1> HIDE DEF roomy
<1>6. Store(roomy, str.len, Append(s, NUL)) \in Seq(Bytes)
  BY <1>1, <1>3, <1>4, StoreIs
<1> QED
  BY <1>1, <1>5, <1>6 DEF Buffers, Bytes

(* The String holds the text. *)
StringInv == Holds(This, text)

(* Holds() looks at the two fields only. *)
LEMMA HoldsOf ==
  ASSUME NEW str, NEW t, NEW new, new.buf = str.buf, new.len = str.len, Holds(str, t)
  PROVE  Holds(new, t)
  BY DEF Holds

(* A call that leaves what holds the text leaves the String sound.         *)
LEMMA BecomesHolds ==
  ASSUME NEW str, NEW t, Holds(str, t), Becomes(str), text' = t
  PROVE  StringInv'
<1>1. Holds([buf |-> _buf', len |-> _len'], t)
  BY HoldsOf DEF Becomes
<1> QED
  BY <1>1 DEF StringInv, This

(* concat()                                                                *)
LEMMA ConcatKeeps ==
  ASSUME StringInv, NEW s \in Seq(Char), NEW heap \in Nat, Concat(s, heap)
  PROVE  StringInv'
<1> DEFINE str == Appended(This, s, heap)
<1>0. Holds(This, text) /\ Becomes(str) /\ text' = IF _len' = _len THEN text ELSE text \o s
  BY DEF StringInv, Concat
<1>1. \/ str = This
      \/ Holds(str, text \o s) /\ str.len = Len(text) + Len(s)
  BY <1>0, AppendedHolds
<1> HIDE DEF str
<1>2. _len = Len(text) /\ Len(text) \in Nat /\ text \in Seq(Char) /\ Len(s) \in Nat
  BY <1>0 DEF Holds, This
<1>3. CASE str = This
  BY <1>0, <1>3, BecomesHolds DEF Becomes, This
<1>4. CASE Holds(str, text \o s) /\ str.len = Len(text) + Len(s)
  <2>1. text' = text \o s
    <3>1. CASE s = << >>
      BY <1>0, <1>2, <3>1
    <3>2. CASE s # << >>
      <4>1. Len(s) # 0
        BY <3>2
      <4> QED
        BY <1>0, <1>2, <1>4, <4>1 DEF Becomes
    <3> QED
      BY <3>1, <3>2
  <2> QED
    BY <1>0, <1>4, <2>1, BecomesHolds
<1> QED
  BY <1>1, <1>3, <1>4

(* concat() of the String itself.                                          *)
LEMMA ConcatSelfKeeps ==
  ASSUME StringInv, ConcatSelf
  PROVE  StringInv'
<1>0. Holds(This, text) /\ text' = text \o text /\ text \in Seq(Char) /\ _buf = This.buf
  BY DEF StringInv, ConcatSelf, Holds, This
<1>1. Held(This) = text
  BY <1>0, HeldIs
<1>2. Becomes(Appended(This, text, 0)) /\ Needs(This, text) <= Len(This.buf)
  BY <1>0, <1>1 DEF ConcatSelf
<1>3. Holds(Appended(This, text, 0), text \o text)
  BY <1>0, <1>2, AppendedHolds
<1> QED
  BY <1>0, <1>2, <1>3, BecomesHolds

(* A store of one character.                                               *)
LEMMA StoreOne ==
  ASSUME NEW buf \in Seq(Bytes), NEW i \in Nat, NEW c \in Bytes
  PROVE  /\ Store(buf, i, <<c>>) \in Seq(Bytes) /\ Len(Store(buf, i, <<c>>)) = Len(buf)
         /\ \A k \in 1 .. Len(buf) :
              Store(buf, i, <<c>>)[k] = IF k = i + 1 THEN c ELSE buf[k]
<1> DEFINE s == <<c>>
           b == Store(buf, i, s)
<1>1. s \in Seq(Bytes) /\ Len(s) = 1 /\ s[1] = c
  OBVIOUS
<1> HIDE DEF s
<1>2. /\ b \in Seq(Bytes) /\ Len(b) = Len(buf)
      /\ \A k \in 1 .. Len(buf) :
           b[k] = IF k \in i + 1 .. i + Len(s) THEN s[k - i] ELSE buf[k]
  BY <1>1, StoreIs
<1> HIDE DEF b
<1>3. ASSUME NEW k \in 1 .. Len(buf) PROVE b[k] = IF k = i + 1 THEN c ELSE buf[k]
  BY <1>1, <1>2
<1> QED
  BY <1>2, <1>3 DEF b, s

LEMMA StoreNUL ==
  ASSUME NEW buf \in Seq(Bytes)
  PROVE  /\ Store(buf, 0, <<NUL>>) \in Seq(Bytes) /\ Len(Store(buf, 0, <<NUL>>)) = Len(buf)
         /\ \A k \in 1 .. Len(buf) :
              Store(buf, 0, <<NUL>>)[k] = IF k = 0 + 1 THEN NUL ELSE buf[k]
<1>1. 0 \in Nat /\ NUL \in Bytes
  BY NoCharIsNUL
<1> QED
  BY <1>1, StoreOne

(* What operator= starts from is the empty text.                           *)
LEMMA EmptiedHolds ==
  ASSUME NEW str, NEW t, Holds(str, t)
  PROVE  /\ Holds(Emptied(str), << >>) /\ Len(Emptied(str).buf) = Len(str.buf)
<1>1. str.buf \in Seq(Bytes) /\ <<NUL>> \in Seq(Bytes)
  BY NoCharIsNUL DEF Holds
<1>2. CASE str.buf = << >>
  <2>1. Emptied(str) = [buf |-> << >>, len |-> 0]
    BY <1>2 DEF Emptied
  <2> QED
    BY <1>2, <2>1 DEF Holds
<1>3. CASE str.buf # << >>
  <2> DEFINE b == Store(str.buf, 0, <<NUL>>)
  <2>1. Emptied(str) = [buf |-> b, len |-> 0]
    BY <1>3 DEF Emptied
  <2>2. b \in Seq(Bytes) /\ Len(b) = Len(str.buf) /\ b[1] = NUL /\ Len(b) > 0 /\ b # << >>
    <3>1. /\ b \in Seq(Bytes) /\ Len(b) = Len(str.buf)
          /\ \A k \in 1 .. Len(str.buf) : b[k] = IF k = 0 + 1 THEN NUL ELSE str.buf[k]
      BY <1>1, StoreNUL
    <3>2. Len(str.buf) > 0
      BY <1>1, <1>3
    <3> HIDE DEF b
    <3> QED
      BY <3>1, <3>2
  <2> HIDE DEF b
  <2> QED
    BY <2>1, <2>2 DEF Holds
<1> QED
  BY <1>2, <1>3

(* operator=                                                               *)
LEMMA AssignKeeps ==
  ASSUME StringInv, NEW s \in Seq(Char), NEW heap \in Nat, Assign(s, heap)
  PROVE  StringInv'
<1> DEFINE e == Emptied(This)
           str == Appended(e, s, heap)
<1>0. Holds(e, << >>) /\ Becomes(str) /\ text' = IF _len' = 0 THEN << >> ELSE s
  BY EmptiedHolds DEF StringInv, Assign
<1>1. \/ str = e
      \/ Holds(str, << >> \o s) /\ str.len = 0 + Len(s)
  <2> DEFINE none == << >>
  <2>1. Holds(e, none) /\ Len(none) = 0
    BY <1>0
  <2> HIDE DEF e, none
  <2>2. \/ Appended(e, s, heap) = e
        \/ /\ Holds(Appended(e, s, heap), none \o s)
           /\ Appended(e, s, heap).len = Len(none) + Len(s)
    <3>1. Holds(e, none)
      BY <2>1
    <3> QED
      BY <3>1, AppendedHolds
  <2> QED
    BY <2>1, <2>2 DEF none
<1>2. << >> \o s = s /\ Len(s) \in Nat
  OBVIOUS
<1> HIDE DEF e, str
<1>3. CASE str = e
  <2>1. _len' = 0
    BY <1>0, <1>3 DEF Becomes, Holds
  <2> QED
    BY <1>0, <1>3, <2>1, BecomesHolds
<1>4. CASE Holds(str, << >> \o s) /\ str.len = 0 + Len(s)
  <2>1. text' = s
    BY <1>0, <1>2, <1>4 DEF Becomes
  <2> QED
    BY <1>0, <1>2, <1>4, <2>1, BecomesHolds
<1> QED
  BY <1>1, <1>3, <1>4

(* reserve()                                                               *)
LEMMA ReserveKeeps ==
  ASSUME StringInv, NEW size \in Nat \ {0}, NEW heap \in Nat, Reserve(size, heap)
  PROVE  StringInv'
<1>1. CASE UNCHANGED stringVars
  BY <1>1 DEF stringVars, StringInv, This, Holds
<1>2. CASE _buf' = Store(Grow(_buf, size), 0, <<NUL>>) /\ _len' = 0 /\ text' = << >>
  <2>1. _buf \in Seq(Bytes) /\ <<NUL>> \in Seq(Bytes)
    BY NoCharIsNUL DEF StringInv, Holds, This
  <2>2. Grow(_buf, size) \in Seq(Bytes) /\ Len(Grow(_buf, size)) = size
    BY <2>1, GrowIs
  <2>3. _buf' \in Seq(Bytes) /\ Len(_buf') = size /\ _buf'[1] = NUL
    <3> DEFINE b == Grow(_buf, size)
    <3>1. 1 \in 1 .. Len(b)
      BY <2>2
    <3> HIDE DEF b
    <3>2. /\ Store(b, 0, <<NUL>>) \in Seq(Bytes) /\ Len(Store(b, 0, <<NUL>>)) = Len(b)
          /\ \A k \in 1 .. Len(b) : Store(b, 0, <<NUL>>)[k] = IF k = 0 + 1 THEN NUL ELSE b[k]
      BY <2>2, StoreNUL DEF b
    <3>3. Store(b, 0, <<NUL>>)[1] = NUL
      BY <3>1, <3>2
    <3> QED
      BY <1>2, <2>2, <3>2, <3>3 DEF b
  <2>4. _buf' # << >> /\ Len(_buf') > 0
    BY <2>3
  <2> QED
    BY <1>2, <2>3, <2>4 DEF StringInv, Holds, This
<1> QED
  BY <1>1, <1>2 DEF Reserve

(* What the invariant says of the variables, and the other way round.      *)
LEMMA StringFacts ==
  ASSUME StringInv
  PROVE  /\ text \in Seq(Char) /\ _buf \in Seq(Bytes) /\ _len = Len(text) /\ _len \in Nat
         /\ IF _buf = << >> THEN _len = 0 ELSE _len < Len(_buf) /\ _buf[_len + 1] = NUL
         /\ Len(_buf) \in Nat /\ _len <= Len(_buf)
         /\ \A k \in 1 .. _len : _buf[k] = text[k] /\ _buf[k] \in Char
<1>1. /\ text \in Seq(Char) /\ _buf \in Seq(Bytes) /\ _len = Len(text) /\ _len \in Nat
      /\ Len(_buf) \in Nat
  BY DEF StringInv, Holds, This
<1>2. \A k \in 1 .. _len : text[k] \in Char
  BY <1>1
<1> QED
  BY <1>1, <1>2 DEF StringInv, Holds, This

LEMMA StringFrom ==
  ASSUME text' \in Seq(Char), _buf' \in Seq(Bytes), _len' = Len(text'),
         IF _buf' = << >> THEN _len' = 0 ELSE _len' < Len(_buf') /\ _buf'[_len' + 1] = NUL,
         \A k \in 1 .. _len' : _buf'[k] = text'[k]
  PROVE  StringInv'
  BY DEF StringInv, Holds, This

(* setCharAt()                                                             *)
LEMMA SetCharAtKeeps ==
  ASSUME StringInv, NEW i \in Nat, NEW c \in Char, SetCharAt(i, c)
  PROVE  StringInv'
<1>1. i < _len /\ _buf' = Store(_buf, i, <<c>>) /\ text' = [text EXCEPT ![i + 1] = c] /\ _len' = _len
  BY DEF SetCharAt
<1>2. c \in Bytes
  BY NoCharIsNUL
<1>3. /\ text' \in Seq(Char) /\ Len(text') = Len(text)
      /\ \A k \in 1 .. Len(text) : text'[k] = IF k = i + 1 THEN c ELSE text[k]
  BY <1>1, StringFacts
<1>5. /\ _buf' \in Seq(Bytes) /\ Len(_buf') = Len(_buf)
      /\ \A k \in 1 .. Len(_buf) : _buf'[k] = IF k = i + 1 THEN c ELSE _buf[k]
  <2>1. _buf \in Seq(Bytes)
    BY StringFacts
  <2>2. /\ Store(_buf, i, <<c>>) \in Seq(Bytes) /\ Len(Store(_buf, i, <<c>>)) = Len(_buf)
        /\ \A k \in 1 .. Len(_buf) :
             Store(_buf, i, <<c>>)[k] = IF k = i + 1 THEN c ELSE _buf[k]
    BY <1>2, <2>1, StoreOne
  <2> QED
    BY <1>1, <2>2
<1>7. \A k \in 1 .. _len' : _buf'[k] = text'[k]
  BY <1>1, <1>3, <1>5, StringFacts
<1>8. _buf # << >> /\ _buf' # << >>
  BY <1>1, <1>5, StringFacts
<1>9. _len' < Len(_buf') /\ _buf'[_len' + 1] = NUL
  BY <1>1, <1>5, <1>8, StringFacts
<1> QED
  BY <1>1, <1>3, <1>5, <1>7, <1>8, <1>9, StringFacts, StringFrom

(* replace() of a character, toLowerCase() and toUpperCase().              *)
LEMMA MapCharsKeeps ==
  ASSUME StringInv, NEW f \in [Char -> Char], MapChars(f)
  PROVE  StringInv'
<1>1. /\ _buf' = [k \in 1 .. Len(_buf) |-> IF k <= _len THEN f[_buf[k]] ELSE _buf[k]]
      /\ text' = [k \in 1 .. Len(text) |-> f[text[k]]]
      /\ _len' = _len
  BY DEF MapChars
<1>2. /\ text' \in Seq(Char) /\ Len(text') = Len(text)
      /\ \A k \in 1 .. Len(text) : text'[k] = f[text[k]]
  <2>1. \A k \in 1 .. Len(text) : f[text[k]] \in Char
    BY StringFacts
  <2>2. text' \in [1 .. Len(text) -> Char]
    BY <1>1, <2>1
  <2> QED
    BY <1>1, <2>2, StringFacts
<1>3. /\ _buf' \in Seq(Bytes) /\ Len(_buf') = Len(_buf)
      /\ \A k \in 1 .. Len(_buf) : _buf'[k] = IF k <= _len THEN f[_buf[k]] ELSE _buf[k]
  <2>1. ASSUME NEW k \in 1 .. Len(_buf)
        PROVE  (IF k <= _len THEN f[_buf[k]] ELSE _buf[k]) \in Bytes
    <3>1. CASE k <= _len
      <4>1. _buf[k] \in Char
        BY <3>1, StringFacts
      <4> QED
        BY <3>1, <4>1, NoCharIsNUL
    <3>2. CASE ~(k <= _len)
      BY <3>2, StringFacts
    <3> QED
      BY <3>1, <3>2
  <2>2. _buf' \in [1 .. Len(_buf) -> Bytes]
    BY <1>1, <2>1
  <2> QED
    BY <1>1, <2>2, StringFacts
<1>4. \A k \in 1 .. _len' : _buf'[k] = text'[k]
  BY <1>1, <1>2, <1>3, StringFacts
<1>5. _buf = << >> => _buf' = << >>
  BY <1>3
<1>6. _buf # << >> => _buf' # << >>
  BY <1>3, StringFacts
<1>7. IF _buf' = << >> THEN _len' = 0 ELSE _len' < Len(_buf') /\ _buf'[_len' + 1] = NUL
  BY <1>1, <1>3, <1>5, <1>6, StringFacts
<1> QED
  BY <1>1, <1>2, <1>3, <1>4, <1>7, StringFacts, StringFrom

(* remove(): the terminator moves down with the rest.                      *)
LEMMA RemoveKeeps ==
  ASSUME StringInv, NEW i \in Nat, NEW n \in Nat, StringRemove(i, n)
  PROVE  StringInv'
<1> DEFINE count == Min2(n, _len - i)
           s == SubSeq(_buf, i + count + 1, _len + 1)
           t == SubSeq(text, 1, i)
           u == SubSeq(text, i + n + 1, Len(text))
<1>1. i < _len /\ _buf' = Store(_buf, i, s) /\ _len' = _len - count /\ text' = t \o u
  BY DEF StringRemove
<1>2. count \in Nat /\ count <= n /\ i + count <= _len /\ (count = n \/ i + count = _len)
  <2>1. _len - i \in Nat /\ i + (_len - i) = _len
    BY <1>1, StringFacts
  <2>2. CASE n < _len - i
    <3>1. count = n
      BY <2>2 DEF Min2
    <3> HIDE DEF count
    <3> QED
      BY <2>1, <2>2, <3>1, StringFacts
  <2>3. CASE ~(n < _len - i)
    <3>1. count = _len - i
      BY <2>3 DEF Min2
    <3> HIDE DEF count
    <3> QED
      BY <2>1, <2>3, <3>1, StringFacts
  <2> QED
    BY <2>2, <2>3
<1>3. _buf # << >> /\ _len < Len(_buf) /\ _buf[_len + 1] = NUL
  BY <1>1, StringFacts
<1> HIDE DEF count
<1>4. /\ s \in Seq(Bytes) /\ Len(s) = _len + 1 - i - count
      /\ \A k \in 1 .. Len(s) : s[k] = _buf[i + count + k]
  <2>1. _buf \in Seq(Bytes) /\ Len(_buf) \in Nat /\ _len \in Nat
    BY StringFacts
  <2>2. PICK a \in Nat, b \in Nat : a = i + count + 1 /\ b = _len + 1
    BY <1>2, <2>1
  <2>3. a \in 1 .. Len(_buf) /\ b \in 1 .. Len(_buf) /\ a <= b /\ s = SubSeq(_buf, a, b)
    BY <1>2, <1>3, <2>1, <2>2
  <2> HIDE DEF s
  <2>4. /\ s \in Seq(Bytes) /\ Len(s) = b - a + 1
        /\ \A k \in 1 .. Len(s) : s[k] = _buf[a - 1 + k]
    BY <2>1, <2>3
  <2> QED
    BY <1>2, <2>1, <2>2, <2>4
<1>5. /\ t \in Seq(Char) /\ Len(t) = i /\ \A k \in 1 .. i : t[k] = text[k]
  BY <1>1, StringFacts
<1>6. /\ u \in Seq(Char) /\ Len(u) = _len - i - count
      /\ \A k \in 1 .. Len(u) : u[k] = text[i + n + k]
  <2>1. CASE count = n
    BY <1>1, <1>2, <2>1, StringFacts
  <2>2. CASE i + count = _len
    BY <1>1, <1>2, <2>2, StringFacts
  <2> QED
    BY <1>2, <2>1, <2>2
<1> HIDE DEF s, t, u
<1>7. /\ text' \in Seq(Char) /\ Len(text') = _len - count
      /\ \A k \in 1 .. _len - count : text'[k] = IF k <= i THEN text[k] ELSE text[k + count]
  <2>1. /\ text' \in Seq(Char) /\ Len(text') = i + Len(u)
        /\ \A k \in 1 .. i : text'[k] = t[k]
        /\ \A k \in i + 1 .. i + Len(u) : text'[k] = u[k - i]
    <3>1. /\ t \o u \in Seq(Char) /\ Len(t \o u) = Len(t) + Len(u)
          /\ \A k \in 1 .. Len(t) : (t \o u)[k] = t[k]
          /\ \A k \in Len(t) + 1 .. Len(t) + Len(u) : (t \o u)[k] = u[k - Len(t)]
      <4>1. t \in Seq(Char) /\ u \in Seq(Char)
        BY <1>5, <1>6
      <4> QED
        BY <4>1, TextConcatIs
    <3> QED
      BY <1>1, <1>5, <3>1
  <2>2. ASSUME NEW k \in 1 .. _len - count
        PROVE  text'[k] = IF k <= i THEN text[k] ELSE text[k + count]
    <3>1. CASE k <= i
      <4>1. text'[k] = t[k] /\ t[k] = text[k]
        BY <1>5, <2>1, <3>1
      <4> QED
        BY <3>1, <4>1
    <3>2. CASE k > i
      <4>1. k - i \in 1 .. Len(u) /\ count = n /\ i + n + (k - i) = k + count
        BY <1>1, <1>2, <1>6, <3>2, StringFacts
      <4>2. text'[k] = u[k - i]
        BY <2>1, <3>2, <4>1
      <4>3. u[k - i] = text[i + n + (k - i)]
        BY <1>6, <4>1
      <4> QED
        BY <3>2, <4>1, <4>2, <4>3
    <3> QED
      BY <3>1, <3>2
  <2> QED
    BY <1>2, <1>6, <2>1, <2>2, StringFacts
<1>8. /\ _buf' \in Seq(Bytes) /\ Len(_buf') = Len(_buf)
      /\ \A k \in 1 .. Len(_buf) :
           _buf'[k] = IF k \in i + 1 .. i + Len(s) THEN s[k - i] ELSE _buf[k]
  <2>1. _buf \in Seq(Bytes)
    BY StringFacts
  <2>2. s \in Seq(Bytes)
    BY <1>4
  <2>3. PICK b : b = _buf' /\ b = Store(_buf, i, s)
    BY <1>1
  <2>4. /\ b \in Seq(Bytes) /\ Len(b) = Len(_buf)
        /\ \A k \in 1 .. Len(_buf) :
             b[k] = IF k \in i + 1 .. i + Len(s) THEN s[k - i] ELSE _buf[k]
    BY <2>1, <2>2, <2>3, StoreIs
  <2> QED
    BY <2>3, <2>4
<1>9. ASSUME NEW k \in 1 .. _len - count
      PROVE  _buf'[k] = text'[k]
  <2>0. k \in 1 .. Len(_buf) /\ k \in 1 .. _len
    BY <1>2, <1>3, StringFacts
  <2>1. CASE k <= i
    <3>1. _buf'[k] = _buf[k]
      BY <1>8, <2>0, <2>1
    <3> QED
      BY <1>7, <2>0, <2>1, <3>1, StringFacts
  <2>2. CASE k > i
    <3>1. /\ k \in i + 1 .. i + Len(s) /\ k - i \in 1 .. Len(s) /\ i + count + (k - i) = k + count
          /\ k + count \in 1 .. _len
      BY <1>1, <1>2, <1>4, <2>2, StringFacts
    <3>2. _buf'[k] = s[k - i]
      BY <1>8, <2>0, <3>1
    <3>3. s[k - i] = _buf[k + count] /\ _buf[k + count] = text[k + count]
      BY <1>4, <3>1, StringFacts
    <3> QED
      BY <1>7, <2>2, <3>2, <3>3
  <2> QED
    BY <2>1, <2>2
<1>10. _buf'[_len - count + 1] = NUL
  <2> DEFINE k == _len - count + 1
  <2>1. /\ k \in 1 .. Len(_buf) /\ k \in i + 1 .. i + Len(s) /\ k - i \in 1 .. Len(s)
        /\ i + count + (k - i) = _len + 1
    <3>1. PICK m \in Nat, b \in Nat, c \in Nat :
            /\ m = _len /\ b = Len(_buf) /\ c = Len(s)
      BY <1>4, StringFacts
    <3>2. count \in Nat /\ i + count <= m /\ m < b /\ c = m + 1 - i - count /\ k = m - count + 1
      BY <1>2, <1>3, <1>4, <3>1
    <3> HIDE DEF k
    <3>3. k \in 1 .. b /\ k \in i + 1 .. i + c /\ k - i \in 1 .. c /\ i + count + (k - i) = m + 1
      BY <3>2
    <3> QED
      BY <3>1, <3>3
  <2> HIDE DEF k
  <2>2. _buf'[k] = s[k - i]
    BY <1>8, <2>1
  <2>3. s[k - i] = _buf[_len + 1]
    BY <1>4, <2>1
  <2> QED
    BY <1>3, <2>2, <2>3 DEF k
<1>11. _len' < Len(_buf') /\ _buf' # << >>
  BY <1>1, <1>2, <1>3, <1>8, StringFacts
<1>12. \A k \in 1 .. _len' : _buf'[k] = text'[k]
  BY <1>1, <1>9
<1> QED
  BY <1>1, <1>7, <1>8, <1>10, <1>11, <1>12, StringFrom

(* What trim() keeps is what the text is between its blanks. *)
LEMMA TrimmedIs ==
  ASSUME StringInv, NEW t \in Seq(Char), NEW a \in Nat, NEW b \in Nat,
         text = [k \in 1 .. a |-> Blank] \o t \o [k \in 1 .. b |-> Blank],
         t # << >> => Blank \notin {t[1], t[Len(t)]}
  PROVE  Trimmed = t /\ Len(t) <= _len
<1> DEFINE x == [k \in 1 .. a |-> Blank]
           y == [k \in 1 .. b |-> Blank]
<1>1. x \in Seq(Char) /\ Len(x) = a /\ \A k \in 1 .. a : x[k] = Blank
  <2>1. x \in [1 .. a -> Char]
    BY NoCharIsNUL
  <2> QED
    BY <2>1
<1>2. y \in Seq(Char) /\ Len(y) = b /\ \A k \in 1 .. b : y[k] = Blank
  <2>1. y \in [1 .. b -> Char]
    BY NoCharIsNUL
  <2> QED
    BY <2>1
<1>3. text = (x \o t) \o y
  OBVIOUS
<1> HIDE DEF x, y
<1> DEFINE m == Len(t)
<1>4. /\ x \o t \in Seq(Char) /\ Len(x \o t) = a + m
      /\ \A k \in 1 .. a + m : (x \o t)[k] = IF k <= a THEN Blank ELSE t[k - a]
  <2>1. x \o t \in Seq(Char) /\ Len(x \o t) = a + m
    BY <1>1, ConcatIs
  <2>2. ASSUME NEW k \in 1 .. a + m PROVE (x \o t)[k] = IF k <= a THEN x[k] ELSE t[k - a]
    <3>1. /\ \A j \in 1 .. Len(x) : (x \o t)[j] = x[j]
          /\ \A j \in Len(x) + 1 .. Len(x) + Len(t) : (x \o t)[j] = t[j - Len(x)]
      BY <1>1, ConcatIs
    <3> QED
      BY <1>1, <3>1
  <2> QED
    BY <1>1, <2>1, <2>2
<1>5. /\ _len = a + m + b /\ m \in Nat
      /\ \A k \in 1 .. a + m : text[k] = IF k <= a THEN Blank ELSE t[k - a]
      /\ \A k \in a + m + 1 .. _len : text[k] = Blank
  <2> DEFINE z == x \o t
  <2>1. /\ z \in Seq(Char) /\ Len(z) = a + m /\ text = z \o y
        /\ \A k \in 1 .. a + m : z[k] = IF k <= a THEN Blank ELSE t[k - a]
    BY <1>3, <1>4
  <2> HIDE DEF z
  <2>2. _len = a + m + b
    BY <1>2, <2>1, StringFacts
  <2>3. ASSUME NEW k \in 1 .. a + m PROVE text[k] = z[k]
    BY <1>2, <2>1
  <2>4. ASSUME NEW k \in a + m + 1 .. _len PROVE text[k] = Blank
    <3>1. k - (a + m) \in 1 .. b
      BY <2>2
    <3>2. text[k] = y[k - (a + m)]
      BY <1>2, <2>1, <3>1
    <3> QED
      BY <1>2, <3>1, <3>2
  <2> QED
    BY <2>1, <2>2, <2>3, <2>4
<1>6. CASE t = << >>
  <2>1. m = 0
    BY <1>6
  <2>2. ASSUME NEW k \in 1 .. _len PROVE _buf[k] = Blank
    <3>1. text[k] = Blank
      BY <1>5, <2>1
    <3> QED
      BY <3>1, StringFacts
  <2>3. Kept = {}
    BY <2>2 DEF Kept
  <2> QED
    BY <1>5, <1>6, <2>3 DEF Trimmed
<1>7. CASE t # << >>
  <2>1. m > 0 /\ t[1] # Blank /\ t[m] # Blank
    BY <1>7
  <2>2. /\ a + 1 \in 1 .. _len /\ a + m \in 1 .. _len
        /\ _buf[a + 1] = t[1] /\ _buf[a + m] = t[m]
    <3>1. a + 1 \in 1 .. a + m /\ a + m \in 1 .. a + m /\ (a + 1) - a = 1 /\ (a + m) - a = m
          /\ ~(a + 1 <= a) /\ ~(a + m <= a) /\ a + 1 \in 1 .. _len /\ a + m \in 1 .. _len
      BY <1>5, <2>1
    <3>2. text[a + 1] = t[1] /\ text[a + m] = t[m]
      <4>1. text[a + 1] = t[(a + 1) - a] /\ text[a + m] = t[(a + m) - a]
        BY <1>5, <3>1
      <4> QED
        BY <3>1, <4>1
    <3> QED
      BY <3>1, <3>2, StringFacts
  <2>3. a + 1 \in Kept /\ a + m \in Kept
    BY <2>1, <2>2 DEF Kept
  <2>4. ASSUME NEW k \in Kept PROVE k \in 1 .. _len /\ a + 1 <= k /\ k <= a + m
    <3>1. k \in 1 .. _len /\ text[k] # Blank
      BY StringFacts DEF Kept
    <3> QED
      BY <1>5, <3>1
  <2>5. FirstKept = a + 1
    <3>1. \A k \in Kept : a + 1 <= k
      BY <2>4
    <3>2. /\ FirstKept \in Kept /\ \A k \in Kept : FirstKept <= k
      BY <2>3, <3>1 DEF FirstKept
    <3>3. FirstKept <= a + 1 /\ a + 1 <= FirstKept /\ FirstKept \in Nat
      BY <2>3, <2>4, <3>2
    <3> QED
      BY <3>3
  <2>6. LastKept = a + m
    <3>1. \A k \in Kept : a + m >= k
      BY <2>4, <1>5
    <3>2. /\ LastKept \in Kept /\ \A k \in Kept : LastKept >= k
      BY <2>3, <3>1 DEF LastKept
    <3>3. a + m <= LastKept /\ LastKept <= a + m /\ LastKept \in Nat
      BY <2>3, <2>4, <3>2
    <3>4. a + m \in Nat
      BY <1>5
    <3> HIDE DEF m
    <3> QED
      BY <3>3, <3>4
  <2>7. Trimmed = SubSeq(_buf, a + 1, a + m)
    BY <2>3, <2>5, <2>6 DEF Trimmed
  <2>8. /\ Trimmed \in Seq(Bytes) /\ Len(Trimmed) = m
        /\ \A k \in 1 .. m : Trimmed[k] = _buf[a + k]
    BY <1>5, <2>1, <2>7, StringFacts
  <2>9. ASSUME NEW k \in 1 .. m PROVE Trimmed[k] = t[k]
    <3>1. a + k \in 1 .. a + m /\ ~(a + k <= a) /\ (a + k) - a = k /\ a + k \in 1 .. _len
      BY <1>5
    <3>2. text[a + k] = t[(a + k) - a]
      BY <1>5, <3>1
    <3> QED
      BY <2>8, <3>1, <3>2, StringFacts
  <2>10. t \in Seq(Bytes)
    BY DEF Bytes
  <2> QED
    BY <1>5, <2>8, <2>9, <2>10, SameSeq
<1> QED
  BY <1>6, <1>7

(* trim()                                                                  *)
LEMMA TrimKeeps ==
  ASSUME StringInv, Trim
  PROVE  StringInv'
<1>1. PICK a \in 0 .. Len(text), b \in 0 .. Len(text) :
        text = [k \in 1 .. a |-> Blank] \o text' \o [k \in 1 .. b |-> Blank]
  BY DEF Trim
<1>2. text' \in Seq(Char) /\ (text' # << >> => Blank \notin {text'[1], text'[Len(text')]})
  <2>1. text \in Seq(Char) /\ Len(text) \in Nat
    BY StringFacts
  <2>2. PICK i \in 1 .. Len(text) + 1, j \in 0 .. Len(text) : text' = SubSeq(text, i, j)
    BY DEF Trim
  <2>3. SubSeq(text, i, j) \in Seq(Char)
    BY <2>1
  <2> QED
    BY <2>2, <2>3 DEF Trim
<1>3. a \in Nat /\ b \in Nat
  BY StringFacts
<1> DEFINE t == text'
<1>4. /\ t \in Seq(Char) /\ text = [k \in 1 .. a |-> Blank] \o t \o [k \in 1 .. b |-> Blank]
      /\ (t # << >> => Blank \notin {t[1], t[Len(t)]})
  BY <1>1, <1>2
<1> HIDE DEF t
<1>5. Trimmed = t /\ Len(t) <= _len
  BY <1>3, <1>4, TrimmedIs
<1>6. Held(This) = text
  BY HeldIs DEF StringInv
<1>7. CASE Trimmed = Held(This)
  <2>1. _buf' = _buf /\ _len' = _len /\ text' = text
    BY <1>5, <1>6, <1>7 DEF Trim, t
  <2> QED
    BY <2>1 DEF StringInv, This, Holds
<1>8. CASE Trimmed # Held(This)
  <2>1. _buf' = Store(_buf, 0, Append(t, NUL)) /\ _len' = Len(t)
    BY <1>5, <1>8 DEF Trim
  <2>2. _buf # << >>
    <3>1. SUFFICES ASSUME _len = 0 PROVE FALSE
      BY StringFacts
    <3>2. Len(t) = 0 /\ Len(text) = 0
      BY <1>4, <1>5, <3>1, StringFacts
    <3>3. t = text
      BY <1>4, <3>2, StringFacts
    <3> QED
      BY <1>5, <1>6, <1>8, <3>3
  <2> DEFINE none == << >>
  <2>3. none \in Seq(Char) /\ Len(none) = 0 /\ none \o t = t
    BY <1>4
  <2> HIDE DEF none
  <2>4. Len(none) + Len(t) < Len(_buf) /\ \A k \in 1 .. Len(none) : _buf[k] = none[k]
    BY <1>4, <1>5, <2>2, <2>3, StringFacts
  <2>5. _buf \in Seq(Bytes)
    BY StringFacts
  <2>6. Holds([buf |-> Store(_buf, Len(none), Append(t, NUL)), len |-> Len(none) + Len(t)],
              none \o t)
    BY <1>4, <2>3, <2>4, <2>5, StoredHolds
  <2>7. Len(none) + Len(t) = Len(t)
    BY <1>4, <2>3
  <2>8. Holds([buf |-> Store(_buf, 0, Append(t, NUL)), len |-> Len(t)], t)
    BY <2>3, <2>6, <2>7
  <2> DEFINE str == [buf |-> Store(_buf, 0, Append(t, NUL)), len |-> Len(t)]
  <2>9. Holds(str, t) /\ Becomes(str)
    BY <2>1, <2>8 DEF Becomes
  <2> HIDE DEF str
  <2> QED
    BY <2>9, BecomesHolds DEF t
<1> QED
  BY <1>7, <1>8

(* Where a text occurs, and where it occurs next. *)
Later(s, p, i) == {j \in Occurrences(s, p) : j >= i}

(* Occurrences lie inside the text, and the next one is one of them.       *)
LEMMA OccurrencesAre ==
  ASSUME NEW S, NEW s \in Seq(S), NEW p, Len(p) \in Nat, NEW i \in Nat
  PROVE  /\ Occurrences(s, p) \in SUBSET Nat /\ Later(s, p, i) \in SUBSET Nat
         /\ \A j \in Occurrences(s, p) : j + Len(p) <= Len(s)
         /\ Later(s, p, i) # {} =>
              /\ Least(Later(s, p, i)) \in Later(s, p, i)
              /\ Least(Later(s, p, i)) \in Nat /\ i <= Least(Later(s, p, i))
              /\ Least(Later(s, p, i)) + Len(p) <= Len(s)
              /\ \A j \in Later(s, p, i) : Least(Later(s, p, i)) <= j
<1>1. /\ Occurrences(s, p) \in SUBSET Nat
      /\ \A j \in Occurrences(s, p) : j + Len(p) <= Len(s)
  BY DEF Occurrences, Matches
<1>2. Later(s, p, i) \in SUBSET Nat /\ \A j \in Later(s, p, i) : j \in Occurrences(s, p) /\ j >= i
  BY <1>1 DEF Later
<1>3. Later(s, p, i) # {} => /\ Least(Later(s, p, i)) \in Later(s, p, i)
                             /\ \A j \in Later(s, p, i) : Least(Later(s, p, i)) <= j
  BY <1>2, LeastExists
<1> QED
  BY <1>1, <1>2, <1>3

(* What is left of a text once it is substituted, character by character.  *)
Substitutes(F, s, p, w) ==
    \A i \in 0 .. Len(s) :
      /\ F[i] \in Seq(Char)
      /\ i = Len(s) => F[i] = << >>
      /\ i < Len(s) /\ Matches(s, i, p) => F[i] = w \o F[i + Len(p)]
      /\ i < Len(s) /\ ~Matches(s, i, p) => F[i] = <<s[i + 1]>> \o F[i + 1]

Rest(s, p, w, F, i) ==
    IF Later(s, p, i) = {} THEN SubSeq(s, i + 1, Len(s))
    ELSE SubSeq(s, i + 1, Least(Later(s, p, i))) \o w
           \o F[Least(Later(s, p, i)) + Len(p)]

(* What substitution is defined by has a solution.                         *)
LEMMA SubstitutionExists ==
  ASSUME NEW s \in Seq(Char), NEW p \in Seq(Char), p # << >>, NEW w \in Seq(Char)
  PROVE  \E F : /\ F \in [0 .. Len(s) -> Seq(Char)]
                /\ F = [i \in 0 .. Len(s) |-> Rest(s, p, w, F, i)]
<1> DEFINE D == 0 .. Len(s)
           R == Seq(Char)
           done == {i \in D : Later(s, p, i) = {}}
           at(i) == Least(Later(s, p, i))
           base == [i \in done |-> SubSeq(s, i + 1, Len(s))]
           next == [i \in D \ done |-> at(i) + Len(p)]
           join == [x \in (D \ done) \X R |-> (SubSeq(s, x[1] + 1, at(x[1])) \o w) \o x[2]]
           rank == [i \in D |-> Len(s) - i]
<1>0. Len(s) \in Nat /\ Len(p) \in Nat /\ Len(p) > 0
  OBVIOUS
<1>1. ASSUME NEW i \in D \ done
      PROVE  /\ at(i) \in Nat /\ i <= at(i) /\ at(i) + Len(p) <= Len(s)
             /\ at(i) + Len(p) \in D /\ i < at(i) + Len(p)
  <2>1. i \in Nat /\ Later(s, p, i) # {}
    OBVIOUS
  <2>2. at(i) \in Nat /\ i <= at(i) /\ at(i) + Len(p) <= Len(s)
    BY <1>0, <2>1, OccurrencesAre
  <2> HIDE DEF at
  <2> QED
    BY <1>0, <2>1, <2>2
<1> HIDE DEF at
<1>2. Descends(D, R, rank, done, base, next, join)
  <2>1. rank \in [D -> Nat] /\ done \subseteq D
    BY <1>0
  <2>2. base \in [done -> R]
    BY <1>0
  <2>3. next \in [D \ done -> D]
    BY <1>1
  <2>4. join \in [(D \ done) \X R -> R]
    <3>1. ASSUME NEW i \in D \ done, NEW y \in R
          PROVE  (SubSeq(s, i + 1, at(i)) \o w) \o y \in R
      <4>1. SubSeq(s, i + 1, at(i)) \in Seq(Char)
        BY <1>0, <1>1
      <4>2. SubSeq(s, i + 1, at(i)) \o w \in Seq(Char)
        BY <4>1, ConcatIs
      <4> QED
        BY <4>2, ConcatIs
    <3> HIDE DEF D, R, done
    <3> QED
      BY <3>1
  <2>5. ASSUME NEW x \in D \ done PROVE rank[next[x]] < rank[x]
    <3>1. next[x] = at(x) + Len(p) /\ next[x] \in D /\ x < next[x]
      BY <1>1
    <3> HIDE DEF next
    <3> QED
      BY <1>0, <3>1
  <2> HIDE DEF D, R, rank, done, base, next, join
  <2> QED
    BY <2>1, <2>2, <2>3, <2>4, <2>5 DEF Descends
<1>3. PICK F \in [D -> R] : Computes(F, D, done, base, next, join)
  <2>1. << >> \in R
    OBVIOUS
  <2> HIDE DEF D, R, rank, done, base, next, join
  <2> QED
    BY <1>2, <2>1, DescentDefines
<1>4. ASSUME NEW i \in D PROVE F[i] = Rest(s, p, w, F, i)
  <2>1. CASE i \in done
    <3>1. F[i] = base[i]
      BY <1>3, <2>1 DEF Computes
    <3> QED
      BY <2>1, <3>1 DEF Rest
  <2>2. CASE i \notin done
    <3>1. F[i] = join[<<i, F[next[i]]>>]
      <4> HIDE DEF D, done, base, next, join
      <4> QED
        BY <1>3, <2>2 DEF Computes
    <3>2. next[i] = at(i) + Len(p) /\ next[i] \in D /\ F[next[i]] \in R
      BY <1>1, <2>2
    <3> HIDE DEF next
    <3>3. F[i] = (SubSeq(s, i + 1, at(i)) \o w) \o F[next[i]]
      BY <2>2, <3>1, <3>2
    <3>4. Later(s, p, i) # {}
      BY <2>2
    <3> QED
      BY <3>2, <3>3, <3>4 DEF Rest, at
  <2> QED
    BY <2>1, <2>2
<1> QED
  BY <1>3, <1>4

(* So it is what Substituted() computes.                                   *)
LEMMA SubstitutedFrom ==
  ASSUME NEW s \in Seq(Char), NEW p \in Seq(Char), p # << >>, NEW w \in Seq(Char)
  PROVE  \E F : /\ F = [i \in 0 .. Len(s) |-> Rest(s, p, w, F, i)]
                /\ Substituted(s, p, w) = F[0]
<1>1. \E F : F = [i \in 0 .. Len(s) |-> Rest(s, p, w, F, i)]
  BY SubstitutionExists
<1> QED
  BY <1>1 DEF Substituted, Rest, Later

(* Concatenation associates. *)
Regrouped(a, b, c, d) == ((a \o b) \o c) \o d = a \o ((b \o c) \o d)

(* Concatenation associates.                                               *)
LEMMA Regroup ==
  ASSUME NEW a \in Seq(Char), NEW b \in Seq(Char), NEW c \in Seq(Char), NEW d \in Seq(Char)
  PROVE  Regrouped(a, b, c, d)
<1>1. b \o c \in Seq(Char) /\ (a \o b) \o c = a \o (b \o c)
  BY ConcatIs, ConcatAssociative
<1>2. PICK e \in Seq(Char) : e = b \o c
  BY <1>1
<1>3. (a \o e) \o d = a \o (e \o d)
  BY ConcatAssociative
<1> QED
  BY <1>1, <1>2, <1>3 DEF Regrouped

(* A piece of a text is its first character and the rest.                  *)
LEMMA FirstOff ==
  ASSUME NEW s \in Seq(Char), NEW i \in Nat, NEW k \in Nat, i < k, k <= Len(s)
  PROVE  /\ SubSeq(s, i + 1, k) = <<s[i + 1]>> \o SubSeq(s, i + 2, k)
         /\ <<s[i + 1]>> \in Seq(Char) /\ SubSeq(s, i + 2, k) \in Seq(Char)
         /\ SubSeq(s, i + 1, k) \in Seq(Char) /\ s[i + 1] \in Char
<1>1. /\ SubSeq(s, i + 1, k) \in Seq(Char) /\ Len(SubSeq(s, i + 1, k)) = k - i
      /\ \A j \in 1 .. k - i : SubSeq(s, i + 1, k)[j] = s[i + j]
  OBVIOUS
<1>2. /\ SubSeq(s, i + 2, k) \in Seq(Char) /\ Len(SubSeq(s, i + 2, k)) = k - i - 1
      /\ \A j \in 1 .. k - i - 1 : SubSeq(s, i + 2, k)[j] = s[i + 1 + j]
  OBVIOUS
<1> DEFINE a == <<s[i + 1]>>
           b == SubSeq(s, i + 2, k)
           c == SubSeq(s, i + 1, k)
<1>3. a \in Seq(Char) /\ Len(a) = 1 /\ a[1] = s[i + 1] /\ s[i + 1] \in Char
  OBVIOUS
<1> HIDE DEF a, b, c
<1>4. /\ a \o b \in Seq(Char) /\ Len(a \o b) = Len(a) + Len(b)
      /\ \A j \in 1 .. Len(a) : (a \o b)[j] = a[j]
      /\ \A j \in Len(a) + 1 .. Len(a) + Len(b) : (a \o b)[j] = b[j - Len(a)]
  <2>1. a \in Seq(Char) /\ b \in Seq(Char)
    BY <1>2, <1>3 DEF b
  <2> QED
    BY <2>1, TextConcatIs
<1>5. Len(c) = Len(a \o b)
  BY <1>1, <1>2, <1>3, <1>4 DEF b, c
<1>6. ASSUME NEW j \in 1 .. Len(c) PROVE c[j] = (a \o b)[j]
  <2>0. j \in 1 .. k - i /\ c[j] = s[i + j]
    BY <1>1 DEF c
  <2>1. CASE j = 1
    BY <1>3, <1>4, <2>0, <2>1
  <2>2. CASE j # 1
    <3>1. j - 1 \in 1 .. k - i - 1 /\ j \in Len(a) + 1 .. Len(a) + Len(b)
          /\ j - Len(a) = j - 1 /\ i + 1 + (j - 1) = i + j
      BY <1>2, <1>3, <2>0, <2>2 DEF b
    <3>2. (a \o b)[j] = b[j - 1]
      BY <1>4, <3>1
    <3>3. b[j - 1] = s[i + 1 + (j - 1)]
      BY <1>2, <3>1 DEF b
    <3> QED
      BY <2>0, <3>1, <3>2, <3>3
  <2> QED
    BY <2>1, <2>2
<1>7. c \in Seq(Char)
  BY <1>1 DEF c
<1>8. c = a \o b
  BY <1>4, <1>5, <1>6, <1>7, SameSeq
<1> QED
  BY <1>1, <1>2, <1>3, <1>8 DEF a, b, c

(* The piece w put in behind the characters from i to k, and y after it. *)
Copied(s, i, k, w, y) ==
    SubSeq(s, i + 1, k) \o w \o y = <<s[i + 1]>> \o (SubSeq(s, i + 2, k) \o w \o y)

(* A character that is copied, before a piece that is put in.              *)
LEMMA FirstCopied ==
  ASSUME NEW s \in Seq(Char), NEW i \in Nat, NEW k \in Nat, i < k, k <= Len(s),
         NEW w \in Seq(Char), NEW y \in Seq(Char)
  PROVE  Copied(s, i, k, w, y)
<1>1. PICK a \in Seq(Char), b \in Seq(Char) :
        a = <<s[i + 1]>> /\ b = SubSeq(s, i + 2, k) /\ SubSeq(s, i + 1, k) = a \o b
  BY FirstOff
<1>2. Regrouped(a, b, w, y)
  BY <1>1, Regroup
<1> QED
  BY <1>1, <1>2 DEF Regrouped, Copied

(* Substitution from one occurrence to the next is substitution character  *)
(* by character.                                                           *)
LEMMA SubstitutedIs ==
  ASSUME NEW s \in Seq(Char), NEW p \in Seq(Char), p # << >>, NEW w \in Seq(Char)
  PROVE  \E F : Substituted(s, p, w) = F[0] /\ Substitutes(F, s, p, w)
<1> DEFINE D == 0 .. Len(s)
           at(i) == Least(Later(s, p, i))
<1>0. Len(s) \in Nat /\ Len(p) \in Nat /\ Len(p) > 0
  OBVIOUS
<1>1. PICK F : /\ F = [i \in D |-> Rest(s, p, w, F, i)]
               /\ Substituted(s, p, w) = F[0]
  BY SubstitutedFrom
<1>2. \A i \in D : F[i] = Rest(s, p, w, F, i)
  BY <1>1
<1>3. ASSUME NEW i \in D, Later(s, p, i) # {}
      PROVE  /\ at(i) \in Nat /\ i <= at(i) /\ at(i) + Len(p) <= Len(s)
             /\ at(i) + Len(p) \in D /\ i < at(i) + Len(p)
             /\ F[i] = SubSeq(s, i + 1, at(i)) \o w \o F[at(i) + Len(p)]
             /\ \A j \in Later(s, p, i) : at(i) <= j
             /\ at(i) \in Later(s, p, i)
  <2>1. i \in Nat
    OBVIOUS
  <2>2. /\ at(i) \in Nat /\ i <= at(i) /\ at(i) + Len(p) <= Len(s)
        /\ \A j \in Later(s, p, i) : at(i) <= j
        /\ at(i) \in Later(s, p, i)
    BY <1>0, <1>3, <2>1, OccurrencesAre
  <2>3. F[i] = SubSeq(s, i + 1, at(i)) \o w \o F[at(i) + Len(p)]
    BY <1>2, <1>3 DEF Rest
  <2> HIDE DEF at
  <2> QED
    BY <1>0, <2>1, <2>2, <2>3
<1>4. ASSUME NEW i \in D, Later(s, p, i) = {}
      PROVE  F[i] = SubSeq(s, i + 1, Len(s))
  BY <1>2, <1>4 DEF Rest
<1> HIDE DEF at
<1>5. \A i \in D : F[i] \in Seq(Char)
  <2> DEFINE Good == {i \in D : F[i] \in Seq(Char)}
             rank == [i \in D |-> Len(s) - i]
  <2>1. \A i \in D : rank[i] \in Nat
    BY <1>0
  <2>2. ASSUME NEW i \in D, \A j \in D : rank[j] < rank[i] => j \in Good
        PROVE  i \in Good
    <3>1. CASE Later(s, p, i) = {}
      <4>1. F[i] = SubSeq(s, i + 1, Len(s))
        BY <1>4, <3>1
      <4>2. SubSeq(s, i + 1, Len(s)) \in Seq(Char)
        BY <1>0
      <4> QED
        BY <4>1, <4>2
    <3>2. CASE Later(s, p, i) # {}
      <4> DEFINE j == at(i) + Len(p)
      <4>1. j \in D /\ i < j
        BY <1>3, <3>2
      <4> HIDE DEF j
      <4>2. rank[j] < rank[i]
        BY <1>0, <4>1
      <4>3. F[j] \in Seq(Char)
        BY <2>2, <4>1, <4>2
      <4> DEFINE x == SubSeq(s, i + 1, at(i))
      <4>4. F[i] = x \o w \o F[j]
        BY <1>3, <3>2 DEF j
      <4>5. x \in Seq(Char)
        BY <1>0, <1>3, <3>2
      <4> HIDE DEF x
      <4>6. x \o w \in Seq(Char)
        BY <4>5, ConcatIs
      <4>7. (x \o w) \o F[j] \in Seq(Char)
        BY <4>3, <4>6, ConcatIs
      <4> QED
        BY <4>4, <4>7
    <3> QED
      BY <3>1, <3>2
  <2>3. D \subseteq Good
    <3> HIDE DEF D, Good, rank
    <3>1. \A i \in D : (\A j \in D : rank[j] < rank[i] => j \in Good) => i \in Good
      BY <2>2
    <3> QED
      BY <2>1, <3>1, ByRank
  <2> QED
    BY <2>3
<1>6. ASSUME NEW i \in D, i = Len(s)
      PROVE  F[i] = << >>
  <2>1. Later(s, p, i) = {}
    <3>1. \A j \in Occurrences(s, p) : j + Len(p) <= Len(s) /\ j \in Nat
      BY <1>0, OccurrencesAre
    <3> QED
      BY <1>0, <1>6, <3>1 DEF Later
  <2>2. SubSeq(s, i + 1, Len(s)) = << >>
    BY <1>0, <1>6
  <2> QED
    BY <1>4, <2>1, <2>2
<1>7. ASSUME NEW i \in D, i < Len(s), Matches(s, i, p)
      PROVE  F[i] = w \o F[i + Len(p)]
  <2>1. i \in Later(s, p, i)
    BY <1>7 DEF Later, Occurrences
  <2>2. at(i) = i
    BY <1>3, <2>1
  <2>3. F[i] = SubSeq(s, i + 1, i) \o w \o F[i + Len(p)]
    BY <1>3, <2>1, <2>2
  <2>4. SubSeq(s, i + 1, i) = << >>
    OBVIOUS
  <2>5. << >> \o w = w
    OBVIOUS
  <2> QED
    BY <2>3, <2>4, <2>5
<1>8. ASSUME NEW i \in D, i < Len(s), ~Matches(s, i, p)
      PROVE  F[i] = <<s[i + 1]>> \o F[i + 1]
  <2>0. i \in Nat /\ i + 1 \in D
    BY <1>8
  <2>1. Later(s, p, i) = Later(s, p, i + 1)
    <3>1. \A j \in Occurrences(s, p) : j \in Nat /\ j # i
      BY <1>8 DEF Occurrences
    <3>2. \A j \in Occurrences(s, p) : j >= i <=> j >= i + 1
      BY <2>0, <3>1
    <3> QED
      BY <3>2 DEF Later
  <2>2. CASE Later(s, p, i) = {}
    <3>1. F[i] = SubSeq(s, i + 1, Len(s)) /\ F[i + 1] = SubSeq(s, (i + 1) + 1, Len(s))
      BY <1>4, <2>0, <2>1, <2>2
    <3>2. SubSeq(s, i + 1, Len(s)) = <<s[i + 1]>> \o SubSeq(s, i + 2, Len(s))
      BY <1>0, <1>8, <2>0, FirstOff
    <3>3. (i + 1) + 1 = i + 2
      BY <2>0
    <3> QED
      BY <3>1, <3>2, <3>3
  <2>3. CASE Later(s, p, i) # {}
    <3> DEFINE k == at(i)
               y == F[k + Len(p)]
    <3>1. at(i + 1) = k
      BY <2>1 DEF at
    <3>2. /\ k \in Nat /\ i + 1 <= k /\ k + Len(p) <= Len(s)
          /\ F[i] = SubSeq(s, i + 1, k) \o w \o y
          /\ F[i + 1] = SubSeq(s, (i + 1) + 1, k) \o w \o y
          /\ k + Len(p) \in D
      <4>1. /\ k \in Nat /\ k + Len(p) <= Len(s) /\ k + Len(p) \in D
            /\ F[i] = SubSeq(s, i + 1, k) \o w \o y
        BY <1>3, <2>3
      <4>2. /\ i + 1 <= k
            /\ F[i + 1] = SubSeq(s, (i + 1) + 1, k) \o w \o y
        BY <1>3, <2>0, <2>1, <2>3, <3>1
      <4> QED
        BY <4>1, <4>2
    <3> HIDE DEF k
    <3>4. y \in Seq(Char)
      BY <1>5, <3>2
    <3>5. SubSeq(s, (i + 1) + 1, k) = SubSeq(s, i + 2, k)
      <4>1. (i + 1) + 1 = i + 2
        BY <2>0
      <4> QED
        BY <4>1
    <3>6. i < k /\ k <= Len(s)
      BY <1>0, <2>0, <3>2
    <3> HIDE DEF y
    <3>7. Copied(s, i, k, w, y)
      BY <2>0, <3>2, <3>4, <3>6, FirstCopied
    <3> QED
      BY <3>2, <3>5, <3>7 DEF Copied
  <2> QED
    BY <2>2, <2>3
<1>9. Substitutes(F, s, p, w)
  BY <1>5, <1>6, <1>7, <1>8 DEF Substitutes
<1> QED
  BY <1>1, <1>9

(* replace() at a character: what it appends, and where it goes on. *)
(* replace() at a character of s, with what it has built so far. *)
Scans(s) == [i : 0 .. Len(s), out : Buffers]

(* What it appends, and where it goes on. *)
After(x, s, p, w, heap) ==
    IF Matches(s, x.i, p)
    THEN [i |-> x.i + Len(p), out |-> Appended(x.out, w, heap)]
    ELSE [i |-> x.i + 1, out |-> Appended(x.out, <<s[x.i + 1]>>, heap)]

(* A step of the scan goes on, in a buffer.                                *)
LEMMA AfterIs ==
  ASSUME NEW s \in Seq(Char), NEW p \in Seq(Char), p # << >>, NEW w \in Seq(Char),
         NEW heap \in Nat, NEW x \in Scans(s), x.i # Len(s)
  PROVE  /\ After(x, s, p, w, heap) \in Scans(s)
         /\ x.i < After(x, s, p, w, heap).i
<1>1. x.i \in 0 .. Len(s) /\ x.i < Len(s) /\ x.out \in Buffers /\ Len(p) \in Nat /\ Len(p) > 0
  BY DEF Scans
<1>2. CASE Matches(s, x.i, p)
  <2>1. x.i + Len(p) \in 0 .. Len(s)
    BY <1>1, <1>2 DEF Matches
  <2>2. Appended(x.out, w, heap) \in Buffers
    BY <1>1, AppendedIsBuffer
  <2>3. After(x, s, p, w, heap) = [i |-> x.i + Len(p), out |-> Appended(x.out, w, heap)]
    BY <1>2 DEF After
  <2> QED
    BY <1>1, <2>1, <2>2, <2>3 DEF Scans
<1>3. CASE ~Matches(s, x.i, p)
  <2> DEFINE c == <<s[x.i + 1]>>
  <2>1. c \in Seq(Char)
    BY <1>1
  <2> HIDE DEF c
  <2>2. Appended(x.out, c, heap) \in Buffers
    BY <1>1, <2>1, AppendedIsBuffer
  <2>3. After(x, s, p, w, heap) = [i |-> x.i + 1, out |-> Appended(x.out, c, heap)]
    BY <1>3 DEF After, c
  <2> QED
    BY <1>1, <2>2, <2>3 DEF Scans
<1> QED
  BY <1>2, <1>3

(* What the scan is defined by has a solution.                             *)
LEMMA ScanExists ==
  ASSUME NEW s \in Seq(Char), NEW p \in Seq(Char), p # << >>, NEW w \in Seq(Char),
         NEW heap \in Nat
  PROVE  \E G : G = [x \in Scans(s) |->
                       IF x.i = Len(s) THEN x.out ELSE G[After(x, s, p, w, heap)]]
<1> DEFINE D == Scans(s)
           done == {x \in D : x.i = Len(s)}
           base == [x \in done |-> x.out]
           next == [x \in D \ done |-> After(x, s, p, w, heap)]
           join == [q \in (D \ done) \X Buffers |-> q[2]]
           rank == [x \in D |-> Len(s) - x.i]
<1>0. \A x \in D : x.i \in 0 .. Len(s) /\ x.out \in Buffers
  BY DEF Scans
<1>1. ASSUME NEW x \in D \ done
      PROVE  next[x] = After(x, s, p, w, heap) /\ next[x] \in D /\ x.i < next[x].i
  BY AfterIs
<1>2. Descends(D, Buffers, rank, done, base, next, join)
  <2>1. rank \in [D -> Nat] /\ done \subseteq D /\ base \in [done -> Buffers]
    BY <1>0
  <2>2. next \in [D \ done -> D]
    BY AfterIs
  <2>3. join \in [(D \ done) \X Buffers -> Buffers]
    OBVIOUS
  <2>4. ASSUME NEW x \in D \ done PROVE rank[next[x]] < rank[x]
    <3>1. next[x] \in D /\ x.i < next[x].i /\ next[x].i \in 0 .. Len(s) /\ x.i \in 0 .. Len(s)
      BY <1>0, <1>1
    <3> HIDE DEF next, D, done
    <3>2. x \in D
      BY DEF done
    <3>3. rank[next[x]] = Len(s) - next[x].i /\ rank[x] = Len(s) - x.i
      BY <3>1, <3>2
    <3> QED
      BY <3>1, <3>3
  <2> HIDE DEF D, done, base, next, join, rank
  <2> QED
    BY <2>1, <2>2, <2>3, <2>4 DEF Descends
<1>3. PICK G \in [D -> Buffers] : Computes(G, D, done, base, next, join)
  <2>1. Null \in Buffers
    BY DEF Null, Buffers
  <2> HIDE DEF D, done, base, next, join, rank
  <2> QED
    BY <1>2, <2>1, DescentDefines
<1>4. ASSUME NEW x \in D
      PROVE  G[x] = IF x.i = Len(s) THEN x.out ELSE G[After(x, s, p, w, heap)]
  <2>1. CASE x \in done
    BY <1>3, <2>1 DEF Computes
  <2>2. CASE x \notin done
    <3>1. G[x] = join[<<x, G[next[x]]>>]
      <4> HIDE DEF D, done, base, next, join
      <4> QED
        BY <1>3, <2>2 DEF Computes
    <3>2. next[x] = After(x, s, p, w, heap) /\ next[x] \in D
      BY <1>1, <2>2
    <3>3. G[next[x]] \in Buffers
      BY <1>3, <3>2
    <3> HIDE DEF next
    <3>4. G[x] = G[next[x]]
      BY <2>2, <3>1, <3>3
    <3> QED
      BY <2>2, <3>2, <3>4
  <2> QED
    BY <2>1, <2>2
<1> QED
  BY <1>3, <1>4

(* So it is what Replaced() computes.                                      *)
LEMMA ReplacedFrom ==
  ASSUME NEW s \in Seq(Char), NEW p \in Seq(Char), p # << >>, NEW w \in Seq(Char),
         NEW heap \in Nat
  PROVE  \E G : /\ G = [x \in Scans(s) |->
                       IF x.i = Len(s) THEN x.out ELSE G[After(x, s, p, w, heap)]]
                /\ Replaced(s, p, w, heap) = G[[i |-> 0, out |-> Null]]
<1> DEFINE Scan(H) == [x \in [i : 0 .. Len(s), out : Buffers] |->
            IF x.i = Len(s) THEN x.out
            ELSE IF Matches(s, x.i, p)
                 THEN H[[i |-> x.i + Len(p), out |-> Appended(x.out, w, heap)]]
                 ELSE H[[i |-> x.i + 1, out |-> Appended(x.out, <<s[x.i + 1]>>, heap)]]]
<1>1. ASSUME NEW H
      PROVE  [x \in Scans(s) |->
                IF x.i = Len(s) THEN x.out ELSE H[After(x, s, p, w, heap)]] = Scan(H)
  <2>1. ASSUME NEW x \in Scans(s), x.i # Len(s)
        PROVE  H[After(x, s, p, w, heap)] =
                 IF Matches(s, x.i, p)
                 THEN H[[i |-> x.i + Len(p), out |-> Appended(x.out, w, heap)]]
                 ELSE H[[i |-> x.i + 1, out |-> Appended(x.out, <<s[x.i + 1]>>, heap)]]
    BY DEF After
  <2> QED
    BY <2>1 DEF Scans
<1>2. \E H : H = Scan(H)
  <2>1. PICK G : G = [x \in Scans(s) |->
                       IF x.i = Len(s) THEN x.out ELSE G[After(x, s, p, w, heap)]]
    BY ScanExists
  <2> HIDE DEF Scan
  <2> QED
    BY <1>1, <2>1
<1>3. PICK H : H = Scan(H) /\ Replaced(s, p, w, heap) = H[[i |-> 0, out |-> Null]]
  BY <1>2 DEF Replaced
<1> HIDE DEF Scan
<1>4. H = [x \in Scans(s) |-> IF x.i = Len(s) THEN x.out ELSE H[After(x, s, p, w, heap)]]
  BY <1>1, <1>3
<1> QED
  BY <1>3, <1>4

(* A heap that has room for every buffer that a text may need. *)
Roomy(heap) == heap >= FirstCap /\ heap >= 2 * (MaxLen + 1)

(* A heap with room for a text as long as any refuses no append. *)
LEMMA RoomyAppends ==
  ASSUME NEW heap \in Nat, Roomy(heap), NEW str, NEW t, Holds(str, t),
         NEW s \in Seq(Char), Len(t) + Len(s) <= MaxLen
  PROVE  Holds(Appended(str, s, heap), t \o s)
<1> DEFINE n == Needs(str, s)
<1>1. /\ Len(str.buf) \in Nat /\ (str.buf = << >> \/ Len(str.buf) # 0)
      /\ Len(t) \in Nat /\ Len(s) \in Nat /\ str.len = Len(t)
  BY DEF Holds
<1>2. n = Len(t) + Len(s) + 1 /\ n \in Nat /\ n <= MaxLen + 1 /\ MaxLen \in Nat /\ FirstCap \in Nat
  BY <1>1, StringAssumption DEF Needs
<1> HIDE DEF n
<1>3. /\ NewCap(str, n) \in Nat /\ n <= NewCap(str, n)
      /\ \/ NewCap(str, n) = IF str.buf = << >> THEN FirstCap ELSE Len(str.buf)
         \/ NewCap(str, n) < 2 * n
  BY <1>1, <1>2, NewCapFits
<1>4. n <= Len(str.buf) \/ NewCap(str, n) <= heap
  BY <1>1, <1>2, <1>3 DEF Roomy
<1> QED
  BY <1>4, AppendedHolds DEF n

(* From where the scan stands with the text t, it ends with a text: on a   *)
(* roomy heap t and what is left to be substituted.                        *)
Ends(G, F, x, heap) ==
    \A t : Holds(x.out, t) =>
      \E u : /\ Holds(G[x], u)
             /\ Roomy(heap) /\ Len(t \o F[x.i]) <= MaxLen => u = t \o F[x.i]

(* A step of it: with one more piece r, and what is left after it. *)
LEMMA EndsFrom ==
  ASSUME NEW G, NEW F, NEW heap \in Nat, NEW x, NEW y, NEW r \in Seq(Char),
         y.out = Appended(x.out, r, heap), G[x] = G[y], F[x.i] = r \o F[y.i],
         F[y.i] \in Seq(Char), Ends(G, F, y, heap)
  PROVE  Ends(G, F, x, heap)
<1> SUFFICES ASSUME NEW t, Holds(x.out, t)
             PROVE  \E u : /\ Holds(G[x], u)
                           /\ Roomy(heap) /\ Len(t \o F[x.i]) <= MaxLen => u = t \o F[x.i]
  BY DEF Ends
<1>0. t \in Seq(Char)
  BY DEF Holds
<1>1. CASE Roomy(heap) /\ Len(t \o F[x.i]) <= MaxLen
  <2>1. PICK tail \in Seq(Char) : tail = F[y.i]
    OBVIOUS
  <2>2. /\ t \o r \in Seq(Char) /\ Len(t \o r) = Len(t) + Len(r)
        /\ r \o tail \in Seq(Char) /\ Len(r \o tail) = Len(r) + Len(tail)
    BY <1>0, ConcatIs
  <2>3. (t \o r) \o tail = t \o (r \o tail)
    BY <1>0, ConcatAssociative
  <2>4. Len(t \o (r \o tail)) = Len(t) + Len(r \o tail)
    BY <1>0, <2>2, ConcatIs
  <2>5. F[x.i] = r \o tail
    BY <2>1
  <2>6. Len(t) + Len(r) <= MaxLen
    <3>1. Len(t) + (Len(r) + Len(tail)) <= MaxLen
      BY <1>1, <2>2, <2>4, <2>5
    <3>2. Len(t) \in Nat /\ Len(r) \in Nat /\ Len(tail) \in Nat
      BY <1>0
    <3> QED
      BY <3>1, <3>2, StringAssumption
  <2>7. Holds(y.out, t \o r)
    BY <1>1, <2>6, RoomyAppends
  <2>8. PICK u : /\ Holds(G[y], u)
                 /\ Roomy(heap) /\ Len((t \o r) \o F[y.i]) <= MaxLen => u = (t \o r) \o F[y.i]
    BY <2>7 DEF Ends
  <2>9. u = t \o F[x.i]
    BY <1>1, <2>1, <2>3, <2>5, <2>8
  <2> QED
    BY <2>8, <2>9
<1>2. CASE ~(Roomy(heap) /\ Len(t \o F[x.i]) <= MaxLen)
  <2>1. \E v : Holds(y.out, v)
    <3>1. Appended(x.out, r, heap) = x.out \/ Holds(Appended(x.out, r, heap), t \o r)
      BY AppendedHolds
    <3> QED
      BY <3>1
  <2>2. PICK u : Holds(G[y], u)
    BY <2>1 DEF Ends
  <2> QED
    BY <1>2, <2>2
<1> QED
  BY <1>1, <1>2

(* replace() builds a text, on a roomy heap the one that substitution      *)
(* makes.                                                                  *)
LEMMA ReplacedHolds ==
  ASSUME NEW s \in Seq(Char), NEW p \in Seq(Char), p # << >>, NEW w \in Seq(Char),
         NEW heap \in Nat
  PROVE  \E u : /\ Holds(Replaced(s, p, w, heap), u)
                /\ Roomy(heap) /\ Len(Substituted(s, p, w)) <= MaxLen
                     => u = Substituted(s, p, w)
<1>1. PICK G : /\ G = [x \in Scans(s) |->
                       IF x.i = Len(s) THEN x.out ELSE G[After(x, s, p, w, heap)]]
               /\ Replaced(s, p, w, heap) = G[[i |-> 0, out |-> Null]]
  BY ReplacedFrom, ZenonT(60)
<1>2. PICK F : Substituted(s, p, w) = F[0] /\ Substitutes(F, s, p, w)
  BY SubstitutedIs
<1>3. Len(s) \in Nat /\ Len(p) \in Nat /\ Len(p) > 0
  OBVIOUS
<1> DEFINE D == Scans(s)
           Good == {x \in D : Ends(G, F, x, heap)}
           rank == [x \in D |-> Len(s) - x.i]
<1>4. \A x \in D : x.i \in 0 .. Len(s) /\ x.out \in Buffers /\ rank[x] = Len(s) - x.i
  BY DEF Scans
<1>5. ASSUME NEW x \in D, \A y \in D : rank[y] < rank[x] => y \in Good
      PROVE  x \in Good
  <2>1. CASE x.i = Len(s)
    <3>1. G[x] = x.out
      BY <1>1, <2>1
    <3>2. F[x.i] = << >>
      BY <1>3, <1>4, <2>1, <1>2 DEF Substitutes
    <3>3. ASSUME NEW t, Holds(x.out, t)
          PROVE  Holds(G[x], t) /\ t = t \o F[x.i]
      <4>1. t \in Seq(Char)
        BY <3>3 DEF Holds
      <4> QED
        BY <3>1, <3>2, <3>3, <4>1, ConcatEmptySeq
    <3> QED
      BY <3>3 DEF Ends
  <2>2. CASE x.i # Len(s)
    <3> DEFINE y == After(x, s, p, w, heap)
    <3>1. y \in D /\ x.i < y.i
      BY <2>2, AfterIs
    <3>2. y \in Good
      <4>1. rank[y] < rank[x]
        <5>1. x.i \in Nat /\ y.i \in Nat /\ rank[x] = Len(s) - x.i /\ rank[y] = Len(s) - y.i
          BY <1>4, <3>1
        <5> QED
          BY <1>3, <3>1, <5>1
      <4> HIDE DEF Good, rank, y
      <4> QED
        BY <1>5, <3>1, <4>1
    <3>3. G[x] = G[y]
      BY <1>1, <2>2
    <3>4. x.i \in 0 .. Len(s) /\ x.i < Len(s) /\ y.i \in 0 .. Len(s)
      BY <1>3, <1>4, <2>2, <3>1
    <3>5. F[y.i] \in Seq(Char)
      BY <1>2, <3>4 DEF Substitutes
    <3>6. CASE Matches(s, x.i, p)
      <4>1. y = [i |-> x.i + Len(p), out |-> Appended(x.out, w, heap)]
        BY <3>6 DEF After
      <4>2. y.out = Appended(x.out, w, heap) /\ y.i = x.i + Len(p)
        BY <4>1
      <4>3. F[x.i] = w \o F[x.i + Len(p)]
        BY <1>2, <3>4, <3>6 DEF Substitutes
      <4>4. F[x.i] = w \o F[y.i]
        BY <4>2, <4>3
      <4>5. Ends(G, F, y, heap)
        BY <3>2
      <4> HIDE DEF y
      <4> QED
        BY <3>3, <3>5, <4>2, <4>4, <4>5, EndsFrom
    <3>7. CASE ~Matches(s, x.i, p)
      <4> DEFINE c == <<s[x.i + 1]>>
      <4>1. y = [i |-> x.i + 1, out |-> Appended(x.out, c, heap)]
        BY <3>7 DEF After
      <4>2. y.out = Appended(x.out, c, heap) /\ y.i = x.i + 1
        BY <4>1
      <4>3. F[x.i] = c \o F[x.i + 1]
        BY <1>2, <3>4, <3>7 DEF Substitutes
      <4>4. c \in Seq(Char)
        BY <1>3, <3>4
      <4>5. Ends(G, F, y, heap)
        BY <3>2
      <4> HIDE DEF c
      <4>6. F[x.i] = c \o F[y.i]
        BY <4>2, <4>3
      <4> HIDE DEF y
      <4> QED
        BY <3>3, <3>5, <4>2, <4>4, <4>5, <4>6, EndsFrom
    <3> QED
      BY <3>6, <3>7
  <2> QED
    BY <2>1, <2>2
<1>6. D \subseteq Good
  <2>1. \A x \in D : rank[x] \in Nat
    <3> TAKE x \in D
    <3>1. x.i \in 0 .. Len(s) /\ rank[x] = Len(s) - x.i
      BY <1>4
    <3> HIDE DEF rank, D
    <3> QED
      BY <1>3, <3>1
  <2> HIDE DEF D, Good, rank
  <2>2. \A x \in D : (\A y \in D : rank[y] < rank[x] => y \in Good) => x \in Good
    BY <1>5
  <2> QED
    BY <2>1, <2>2, ByRank
<1> DEFINE start == [i |-> 0, out |-> Null]
<1>7. start \in D /\ start.i = 0 /\ start.out = Null
  BY <1>3 DEF Scans, Buffers, Null
<1>8. Ends(G, F, start, heap)
  <2> HIDE DEF start
  <2> QED
    BY <1>6, <1>7
<1>9. Holds(Null, << >>)
  BY DEF Holds, Null
<1> HIDE DEF start
<1>10. F[0] \in Seq(Char) /\ << >> \o F[0] = F[0]
  <2>1. F[0] \in Seq(Char)
    <3>1. 0 \in 0 .. Len(s)
      BY <1>3
    <3> QED
      BY <1>2, <3>1 DEF Substitutes
  <2> QED
    BY <2>1, ConcatEmptySeq
<1>11. PICK u : /\ Holds(G[start], u)
                /\ Roomy(heap) /\ Len(<< >> \o F[0]) <= MaxLen => u = << >> \o F[0]
  BY <1>7, <1>8, <1>9 DEF Ends
<1> QED
  BY <1>1, <1>2, <1>10, <1>11 DEF start

(* replace()                                                               *)
LEMMA ReplaceKeeps ==
  ASSUME StringInv, NEW p \in Seq(Char), NEW w \in Seq(Char), NEW heap \in Nat,
         Replace(p, w, heap)
  PROVE  StringInv'
<1> DEFINE out == Replaced(Held(This), p, w, heap)
           result == Substituted(text, p, w)
           e == Emptied(This)
<1>1. /\ p # << >> /\ Len(result) <= MaxLen
      /\ Becomes(Appended(e, Held(out), heap))
      /\ text' = IF heap >= FirstCap /\ heap >= 2 * (MaxLen + 1) THEN result
                 ELSE SubSeq(_buf', 1, _len')
  BY DEF Replace
<1>2. Held(This) = text /\ text \in Seq(Char) /\ Holds(e, << >>)
  BY HeldIs, StringFacts, EmptiedHolds DEF StringInv
<1> HIDE DEF result, e, out
<1>3. PICK u : /\ Holds(out, u)
               /\ Roomy(heap) /\ Len(result) <= MaxLen => u = result
  <2>1. \E u : /\ Holds(Replaced(text, p, w, heap), u)
               /\ Roomy(heap) /\ Len(Substituted(text, p, w)) <= MaxLen
                     => u = Substituted(text, p, w)
    BY <1>1, <1>2, ReplacedHolds
  <2> QED
    BY <1>2, <2>1 DEF out, result
<1>4. Held(out) = u /\ u \in Seq(Char)
  BY <1>3, HeldIs DEF Holds
<1> DEFINE str == Appended(e, u, heap)
<1>5. Becomes(str)
  BY <1>1, <1>4
<1>6. << >> \o u = u
  BY <1>4
<1>7. CASE Roomy(heap)
  <2>1. u = result /\ text' = u
    BY <1>1, <1>3, <1>7 DEF Roomy
  <2> DEFINE none == << >>
  <2>2. Holds(e, none) /\ none \o u = u /\ Len(none) + Len(u) <= MaxLen
    BY <1>1, <1>2, <1>4, <1>6, <2>1
  <2> HIDE DEF none
  <2>3. Holds(Appended(e, u, heap), none \o u)
    BY <1>4, <1>7, <2>2, RoomyAppends
  <2>4. Holds(str, u)
    BY <2>2, <2>3
  <2> HIDE DEF str
  <2> QED
    BY <1>5, <2>1, <2>4, BecomesHolds
<1>8. CASE ~Roomy(heap)
  <2>1. text' = SubSeq(_buf', 1, _len')
    BY <1>1, <1>8 DEF Roomy
  <2>2. Appended(e, u, heap) = e \/ Holds(Appended(e, u, heap), << >> \o u)
    <3> DEFINE none == << >>
    <3>1. Holds(e, none)
      BY <1>2
    <3> HIDE DEF none
    <3>2. Appended(e, u, heap) = e \/ Holds(Appended(e, u, heap), none \o u)
      BY <1>4, <3>1, AppendedHolds
    <3> QED
      BY <3>2 DEF none
  <2>3. PICK v : Holds(str, v)
    BY <1>2, <2>2
  <2> HIDE DEF str
  <2>4. Held(str) = v
    BY <2>3, HeldIs
  <2>5. text' = v
    BY <1>5, <2>1, <2>4 DEF Held, Becomes
  <2> QED
    BY <1>5, <2>3, <2>5, BecomesHolds
<1> QED
  BY <1>7, <1>8

(* Texts are sequences of characters.                                      *)
LEMMA TextsAre ==
  ASSUME NEW n \in Nat, NEW s \in Texts(n)
  PROVE  s \in Seq(Char)
  BY DEF Texts

(* Any call.                                                               *)
LEMMA StringStepKeeps ==
  ASSUME StringInv, StringStep
  PROVE  StringInv'
<1>1. CASE \E heap \in Heap, s \in Texts(2) : Concat(s, heap) \/ Assign(s, heap)
  <2>1. PICK heap \in Heap, s \in Texts(2) : Concat(s, heap) \/ Assign(s, heap)
    BY <1>1
  <2>2. heap \in Nat /\ s \in Seq(Char)
    BY TextsAre, StringAssumption
  <2>3. CASE Concat(s, heap)
    BY <2>2, <2>3, ConcatKeeps
  <2>4. CASE Assign(s, heap)
    BY <2>2, <2>4, AssignKeeps
  <2> QED
    BY <2>1, <2>3, <2>4
<1>2. CASE \E heap \in Heap : \E size \in Heap \ {0} : Reserve(size, heap)
  <2>1. PICK heap \in Heap, size \in Heap \ {0} : Reserve(size, heap)
    BY <1>2
  <2>2. heap \in Nat /\ size \in Nat \ {0}
    BY StringAssumption
  <2> QED
    BY <2>1, <2>2, ReserveKeeps
<1>3. CASE \E heap \in Heap : \E sought \in Texts(2), by \in Texts(2) : Replace(sought, by, heap)
  <2>1. PICK heap \in Heap, sought \in Texts(2), by \in Texts(2) : Replace(sought, by, heap)
    BY <1>3
  <2>2. heap \in Nat /\ sought \in Seq(Char) /\ by \in Seq(Char)
    BY TextsAre, StringAssumption
  <2> QED
    BY <2>1, <2>2, ReplaceKeeps
<1>4. CASE ConcatSelf
  BY <1>4, ConcatSelfKeeps
<1>5. CASE Trim
  BY <1>5, TrimKeeps
<1>6. CASE \E i \in 0 .. MaxLen - 1 : \E c \in Char : SetCharAt(i, c)
  BY <1>6, SetCharAtKeeps
<1>7. CASE \E i \in 0 .. MaxLen - 1 : \E n \in 1 .. MaxLen : StringRemove(i, n)
  BY <1>7, RemoveKeeps
<1>8. CASE \E f \in [Char -> Char] : MapChars(f)
  BY <1>8, MapCharsKeeps
<1> QED
  BY <1>1, <1>2, <1>3, <1>4, <1>5, <1>6, <1>7, <1>8 DEF StringStep

(* A String without a buffer is the empty text.                            *)
LEMMA StringStarts ==
  ASSUME StringInit
  PROVE  StringInv
  BY DEF StringInit, StringInv, Holds, This

(* The buffer is the text.                                                 *)
LEMMA StringInvGives ==
  ASSUME StringInv
  PROVE  StringIsText
  BY StringFacts, HeldIs DEF StringInv, StringIsText

-----------------------------------------------------------------------------
(* A piece of a sequence, element by element.                              *)
LEMMA SubSeqIs ==
  ASSUME NEW S, NEW s \in Seq(S), NEW i \in Nat, NEW m \in Nat, i <= m, m <= Len(s)
  PROVE  /\ SubSeq(s, i + 1, m) \in Seq(S) /\ Len(SubSeq(s, i + 1, m)) = m - i
         /\ \A k \in 1 .. m - i : SubSeq(s, i + 1, m)[k] = s[i + k]
  OBVIOUS

(* A match, element by element.                                            *)
LEMMA MatchesIs ==
  ASSUME NEW S, NEW s \in Seq(S), NEW p \in Seq(S), NEW i \in Nat
  PROVE  Matches(s, i, p) <=> /\ i + Len(p) <= Len(s)
                              /\ \A k \in 1 .. Len(p) : s[i + k] = p[k]
<1> DEFINE q == SubSeq(s, i + 1, i + Len(p))
<1>1. ASSUME i + Len(p) <= Len(s)
      PROVE  /\ q \in Seq(S) /\ Len(q) = Len(p)
             /\ \A k \in 1 .. Len(p) : q[k] = s[i + k]
  <2> DEFINE m == i + Len(p)
  <2>1. m \in Nat /\ i <= m /\ m <= Len(s) /\ m - i = Len(p)
    BY <1>1
  <2> HIDE DEF m
  <2>2. /\ SubSeq(s, i + 1, m) \in Seq(S) /\ Len(SubSeq(s, i + 1, m)) = m - i
        /\ \A k \in 1 .. m - i : SubSeq(s, i + 1, m)[k] = s[i + k]
    BY <2>1, SubSeqIs
  <2> QED
    BY <2>1, <2>2 DEF m
<1>2. Matches(s, i, p) <=> i + Len(p) <= Len(s) /\ q = p
  BY DEF Matches
<1> HIDE DEF q
<1>3. ASSUME i + Len(p) <= Len(s)
      PROVE  q = p <=> \A k \in 1 .. Len(p) : q[k] = p[k]
  BY <1>1, <1>3, SameSeq
<1> QED
  BY <1>1, <1>2, <1>3

(* In the buffer nothing is found that reaches into the terminator. *)
LEMMA FoundInText ==
  ASSUME StringInv, NEW p \in Seq(Char), p # << >>, NEW i \in Nat, i <= _len
  PROVE  Matches(_buf, i, p) <=> Matches(text, i, p)
<1>1. _buf \in Seq(Bytes) /\ text \in Seq(Bytes) /\ p \in Seq(Bytes)
  BY StringFacts DEF Bytes
<1>2. Matches(_buf, i, p) <=> /\ i + Len(p) <= Len(_buf)
                              /\ \A k \in 1 .. Len(p) : _buf[i + k] = p[k]
  BY <1>1, MatchesIs
<1>3. Matches(text, i, p) <=> /\ i + Len(p) <= Len(text)
                              /\ \A k \in 1 .. Len(p) : text[i + k] = p[k]
  BY <1>1, MatchesIs
<1>4. Len(p) \in Nat /\ Len(p) > 0 /\ _len \in Nat /\ Len(_buf) \in Nat
      /\ _len <= Len(_buf) /\ _len = Len(text)
  BY StringFacts
<1>5. ASSUME i + Len(p) <= _len
      PROVE  \A k \in 1 .. Len(p) : _buf[i + k] = text[i + k]
  BY <1>4, <1>5, StringFacts
<1>6. ASSUME i + Len(p) > _len
      PROVE  ~Matches(_buf, i, p)
  <2>1. SUFFICES ASSUME Matches(_buf, i, p)
                 PROVE  FALSE
    OBVIOUS
  <2>2. _buf # << >>
    BY <1>2, <1>4, <2>1, StringFacts
  <2> DEFINE k == _len + 1 - i
  <2>3. k \in 1 .. Len(p) /\ i + k = _len + 1
    BY <1>4, <1>6
  <2> HIDE DEF k
  <2>4. p[k] \in Char /\ _buf[i + k] = p[k]
    BY <1>2, <2>1, <2>3
  <2>5. _buf[_len + 1] = NUL
    BY <2>2, StringFacts
  <2> QED
    BY <2>3, <2>4, <2>5, NoCharIsNUL
<1>7. CASE i + Len(p) <= _len
  BY <1>2, <1>3, <1>4, <1>5, <1>7
<1>8. CASE ~(i + Len(p) <= _len)
  <2>1. i + Len(p) > _len
    BY <1>4, <1>8
  <2> QED
    BY <1>3, <1>4, <1>6, <1>8, <2>1
<1> QED
  BY <1>7, <1>8

(* The C library sees the rest of the text. *)
LEMMA CStringIs ==
  ASSUME StringInv, NEW i \in Nat, i < _len
  PROVE  CString(i) = SubSeq(text, i + 1, _len)
<1> DEFINE ends == {k \in i + 1 .. Len(_buf) : _buf[k] = NUL}
<1>1. /\ _len \in Nat /\ Len(_buf) \in Nat /\ _buf # << >> /\ _len < Len(_buf)
      /\ _buf[_len + 1] = NUL /\ _len = Len(text)
      /\ text \in Seq(Char) /\ _buf \in Seq(Bytes)
  BY StringFacts
<1>2. _len + 1 \in ends
  BY <1>1
<1>3. ASSUME NEW k \in ends PROVE k \in Nat /\ _len + 1 <= k
  <2>1. k \in Nat /\ k >= i + 1 /\ _buf[k] = NUL
    OBVIOUS
  <2>2. CASE k <= _len
    <3>1. k \in 1 .. _len
      BY <1>1, <2>1, <2>2
    <3> QED
      BY <2>1, <3>1, StringFacts, NoCharIsNUL
  <2> QED
    BY <1>1, <2>1, <2>2
<1> HIDE DEF ends
<1>4. Least(ends) \in ends /\ \A j \in ends : Least(ends) <= j
  BY <1>2, <1>3, LeastExists
<1>5. Least(ends) = _len + 1
  BY <1>1, <1>2, <1>3, <1>4
<1>6. CString(i) = SubSeq(_buf, i + 1, Least(ends) - 1)
  BY <1>2 DEF CString, ends
<1>7. Least(ends) - 1 = _len
  BY <1>1, <1>5
<1> DEFINE a == SubSeq(_buf, i + 1, _len)
           b == SubSeq(text, i + 1, _len)
<1>8. a \in Seq(Bytes) /\ Len(a) = _len - i /\ \A k \in 1 .. _len - i : a[k] = _buf[i + k]
  BY <1>1
<1>9. b \in Seq(Char) /\ Len(b) = _len - i /\ \A k \in 1 .. _len - i : b[k] = text[i + k]
  BY <1>1
<1> HIDE DEF a, b
<1>10. \A k \in 1 .. _len - i : i + k \in 1 .. _len
  BY <1>1
<1>11. \A k \in 1 .. Len(a) : a[k] = b[k]
  BY <1>8, <1>9, <1>10, StringFacts
<1>12. b \in Seq(Bytes)
  BY <1>9 DEF Bytes
<1>13. a = b
  BY <1>8, <1>9, <1>11, <1>12, SameSeq
<1> QED
  BY <1>6, <1>7, <1>13 DEF a, b

(* Where a text occurs in the rest of another. *)
LEMMA FoundInRest ==
  ASSUME NEW s \in Seq(Char), NEW p \in Seq(Char), NEW f \in Nat, f <= Len(s), NEW j \in Nat
  PROVE  Matches(SubSeq(s, f + 1, Len(s)), j, p) <=> Matches(s, f + j, p)
<1> DEFINE r == SubSeq(s, f + 1, Len(s))
<1>1. /\ r \in Seq(Char) /\ Len(r) = Len(s) - f
      /\ \A k \in 1 .. Len(s) - f : r[k] = s[f + k]
  BY SubSeqIs
<1> HIDE DEF r
<1>2. Matches(r, j, p) <=> /\ j + Len(p) <= Len(r)
                           /\ \A k \in 1 .. Len(p) : r[j + k] = p[k]
  <2>1. r \in Seq(Char)
    BY <1>1
  <2> QED
    BY <2>1, MatchesIs
<1>3. Matches(s, f + j, p) <=> /\ (f + j) + Len(p) <= Len(s)
                               /\ \A k \in 1 .. Len(p) : s[(f + j) + k] = p[k]
  BY MatchesIs
<1>4. j + Len(p) <= Len(r) <=> (f + j) + Len(p) <= Len(s)
  BY <1>1
<1>5. ASSUME j + Len(p) <= Len(r), NEW k \in 1 .. Len(p)
      PROVE  r[j + k] = s[(f + j) + k]
  <2>1. j + k \in 1 .. Len(s) - f /\ f + (j + k) = (f + j) + k
    BY <1>1, <1>5
  <2> QED
    BY <1>1, <2>1
<1> QED
  BY <1>2, <1>3, <1>4, <1>5 DEF r

(* The least element is found.                                             *)
LEMMA LeastIs ==
  ASSUME NEW S \in SUBSET Nat, NEW m \in S, \A j \in S : m <= j
  PROVE  Least(S) = m
<1>1. Least(S) \in S /\ \A j \in S : Least(S) <= j
  BY LeastExists
<1>2. Least(S) \in Nat /\ m \in Nat /\ Least(S) <= m /\ m <= Least(S)
  BY <1>1
<1> QED
  BY <1>2

(* indexOf() answers with the next occurrence.                             *)
LEMMA indexOfIs ==
  ASSUME StringInv, NEW p \in Seq(Char), p # << >>, NEW from \in Nat
  PROVE  LET at == Occurrences(text, p) IN
         indexOf(p, from) =
           IF \A i \in at : i < from THEN -1 ELSE Least({i \in at : i >= from})
<1> DEFINE at == Occurrences(text, p)
<1>0. /\ text \in Seq(Char) /\ Len(text) = _len /\ _len \in Nat
      /\ Len(p) \in Nat /\ Len(p) > 0
  BY StringFacts
<1>1. at \in SUBSET Nat /\ \A j \in at : j + Len(p) <= _len
  BY <1>0, OccurrencesAre
<1>2. CASE from >= _len
  <2>1. indexOf(p, from) = -1
    BY <1>2 DEF indexOf
  <2>2. \A i \in at : i < from
    BY <1>0, <1>1, <1>2
  <2> QED
    BY <2>1, <2>2
<1>3. CASE from < _len
  <2> DEFINE c == CString(from)
             found == Occurrences(c, p)
             later == {i \in at : i >= from}
  <2>1. c = SubSeq(text, from + 1, Len(text))
    BY <1>0, <1>3, CStringIs
  <2>2. indexOf(p, from) = IF found = {} THEN -1 ELSE from + Least(found)
    BY <1>0, <1>3 DEF indexOf
  <2>3. c \in Seq(Char) /\ Len(c) = _len - from
    BY <1>0, <1>3, <2>1
  <2> HIDE DEF c
  <2>4. found \in SUBSET Nat
    BY <1>0, <2>3, OccurrencesAre
  <2>5. ASSUME NEW j \in Nat
        PROVE  j \in found <=> from + j \in at
    <3>1. Matches(c, j, p) <=> Matches(text, from + j, p)
      <4>1. from <= Len(text)
        BY <1>0, <1>3
      <4> QED
        BY <1>0, <2>1, <4>1, FoundInRest
    <3>2. j \in found <=> j \in 0 .. Len(c) /\ Matches(c, j, p)
      BY DEF Occurrences
    <3>3. from + j \in at <=> from + j \in 0 .. Len(text) /\ Matches(text, from + j, p)
      BY DEF Occurrences
    <3>4. j \in 0 .. Len(c) <=> from + j \in 0 .. Len(text)
      BY <1>0, <1>3, <2>3
    <3> QED
      BY <3>1, <3>2, <3>3, <3>4
  <2> HIDE DEF found, at
  <2>6. ASSUME NEW i \in later
        PROVE  i - from \in found /\ i \in Nat /\ from + (i - from) = i
    <3>1. i \in at /\ i \in Nat /\ i >= from
      BY <1>1
    <3>2. i - from \in Nat /\ from + (i - from) = i
      BY <3>1
    <3> QED
      BY <2>5, <3>1, <3>2
  <2>7. CASE found = {}
    <3>1. ASSUME NEW i \in at PROVE i < from
      <4>1. i \in Nat /\ i \notin later
        BY <1>1, <2>6, <2>7
      <4> QED
        BY <4>1
    <3> QED
      BY <2>2, <2>7, <3>1 DEF at
  <2>8. CASE found # {}
    <3> DEFINE m == Least(found)
    <3>1. m \in found /\ m \in Nat /\ \A j \in found : m <= j
      BY <2>4, <2>8, LeastExists
    <3> HIDE DEF m
    <3>2. from + m \in later /\ from + m \in at
      BY <2>5, <3>1
    <3>3. \A i \in later : from + m <= i
      <4> TAKE i \in later
      <4>1. m <= i - from /\ i \in Nat
        BY <2>6, <3>1
      <4> QED
        BY <3>1, <4>1
    <3>4. later \in SUBSET Nat
      BY <1>1
    <3> HIDE DEF later
    <3>5. Least(later) = from + m
      BY <3>2, <3>3, <3>4, LeastIs
    <3>6. ~ \A i \in at : i < from
      BY <3>1, <3>2
    <3>7. indexOf(p, from) = Least(later)
      BY <2>2, <2>8, <3>5 DEF m
    <3> QED
      BY <3>6, <3>7 DEF later, at
  <2> QED
    BY <2>7, <2>8
<1> QED
  BY <1>0, <1>2, <1>3

(* What a search from i downwards answers. *)
LastUpTo(at, i, r) ==
    \/ r = -1 /\ \A j \in at : j > i
    \/ r \in at /\ r <= i /\ \A j \in at : j <= i => j <= r

(* What lastIndexOf() is defined by has a solution.                        *)
LEMMA DownExists ==
  ASSUME NEW buf, NEW p
  PROVE  \E f : f = [i \in Int |-> IF i < 0 THEN -1 ELSE IF Matches(buf, i, p) THEN i
                                   ELSE f[i - 1]]
<1> DEFINE done == {i \in Int : i < 0 \/ Matches(buf, i, p)}
           base == [i \in done |-> IF i < 0 THEN -1 ELSE i]
           next == [i \in Int \ done |-> i - 1]
           join == [q \in (Int \ done) \X Int |-> q[2]]
           rank == [i \in Int |-> IF i < 0 THEN 0 ELSE i + 1]
<1>1. Descends(Int, Int, rank, done, base, next, join)
  <2>1. rank \in [Int -> Nat] /\ done \subseteq Int /\ next \in [Int \ done -> Int]
    OBVIOUS
  <2>2. base \in [done -> Int]
    OBVIOUS
  <2>3. join \in [(Int \ done) \X Int -> Int]
    OBVIOUS
  <2>4. ASSUME NEW i \in Int \ done PROVE rank[next[i]] < rank[i]
    <3>1. i \in Int /\ ~(i < 0) /\ next[i] = i - 1 /\ i - 1 \in Int
      OBVIOUS
    <3> HIDE DEF next, done
    <3>2. rank[i] = i + 1 /\ rank[i - 1] = IF i - 1 < 0 THEN 0 ELSE (i - 1) + 1
      BY <3>1
    <3> HIDE DEF rank
    <3> QED
      BY <3>1, <3>2
  <2> HIDE DEF done, base, next, join, rank
  <2> QED
    BY <2>1, <2>2, <2>3, <2>4 DEF Descends
<1>2. PICK f \in [Int -> Int] : Computes(f, Int, done, base, next, join)
  <2>1. 0 \in Int
    OBVIOUS
  <2> HIDE DEF done, base, next, join, rank
  <2> QED
    BY <1>1, <2>1, DescentDefines
<1>3. ASSUME NEW i \in Int
      PROVE  f[i] = IF i < 0 THEN -1 ELSE IF Matches(buf, i, p) THEN i ELSE f[i - 1]
  <2>1. CASE i \in done
    <3>1. f[i] = base[i]
      BY <1>2, <2>1 DEF Computes
    <3> QED
      BY <2>1, <3>1
  <2>2. CASE i \notin done
    <3>1. f[i] = join[<<i, f[next[i]]>>]
      <4> HIDE DEF done, base, next, join
      <4> QED
        BY <1>2, <2>2 DEF Computes
    <3>2. next[i] = i - 1 /\ f[i - 1] \in Int
      BY <2>2
    <3> HIDE DEF next
    <3>3. f[i] = f[i - 1]
      BY <2>2, <3>1, <3>2
    <3> QED
      BY <2>2, <3>3
  <2> QED
    BY <2>1, <2>2
<1> QED
  BY <1>2, <1>3

(* The search downwards finds the last occurrence from where it starts.    *)
LEMMA DownIs ==
  ASSUME StringInv, NEW p \in Seq(Char), p # << >>, NEW f,
         f = [i \in Int |-> IF i < 0 THEN -1 ELSE IF Matches(_buf, i, p) THEN i
                            ELSE f[i - 1]],
         NEW n \in Int, n + Len(p) <= _len
  PROVE  LastUpTo(Occurrences(text, p), n, f[n])
<1> DEFINE at == Occurrences(text, p)
           D == {i \in Int : i <= n}
           rank == [i \in D |-> IF i < 0 THEN 0 ELSE i + 1]
           Good == {i \in D : LastUpTo(at, i, f[i])}
<1>0. /\ text \in Seq(Char) /\ Len(text) = _len /\ _len \in Nat
      /\ Len(p) \in Nat /\ Len(p) > 0
  BY StringFacts
<1>1. at \in SUBSET Nat
  BY <1>0, OccurrencesAre
<1>2. ASSUME NEW i \in D, \A j \in D : rank[j] < rank[i] => j \in Good
      PROVE  i \in Good
  <2>0. i \in Int /\ i <= n
    OBVIOUS
  <2>1. f[i] = IF i < 0 THEN -1 ELSE IF Matches(_buf, i, p) THEN i ELSE f[i - 1]
    BY <2>0
  <2>2. CASE i < 0
    <3>1. f[i] = -1 /\ \A j \in at : j > i
      BY <1>1, <2>0, <2>1, <2>2
    <3> HIDE DEF at
    <3> QED
      BY <3>1 DEF LastUpTo
  <2>3. CASE ~(i < 0)
    <3>1. i \in Nat /\ i <= _len /\ i \in 0 .. Len(text)
      BY <1>0, <2>0, <2>3
    <3>2. Matches(_buf, i, p) <=> i \in at
      <4>1. Matches(_buf, i, p) <=> Matches(text, i, p)
        BY <3>1, FoundInText
      <4> QED
        BY <3>1, <4>1 DEF Occurrences
    <3> HIDE DEF at
    <3>3. CASE i \in at
      <4>1. f[i] = i
        BY <2>1, <2>3, <3>2, <3>3
      <4>2. i <= i
        BY <2>0
      <4> QED
        BY <3>3, <4>1, <4>2 DEF LastUpTo
    <3>4. CASE i \notin at
      <4>1. f[i] = f[i - 1]
        BY <2>1, <2>3, <3>2, <3>4
      <4>2. i - 1 \in D /\ rank[i - 1] < rank[i]
        BY <2>0, <3>1
      <4>3. LastUpTo(at, i - 1, f[i - 1])
        <5>1. i - 1 \in Good
          <6> HIDE DEF Good, rank
          <6> QED
            BY <1>2, <4>2
        <5> QED
          BY <5>1
      <4>4. \A j \in at : j \in Nat /\ j # i /\ (j > i - 1 <=> j > i) /\ (j <= i - 1 <=> j <= i)
        <5> TAKE j \in at
        <5>1. j \in Nat /\ j # i
          BY <1>1, <3>4
        <5> QED
          BY <3>1, <5>1
      <4>5. CASE f[i - 1] = -1 /\ \A j \in at : j > i - 1
        <5>1. f[i] = -1 /\ \A j \in at : j > i
          BY <4>1, <4>4, <4>5
        <5> QED
          BY <5>1 DEF LastUpTo
      <4>6. CASE f[i - 1] \in at /\ f[i - 1] <= i - 1 /\ \A j \in at : j <= i - 1 => j <= f[i - 1]
        <5>1. f[i] \in at /\ f[i] <= i /\ \A j \in at : j <= i => j <= f[i]
          BY <4>1, <4>4, <4>6
        <5> QED
          BY <5>1 DEF LastUpTo
      <4> QED
        BY <4>3, <4>5, <4>6 DEF LastUpTo
    <3> QED
      BY <3>3, <3>4
  <2> QED
    BY <2>2, <2>3
<1>3. \A i \in D : rank[i] \in Nat
  OBVIOUS
<1>4. n \in D
  OBVIOUS
<1>5. D \subseteq Good
  <2> HIDE DEF D, rank, Good
  <2>1. \A i \in D : (\A j \in D : rank[j] < rank[i] => j \in Good) => i \in Good
    BY <1>2
  <2> QED
    BY <1>3, <2>1, ByRank
<1> QED
  BY <1>4, <1>5

(* lastIndexOf() answers with the last occurrence before its index.        *)
LEMMA lastIndexOfIs ==
  ASSUME StringInv, NEW p \in Seq(Char), p # << >>, NEW from \in Nat
  PROVE  LET at == Occurrences(text, p)
             before == {i \in at : i + Len(p) <= from}
         IN  lastIndexOf(p, from) =
               IF before = {} \/ from > Len(text) THEN -1
               ELSE CHOOSE i \in before : \A j \in before : j <= i
<1> DEFINE at == Occurrences(text, p)
           before == {i \in at : i + Len(p) <= from}
           n == from - Len(p)
<1>0. /\ text \in Seq(Char) /\ Len(text) = _len /\ _len \in Nat
      /\ Len(p) \in Nat /\ Len(p) > 0
  BY StringFacts
<1>1. at \in SUBSET Nat /\ \A j \in at : j + Len(p) <= _len
  BY <1>0, OccurrencesAre
<1>2. PICK f : /\ f = [i \in Int |-> IF i < 0 THEN -1 ELSE IF Matches(_buf, i, p) THEN i
                                    ELSE f[i - 1]]
               /\ lastIndexOf(p, from) =
                    IF p = << >> \/ _len = 0 \/ Len(p) > _len \/ from > _len THEN -1
                    ELSE f[from - Len(p)]
  <2>1. \E f : f = [i \in Int |-> IF i < 0 THEN -1 ELSE IF Matches(_buf, i, p) THEN i
                                  ELSE f[i - 1]]
    BY DownExists
  <2> QED
    BY <2>1 DEF lastIndexOf
<1>3. CASE from > _len
  BY <1>0, <1>2, <1>3
<1>4. CASE ~(from > _len) /\ (_len = 0 \/ Len(p) > _len)
  <2>1. lastIndexOf(p, from) = -1
    BY <1>2, <1>4
  <2>2. at = {}
    <3>1. SUFFICES ASSUME NEW j \in at PROVE FALSE
      OBVIOUS
    <3>2. j \in Nat /\ j + Len(p) <= _len
      BY <1>1
    <3> QED
      BY <1>0, <1>4, <3>2
  <2> HIDE DEF at
  <2>3. before = {}
    BY <2>2
  <2> QED
    BY <2>1, <2>3 DEF at
<1>5. CASE ~(from > _len) /\ ~(_len = 0 \/ Len(p) > _len)
  <2>1. lastIndexOf(p, from) = f[n]
    BY <1>2, <1>5
  <2>2. n \in Int /\ n + Len(p) <= _len /\ n + Len(p) = from
    BY <1>0, <1>5
  <2> HIDE DEF n
  <2>3. LastUpTo(at, n, f[n])
    BY <1>2, <2>2, DownIs
  <2> HIDE DEF at
  <2>4. \A j \in at : j \in Nat /\ (j \in before <=> j <= n)
    <3> TAKE j \in at
    <3>1. j \in Nat
      BY <1>1
    <3> QED
      BY <1>0, <2>2, <3>1
  <2>5. CASE f[n] = -1 /\ \A j \in at : j > n
    <3>1. before = {}
      BY <2>2, <2>4, <2>5
    <3> QED
      BY <2>1, <2>5, <3>1 DEF at
  <2>6. CASE f[n] \in at /\ f[n] <= n /\ \A j \in at : j <= n => j <= f[n]
    <3> DEFINE m == CHOOSE i \in before : \A j \in before : j <= i
    <3>1. f[n] \in before /\ \A j \in before : j <= f[n]
      BY <2>4, <2>6
    <3>2. m \in before /\ \A j \in before : j <= m
      <4> HIDE DEF before
      <4> QED
        BY <3>1
    <3>3. m \in Nat /\ f[n] \in Nat /\ m <= f[n] /\ f[n] <= m
      <4>1. m \in at
        BY <3>2
      <4> HIDE DEF before, m
      <4> QED
        BY <2>4, <2>6, <3>1, <3>2, <4>1
    <3> HIDE DEF m
    <3>4. m = f[n]
      BY <3>3
    <3>5. before # {} /\ ~(from > Len(text))
      BY <1>0, <1>5, <3>1
    <3> HIDE DEF before
    <3> QED
      BY <2>1, <3>4, <3>5 DEF m, before, at
  <2> QED
    BY <2>3, <2>5, <2>6 DEF LastUpTo
<1> QED
  BY <1>3, <1>4, <1>5

(* startsWith()                                                            *)
LEMMA startsWithIs ==
  ASSUME StringInv, NEW p \in Seq(Char), p # << >>, NEW from \in Nat
  PROVE  startsWith(p, from) <=> from \in Occurrences(text, p)
<1>0. text \in Seq(Char) /\ Len(text) = _len /\ _len \in Nat
  BY StringFacts
<1>1. from <= _len => (Matches(_buf, from, p) <=> Matches(text, from, p))
  BY FoundInText
<1>2. from <= _len <=> from \in 0 .. Len(text)
  BY <1>0
<1> QED
  BY <1>1, <1>2 DEF startsWith, Occurrences

(* endsWith()                                                              *)
LEMMA endsWithIs ==
  ASSUME StringInv, NEW p \in Seq(Char), p # << >>
  PROVE  endsWith(p) <=> Len(text) - Len(p) \in Occurrences(text, p)
<1>0. /\ text \in Seq(Char) /\ Len(text) = _len /\ _len \in Nat
      /\ Len(p) \in Nat /\ Len(p) > 0
  BY StringFacts
<1> DEFINE i == _len - Len(p)
<1>1. CASE Len(p) > _len
  <2>1. ~endsWith(p)
    BY <1>0, <1>1 DEF endsWith
  <2>2. Len(text) - Len(p) \notin 0 .. Len(text)
    BY <1>0, <1>1
  <2> QED
    BY <2>1, <2>2 DEF Occurrences
<1>2. CASE Len(p) <= _len
  <2>1. i \in Nat /\ i < _len /\ i + Len(p) = Len(text) /\ i \in 0 .. Len(text)
    BY <1>0, <1>2
  <2>2. endsWith(p) <=> CString(i) = p
    BY <1>2 DEF endsWith
  <2> HIDE DEF i
  <2>3. CString(i) = SubSeq(text, i + 1, i + Len(p))
    BY <1>0, <2>1, CStringIs
  <2>4. Matches(text, i, p) <=> SubSeq(text, i + 1, i + Len(p)) = p
    BY <1>0, <2>1 DEF Matches
  <2>5. i \in Occurrences(text, p) <=> Matches(text, i, p)
    BY <2>1 DEF Occurrences
  <2>6. Len(text) - Len(p) = i
    BY <1>0 DEF i
  <2> QED
    BY <2>2, <2>3, <2>4, <2>5, <2>6
<1> QED
  BY <1>0, <1>1, <1>2

(* substring()                                                             *)
LEMMA substringIs ==
  ASSUME StringInv, NEW from \in Nat, NEW to \in Nat
  PROVE  substring(from, to) = SubSeq(text, from + 1, Min2(to, Len(text)))
<1> DEFINE b == Min2(from, _len)
           e == Min2(to, _len)
<1>0. /\ text \in Seq(Char) /\ Len(text) = _len /\ _len \in Nat
      /\ _buf \in Seq(Bytes) /\ Len(_buf) \in Nat /\ _len <= Len(_buf)
  BY StringFacts
<1>1. /\ b \in Nat /\ b <= _len /\ (b = from \/ (b = _len /\ from > _len))
      /\ e \in Nat /\ e <= _len
  BY <1>0 DEF Min2
<1>2. substring(from, to) = IF e < b THEN << >> ELSE SubSeq(_buf, b + 1, e)
  BY DEF substring
<1>3. Min2(to, Len(text)) = e
  BY <1>0
<1> HIDE DEF b, e
<1>4. CASE e < b \/ from > _len
  <2>1. SubSeq(text, from + 1, e) = << >>
    <3>1. e < from + 1
      BY <1>0, <1>1, <1>4
    <3> QED
      BY <1>0, <1>1, <3>1
  <2>2. e < b \/ SubSeq(_buf, b + 1, e) = << >>
    <3>1. e < b \/ (b = _len /\ e = _len)
      BY <1>0, <1>1, <1>4
    <3> QED
      BY <1>0, <3>1
  <2> QED
    BY <1>2, <1>3, <2>1, <2>2
<1>5. CASE ~(e < b \/ from > _len)
  <2>1. b = from /\ b <= e
    BY <1>0, <1>1, <1>5
  <2> DEFINE x == SubSeq(_buf, b + 1, e)
             y == SubSeq(text, b + 1, e)
  <2>2. x \in Seq(Bytes) /\ Len(x) = e - b /\ \A k \in 1 .. e - b : x[k] = _buf[b + k]
    <3>1. e <= Len(_buf)
      BY <1>0, <1>1
    <3> QED
      BY <1>0, <1>1, <2>1, <3>1, SubSeqIs
  <2>3. y \in Seq(Char) /\ Len(y) = e - b /\ \A k \in 1 .. e - b : y[k] = text[b + k]
    <3>1. e <= Len(text)
      BY <1>0, <1>1
    <3> QED
      BY <1>0, <1>1, <2>1, <3>1, SubSeqIs
  <2> HIDE DEF x, y
  <2>4. \A k \in 1 .. e - b : b + k \in 1 .. _len
    BY <1>0, <1>1, <2>1
  <2>5. \A k \in 1 .. Len(x) : x[k] = y[k]
    BY <2>2, <2>3, <2>4, StringFacts
  <2>6. y \in Seq(Bytes)
    BY <2>3 DEF Bytes
  <2>7. x = y
    BY <2>2, <2>3, <2>5, <2>6, SameSeq
  <2> QED
    BY <1>2, <1>3, <1>5, <2>1, <2>7 DEF x, y
<1> QED
  BY <1>4, <1>5

(* The questions are answered.                                             *)
LEMMA AnswersGiven ==
  ASSUME StringInv
  PROVE  AnswersAreOfTheText
<1> SUFFICES ASSUME NEW p \in Texts(2) \ {<< >>}, NEW from \in 0 .. MaxLen + 1
             PROVE  LET at == Occurrences(text, p) IN
        /\ indexOf(p, from) =
             IF \A i \in at : i < from THEN -1 ELSE Least({i \in at : i >= from})
        /\ lastIndexOf(p, from) =
             LET before == {i \in at : i + Len(p) <= from} IN
             IF before = {} \/ from > Len(text) THEN -1
             ELSE CHOOSE i \in before : \A j \in before : j <= i
        /\ startsWith(p, from) <=> from \in at
        /\ endsWith(p) <=> Len(text) - Len(p) \in at
        /\ \A to \in 0 .. MaxLen + 1 :
             substring(from, to) = SubSeq(text, from + 1, Min2(to, Len(text)))
  BY DEF AnswersAreOfTheText
<1>1. p \in Seq(Char) /\ p # << >> /\ from \in Nat
  BY TextsAre
<1>2. \A to \in 0 .. MaxLen + 1 :
        substring(from, to) = SubSeq(text, from + 1, Min2(to, Len(text)))
  BY <1>1, substringIs
<1> QED
  BY <1>1, <1>2, indexOfIs, lastIndexOfIs, startsWithIs, endsWithIs

-----------------------------------------------------------------------------
(* The invariant of a String, at every step of the sketch: the buffer,     *)
(* the length and the terminator hold what the granted calls make.         *)
THEOREM StringInductive == Spec => []StringInv
<1>1. Init => StringInv
  BY StringStarts DEF Init
<1>2. StringInv /\ [Next]_vars => StringInv'
  <2> SUFFICES ASSUME StringInv, [Next]_vars
               PROVE  StringInv'
    OBVIOUS
  <2>1. CASE StringStep
    BY <2>1, StringStepKeeps
  <2>2. CASE UNCHANGED stringVars
    BY <2>2 DEF stringVars, StringInv, This, Holds
  <2> QED
    BY <2>1, <2>2 DEF Next, OnStream, OnString, vars
<1> QED
  BY <1>1, <1>2, PTL DEF Spec

(* A String holds the text that the granted calls make, with a terminator  *)
(* inside its buffer, whatever the heap refuses.                           *)
THEOREM StringHoldsText == Spec => []StringIsText
  BY StringInductive, StringInvGives, PTL

(* indexOf(), lastIndexOf(), startsWith(), endsWith() and substring() are  *)
(* about the text, never about what lies behind the terminator.            *)
THEOREM StringAnswers == Spec => []AnswersAreOfTheText
  BY StringInductive, AnswersGiven, PTL

-----------------------------------------------------------------------------
(* Numbers.  A String made of a number is what print() prints of it, and   *)
(* what the peer prints is what parseInt() and parseFloat() read.  The     *)
(* digits of a number are its quotients by the powers of ten.              *)

(* The powers of ten. *)
LEMMA TensAre ==
  /\ \A k \in Nat : Tens[k] \in Nat \ {0}
  /\ Tens[0] = 1
  /\ \A k \in Nat : k # 0 => Tens[k] = 10 * Tens[k - 1]
<1> DEFINE R == Nat \ {0}
           done == {0}
           base == [k \in done |-> 1]
           next == [k \in Nat \ done |-> k - 1]
           join == [p \in (Nat \ done) \X R |-> 10 * p[2]]
           rank == [k \in Nat |-> k]
<1>1. Descends(Nat, R, rank, done, base, next, join)
  <2>1. rank \in [Nat -> Nat] /\ done \subseteq Nat /\ base \in [done -> R]
        /\ next \in [Nat \ done -> Nat]
    OBVIOUS
  <2>2. join \in [(Nat \ done) \X R -> R]
    OBVIOUS
  <2>3. ASSUME NEW x \in Nat \ done PROVE rank[next[x]] < rank[x]
    OBVIOUS
  <2> HIDE DEF R, done, base, next, join, rank
  <2> QED
    BY <2>1, <2>2, <2>3 DEF Descends
<1>2. PICK f \in [Nat -> R] : Computes(f, Nat, done, base, next, join)
  <2>1. 1 \in R
    OBVIOUS
  <2> HIDE DEF R, done, base, next, join, rank
  <2> QED
    BY <1>1, <2>1, DescentDefines
<1>3. f = [k \in Nat |-> IF k = 0 THEN 1 ELSE 10 * f[k - 1]]
  <2>1. ASSUME NEW k \in Nat PROVE f[k] = IF k = 0 THEN 1 ELSE 10 * f[k - 1]
    <3>1. CASE k = 0
      BY <1>2, <3>1 DEF Computes
    <3>2. CASE k # 0
      <4>1. f[k] = join[<<k, f[next[k]]>>]
        <5>1. k \notin done
          BY <3>2
        <5> HIDE DEF R, done, base, next, join
        <5> QED
          BY <1>2, <5>1 DEF Computes
      <4>2. next[k] = k - 1 /\ f[k - 1] \in R
        BY <3>2
      <4> QED
        BY <3>2, <4>1, <4>2
    <3> QED
      BY <3>1, <3>2
  <2> QED
    BY <2>1
<1>4. \E g : g = [k \in Nat |-> IF k = 0 THEN 1 ELSE 10 * g[k - 1]]
  BY <1>3
<1>5. Tens = [k \in Nat |-> IF k = 0 THEN 1 ELSE 10 * Tens[k - 1]]
  <2> DEFINE T(g) == g = [k \in Nat |-> IF k = 0 THEN 1 ELSE 10 * g[k - 1]]
  <2>1. Tens = CHOOSE g : T(g)
    BY DEF Tens
  <2>2. \E g : T(g)
    BY <1>4
  <2> HIDE DEF T
  <2>3. T(Tens)
    BY <2>1, <2>2
  <2> QED
    BY <2>3 DEF T
<1> DEFINE P == {k \in Nat : Tens[k] \in Nat \ {0}}
<1>6. 0 \in P
  BY <1>5
<1>7. ASSUME NEW k \in Nat, k \in P PROVE k + 1 \in P
  <2>1. Tens[k + 1] = 10 * Tens[k]
    BY <1>5
  <2> QED
    BY <1>7, <2>1
<1>8. Nat \subseteq P
  <2> HIDE DEF P
  <2> QED
    BY <1>6, <1>7, EveryNumber
<1> QED
  BY <1>5, <1>8

(* The next power of ten. *)
LEMMA TensMore ==
  ASSUME NEW k \in Nat
  PROVE  Tens[k] \in Nat \ {0} /\ Tens[k + 1] = 10 * Tens[k]
<1>1. k + 1 \in Nat /\ k + 1 # 0 /\ (k + 1) - 1 = k
  OBVIOUS
<1> QED
  BY <1>1, TensAre

(* Division by ten times a number is division by it and then by ten.       *)
LEMMA DivOf ==
  ASSUME NEW n \in Nat, NEW d \in Nat \ {0}, NEW q \in Nat, d * q <= n, n < d * q + d
  PROVE  n \div d = q
OBVIOUS

(* What a division leaves. *)
LEMMA DivIs ==
  ASSUME NEW n \in Nat, NEW d \in Nat \ {0}
  PROVE  n \div d \in Nat /\ d * (n \div d) <= n /\ n < d * (n \div d) + d
OBVIOUS

(* Dividing a number by a larger one. *)
LEMMA LessIsItself ==
  ASSUME NEW d \in Nat \ {0}, NEW n \in Nat, n < d
  PROVE n % d = n /\ n \div d = 0
OBVIOUS

(* Dividing by ten times as much drops the last digit. *)
LEMMA DivByTen ==
  ASSUME NEW n \in Nat, NEW d \in Nat \ {0}
  PROVE  /\ n \div (10 * d) \in Nat
         /\ n \div (10 * d) = (n \div d) \div 10
         /\ n \div (10 * d) = (n \div 10) \div d
         /\ 10 * (n \div (10 * d)) + ((n \div d) % 10) = n \div d
<1>1. PICK q \in Nat : q = n \div d /\ d * q <= n /\ n < d * q + d
  BY DivIs
<1>2. PICK a \in Nat, b \in 0 .. 9 : q = 10 * a + b /\ q \div 10 = a /\ q % 10 = b
  OBVIOUS
<1>3. PICK u \in Nat, w \in 0 .. 9 : n = 10 * u + w /\ n \div 10 = u
  OBVIOUS
<1>4. PICK da \in Nat : da = d * a /\ d * q = 10 * da + d * b
  <2>1. d * q = 10 * (d * a) + d * b
    BY <1>2
  <2> QED
    BY <2>1
<1>5. d * b \in Nat /\ d * b <= 9 * d
  BY <1>2
<1>6. 10 * da <= n /\ n < 10 * da + 10 * d
  BY <1>1, <1>4, <1>5
<1>7. (10 * d) * a = 10 * da /\ 10 * d \in Nat \ {0}
  BY <1>4
<1>8. n \div (10 * d) = a
  BY <1>6, <1>7, DivOf
<1>9. u \div d = a
  <2>1. da <= u /\ u < da + d
    BY <1>3, <1>6
  <2> QED
    BY <1>4, <2>1, DivOf
<1> QED
  BY <1>1, <1>2, <1>3, <1>8, <1>9

(* The digits of a number: D has m of them, most significant first.        *)
Digits(D, n, m) ==
    /\ D \in Seq(Nat) /\ m \in Nat \ {0} /\ Len(D) = m /\ n < Tens[m]
    /\ \A k \in 1 .. m : D[k] = 48 + ((n \div Tens[m - k]) % 10)

(* What the loop of printNumber() has for each number. *)
Prints(g, base) ==
    \A n \in Nat : /\ g[n] = (IF n < base THEN << >> ELSE g[n \div base])
                               \o <<Character(n % base)>>
                  /\ g[n] \in Seq(Nat)
                  /\ printNumber(n, base) = g[n]

(* The loop of printNumber() ends for every number, with a text. *)
LEMMA PrintNumberFrom ==
  ASSUME NEW base \in Nat, base > 1
  PROVE  \E g : Prints(g, base)
<1> DEFINE c == [n \in Nat |-> Character(n % base)]
           R == Seq(Nat)
           done == 0 .. base - 1
           start == [n \in done |-> <<c[n]>>]
           next == [n \in Nat \ done |-> n \div base]
           join == [p \in (Nat \ done) \X R |-> p[2] \o <<c[p[1]]>>]
           rank == [n \in Nat |-> n]
<1>0. \A n \in Nat : Character(n % base) \in Nat
  <2> TAKE n \in Nat
  <2>1. n % base \in 0 .. base - 1
    OBVIOUS
  <2> QED
    BY <2>1 DEF Character
<1>00. c \in [Nat -> Nat]
  BY <1>0
<1> HIDE DEF c
<1>1. Descends(Nat, R, rank, done, start, next, join)
  <2>1. rank \in [Nat -> Nat] /\ done \subseteq Nat
    OBVIOUS
  <2>2. start \in [done -> R]
    BY <1>00
  <2>3. \A n \in Nat \ done : n \div base \in Nat /\ n \div base < n
    OBVIOUS
  <2>4. next \in [Nat \ done -> Nat]
    BY <2>3
  <2>5. join \in [(Nat \ done) \X R -> R]
    <3> SUFFICES ASSUME NEW p \in (Nat \ done) \X R
                 PROVE  p[2] \o <<c[p[1]]>> \in R
      OBVIOUS
    <3>1. p[2] \in Seq(Nat) /\ c[p[1]] \in Nat
      BY <1>00
    <3> QED
      BY <3>1
  <2>6. ASSUME NEW x \in Nat \ done PROVE rank[next[x]] < rank[x]
    BY <2>3
  <2> HIDE DEF R, done, start, next, join, rank
  <2> QED
    BY <2>1, <2>2, <2>4, <2>5, <2>6 DEF Descends
<1>2. PICK f \in [Nat -> R] : Computes(f, Nat, done, start, next, join)
  <2>1. << >> \in R
    OBVIOUS
  <2> HIDE DEF R, done, start, next, join, rank
  <2> QED
    BY <1>1, <2>1, DescentDefines
<1> DEFINE T(g) == g = [n \in Nat |-> (IF n < base THEN << >> ELSE g[n \div base])
                                        \o <<Character(n % base)>>]
<1>3. ASSUME NEW n \in Nat
      PROVE  f[n] = (IF n < base THEN << >> ELSE f[n \div base]) \o <<c[n]>>
  <2>1. CASE n < base
    <3>1. f[n] = <<c[n]>>
      <4>1. n \in done /\ start[n] = <<c[n]>>
        BY <2>1
      <4>2. f[n] = start[n]
        <5> HIDE DEF R, done, start, next, join
        <5> QED
          BY <1>2, <4>1 DEF Computes
      <4> QED
        BY <4>1, <4>2
    <3>2. PICK e \in Nat : e = c[n]
      BY <1>00
    <3>3. << >> \o <<e>> = <<e>>
      OBVIOUS
    <3> QED
      BY <2>1, <3>1, <3>2, <3>3
  <2>2. CASE ~(n < base)
    <3>1. n \in Nat \ done
      BY <2>2
    <3>2. f[n] = join[<<n, f[next[n]]>>]
      <4> HIDE DEF R, done, start, next, join
      <4> QED
        BY <1>2, <3>1 DEF Computes
    <3>3. next[n] = n \div base /\ n \div base \in Nat
      BY <3>1
    <3>5. f[n \div base] \in R
      BY <1>2, <3>3
    <3>4. f[n] = f[n \div base] \o <<c[n]>>
      BY <3>1, <3>2, <3>3, <3>5
    <3> QED
      BY <2>2, <3>4
  <2> QED
    BY <2>1, <2>2
<1>4. T(f)
  BY <1>3 DEF c
<1> DEFINE g == CHOOSE g : T(g)
<1>5. T(g)
  <2> HIDE DEF T
  <2> QED
    BY <1>4
<1>6. \A n \in Nat : g[n] = (IF n < base THEN << >> ELSE g[n \div base])
                               \o <<Character(n % base)>>
  <2> HIDE DEF g
  <2> QED
    BY <1>5
<1>7. \A n \in Nat : printNumber(n, base) = g[n]
  BY DEF printNumber
<1> HIDE DEF g
<1> DEFINE Good == {n \in Nat : g[n] \in R}
<1>8. ASSUME NEW n \in Nat, \A y \in Nat : rank[y] < rank[n] => y \in Good
      PROVE  n \in Good
  <2>1. CASE n < base
    <3>1. g[n] = << >> \o <<c[n]>>
      BY <1>6, <2>1 DEF c
    <3>2. PICK e \in Nat : e = c[n]
      BY <1>00
    <3>3. << >> \o <<e>> \in R
      OBVIOUS
    <3> QED
      BY <3>1, <3>2, <3>3
  <2>2. CASE ~(n < base)
    <3>1. n \div base \in Nat /\ n \div base < n
      BY <2>2
    <3>2. n \div base \in Good
      BY <1>8, <3>1
    <3>3. g[n] = g[n \div base] \o <<c[n]>>
      BY <1>6, <2>2 DEF c
    <3>4. PICK a \in Seq(Nat), e \in Nat : a = g[n \div base] /\ e = c[n]
      BY <1>00, <3>2
    <3>5. a \o <<e>> \in Seq(Nat)
      OBVIOUS
    <3> QED
      BY <3>3, <3>4, <3>5
  <2> QED
    BY <2>1, <2>2
<1>9. Nat \subseteq Good
  <2> DEFINE D == Nat
  <2>1. \A n \in D : rank[n] \in Nat
    OBVIOUS
  <2>2. \A n \in D : (\A y \in D : rank[y] < rank[n] => y \in Good) => n \in Good
    BY <1>8
  <2> HIDE DEF D, rank, Good
  <2>3. D \subseteq Good
    BY <2>1, <2>2, ByRank
  <2> QED
    BY <2>3 DEF D
<1> QED
  BY <1>6, <1>7, <1>9 DEF Prints

(* One more digit behind the digits of a tenth. *)
LEMMA DigitsMore ==
  ASSUME NEW n \in Nat, NEW D, NEW m, Digits(D, n \div 10, m), NEW E,
         E = D \o <<Character(n % 10)>>
  PROVE  Digits(E, n, m + 1)
<1>1. /\ D \in Seq(Nat) /\ m \in Nat \ {0} /\ Len(D) = m /\ n \div 10 < Tens[m]
      /\ \A k \in 1 .. m : D[k] = 48 + (((n \div 10) \div Tens[m - k]) % 10)
  BY DEF Digits
<1>2. PICK c \in Nat : c = Character(n % 10) /\ c = 48 + (n % 10)
  BY DEF Character
<1>3. E \in Seq(Nat) /\ Len(E) = m + 1 /\ E[m + 1] = c /\ \A k \in 1 .. m : E[k] = D[k]
  BY <1>1, <1>2
<1>4. n < Tens[m + 1]
  <2>1. Tens[m + 1] = 10 * Tens[m] /\ Tens[m] \in Nat
    BY <1>1, TensMore
  <2> QED
    BY <1>1, <2>1
<1>5. ASSUME NEW k \in 1 .. m + 1
      PROVE  E[k] = 48 + ((n \div Tens[(m + 1) - k]) % 10)
  <2>1. CASE k = m + 1
    <3>1. (m + 1) - k = 0 /\ Tens[0] = 1 /\ n \div 1 = n
      BY <1>1, <2>1, TensAre
    <3> QED
      BY <1>2, <1>3, <2>1, <3>1
  <2>2. CASE k # m + 1
    <3>1. k \in 1 .. m /\ m - k \in Nat /\ (m + 1) - k = (m - k) + 1
      BY <1>1, <2>2
    <3>2. PICK d \in Nat \ {0} : d = Tens[m - k] /\ Tens[(m + 1) - k] = 10 * d
      BY <3>1, TensMore
    <3>3. n \div (10 * d) = (n \div 10) \div d
      BY DivByTen
    <3> QED
      BY <1>1, <1>3, <3>1, <3>2, <3>3
  <2> QED
    BY <2>1, <2>2
<1> QED
  BY <1>1, <1>3, <1>4, <1>5 DEF Digits

(* printNumber() writes the digits. *)
LEMMA PrintNumberIs ==
  ASSUME NEW n \in Nat
  PROVE  \E m \in Nat : Digits(printNumber(n, 10), n, m)
<1>0. PICK g : Prints(g, 10)
  BY PrintNumberFrom
<1>1. \A k \in Nat : /\ g[k] = (IF k < 10 THEN << >> ELSE g[k \div 10])
                                 \o <<Character(k % 10)>>
                    /\ printNumber(k, 10) = g[k]
  BY <1>0 DEF Prints
<1> DEFINE D == Nat
           rank == [k \in Nat |-> k]
           Good == {k \in Nat : \E m \in Nat : Digits(g[k], k, m)}
<1>2. ASSUME NEW k \in D, \A y \in D : rank[y] < rank[k] => y \in Good
      PROVE  k \in Good
  <2>1. CASE k < 10
    <3>1. PICK c \in Nat : c = Character(k % 10) /\ c = 48 + k
      BY <2>1 DEF Character
    <3>2. << >> \o <<c>> = <<c>>
      OBVIOUS
    <3>3. g[k] = <<c>>
      BY <1>1, <2>1, <3>1, <3>2
    <3>4. Tens[1] = 10 /\ Tens[1 - 1] = 1
      BY TensAre
    <3>5. k \div 1 = k /\ k % 10 = k
      BY <2>1
    <3>6. <<c>> \in Seq(Nat) /\ Len(<<c>>) = 1 /\ <<c>>[1] = c
      OBVIOUS
    <3>7. Digits(g[k], k, 1)
      <4>1. \A i \in 1 .. 1 : <<c>>[i] = 48 + ((k \div Tens[1 - i]) % 10)
        BY <3>1, <3>4, <3>5, <3>6
      <4> QED
        BY <2>1, <3>3, <3>4, <3>6, <4>1 DEF Digits
    <3> QED
      BY <3>7
  <2>2. CASE ~(k < 10)
    <3>1. k \div 10 \in Nat /\ k \div 10 < k
      BY <2>2
    <3>2. PICK m \in Nat : Digits(g[k \div 10], k \div 10, m)
      <4>1. k \div 10 \in Good
        BY <1>2, <3>1
      <4> QED
        BY <4>1
    <3>3. PICK E, F : /\ E = g[k] /\ F = g[k \div 10]
                      /\ E = F \o <<Character(k % 10)>>
      BY <1>1, <2>2
    <3>4. Digits(E, k, m + 1)
      BY <3>2, <3>3, DigitsMore
    <3>5. m + 1 \in Nat /\ Digits(g[k], k, m + 1)
      BY <3>3, <3>4
    <3> QED
      BY <3>5
  <2> QED
    BY <2>1, <2>2
<1>3. D \subseteq Good
  <2>1. \A k \in D : rank[k] \in Nat
    OBVIOUS
  <2>2. \A k \in D : (\A y \in D : rank[y] < rank[k] => y \in Good) => k \in Good
    BY <1>2
  <2> HIDE DEF D, rank, Good
  <2> QED
    BY <2>1, <2>2, ByRank
<1> QED
  BY <1>1, <1>3

-----------------------------------------------------------------------------
(* The number that the peer has printed, and that String prints alike. *)
NumberTypeOK ==
    \/ number = None
    \/ /\ number \in [v : Int, places : Nat, asked : BOOLEAN]
       /\ number.v \div Unit \in Signed(Longs)

(* A history of a number holds a long, or thousandths that begin with one. *)
LEMMA NumberTyped == Spec => []NumberTypeOK
<1>1. Init => NumberTypeOK
  BY DEF Init, NumberTypeOK
<1>2. NumberTypeOK /\ [Next]_vars => NumberTypeOK'
  <2> SUFFICES ASSUME NumberTypeOK, [Next]_vars
               PROVE  NumberTypeOK'
    OBVIOUS
  <2>1. CASE Peer
    <3>1. ASSUME NEW v \in Numbers, Printed(print(v, 10), v * Unit, 0)
          PROVE  NumberTypeOK'
      <4>1. v \in Signed(Longs) /\ v \in Int /\ (v * Unit) \div Unit = v /\ v * Unit \in Int
        BY NumbersAssumption, LongAssumption DEF Signed, Unit
      <4> QED
        BY <3>1, <4>1 DEF Printed, PeerSays, NumberTypeOK
    <3>2. ASSUME NEW v \in Thousandths, NEW p \in Places, Printed(printFloat(v, p), v, p)
          PROVE  NumberTypeOK'
      <4>1. v \in Int /\ v \div Unit \in Signed(Longs) /\ p \in Nat
        BY NumbersAssumption
      <4> QED
        BY <3>2, <4>1 DEF Printed, PeerSays, NumberTypeOK
    <3>3. ASSUME NEW s \in Sent, PeerSays(s, None)
          PROVE  NumberTypeOK'
      BY <3>3 DEF PeerSays, NumberTypeOK
    <3> QED
      BY <2>1, <3>1, <3>2, <3>3 DEF Peer
  <2>2. CASE Parses
    BY <2>2 DEF Parses, NumberTypeOK
  <2>3. CASE ReadsText
    BY <2>3 DEF ReadsText, NumberTypeOK
  <2>4. CASE UNCHANGED number
    BY <2>4 DEF NumberTypeOK
  <2> QED
    BY <2>1, <2>2, <2>3, <2>4
    DEF Next, OnStream, OnString, Step, Tick, vars
<1> QED
  BY <1>1, <1>2, PTL DEF Spec

(* A number below the width of a long does not overflow it. *)
LEMMA ModIsItself ==
  ASSUME NEW d \in Nat, NEW n \in Nat, n < d
  PROVE  n % d = n
OBVIOUS

(* String's conversions and print()'s, on every long. *)
LEMMA LongsAlike ==
  ASSUME NEW v \in Signed(Longs)
  PROVE  /\ concat(v, 10) = print(v, 10)
         /\ v >= 0 => \A base \in {2, 8, 16} :
               /\ concat(v, base) = print(v, base)
               /\ concatUnsigned(v, base) = printNumber(v, base)
<1>1. PICK h \in Nat : h = Longs \div 2 /\ Longs = 2 * h /\ h > 0
  BY LongAssumption
<1>2. v \in Int /\ -h <= v /\ v < h
  BY <1>1 DEF Signed
<1>3. Longs \in Nat /\ LongLongs \in Nat /\ LongLongs >= Longs
  BY LongAssumption
<1>4. CASE v < 0
  <2>1. -v \in Nat /\ -v < Longs
    BY <1>1, <1>2, <1>4
  <2>2. AsUnsigned(-v, Longs) = -v
    BY <1>3, <2>1, ModIsItself DEF AsUnsigned
  <2>3. concat(v, 10) = <<Minus>> \o printNumber(-v, 10)
    BY <1>4, <2>2 DEF concat
  <2>4. print(v, 10) = <<Minus>> \o printNumber(-v, 10)
    BY <1>4 DEF print
  <2>5. ~(v >= 0)
    BY <1>2, <1>4
  <2> QED
    BY <2>3, <2>4, <2>5
<1>5. CASE v >= 0
  <2>1. v \in Nat /\ v < Longs /\ v < LongLongs
    BY <1>1, <1>2, <1>3, <1>5
  <2>2. AsUnsigned(v, Longs) = v /\ AsUnsigned(v, LongLongs) = v
    BY <1>3, <2>1, ModIsItself DEF AsUnsigned
  <2>3. AsSigned(v, Longs) = v
    BY <1>1, <1>2 DEF AsSigned
  <2>0. ~(v < 0)
    BY <1>2, <1>5
  <2>4. \A base : concat(v, base) = printNumber(v, base) /\ print(v, base) = printNumber(v, base)
    <3> TAKE base
    <3>1. concat(v, base) = printNumber(AsUnsigned(v, Longs), base)
      BY <2>0 DEF concat
    <3>2. print(v, base) = printNumber(AsUnsigned(v, LongLongs), base)
      BY <2>0 DEF print
    <3> QED
      BY <2>2, <3>1, <3>2
  <2>5. \A base : concatUnsigned(v, base) = printNumber(v, base)
    BY <2>3, <2>4 DEF concatUnsigned
  <2> QED
    BY <2>4, <2>5
<1> QED
  BY <1>2, <1>4, <1>5

(* What String makes of the number is what print() prints. *)
LEMMA PrintsAlike == NumberTypeOK => StringsPrintLikePrint
<1> SUFFICES ASSUME NumberTypeOK, number # None
             PROVE  IF number.places > 0
                    THEN appendFloat(number.v, number.places)
                           = printFloat(number.v, number.places)
                    ELSE number.v % Unit = 0 =>
                           /\ concat(number.v \div Unit, 10) = print(number.v \div Unit, 10)
                           /\ number.v \div Unit >= 0 => \A base \in {2, 8, 16} :
                                 /\ concat(number.v \div Unit, base)
                                      = print(number.v \div Unit, base)
                                 /\ concatUnsigned(number.v \div Unit, base)
                                      = printNumber(number.v \div Unit, base)
  BY DEF StringsPrintLikePrint
<1>1. number.places \in Nat /\ number.v \div Unit \in Signed(Longs)
  BY DEF NumberTypeOK
<1>2. CASE number.places > 0
  <2>1. number.places # 0
    BY <1>1, <1>2
  <2> QED
    BY <1>2, <2>1 DEF appendFloat, printFloat
<1>3. CASE ~(number.places > 0)
  BY <1>1, <1>3, LongsAlike
<1> QED
  BY <1>2, <1>3

(* A String made of a number is what print() prints of it, for every width *)
(* of a long: the two conversions of Print.cpp and WString.cpp agree.      *)
THEOREM StringPrints == Spec => []StringsPrintLikePrint
  BY NumberTyped, PrintsAlike, PTL

-----------------------------------------------------------------------------
(* A digit of a number in ten, and the number without what is behind it.   *)
DigitOf(w, k) == 48 + ((w \div Tens[k]) % 10)
Upper(w, k) == w \div Tens[k]

(* Every digit is one, and is what the next longer beginning adds. *)
LEMMA UpperIs ==
  ASSUME NEW w \in Nat, NEW k \in Nat
  PROVE  /\ Upper(w, k) \in Nat /\ Upper(w, k + 1) \in Nat
         /\ DigitOf(w, k) \in 48 .. 57
         /\ 10 * Upper(w, k + 1) + (DigitOf(w, k) - 48) = Upper(w, k)
<1>1. PICK t \in Nat \ {0} : t = Tens[k] /\ Tens[k + 1] = 10 * t
  BY TensMore
<1>2. /\ w \div (10 * t) \in Nat
      /\ 10 * (w \div (10 * t)) + ((w \div t) % 10) = w \div t
  BY DivByTen
<1>3. w \div t \in Nat
  BY DivIs
<1>4. PICK q \in Nat, r \in Nat : q = w \div t /\ r = w \div (10 * t)
  BY <1>2, <1>3
<1>5. Upper(w, k) = q /\ Upper(w, k + 1) = r /\ DigitOf(w, k) = 48 + (q % 10)
  BY <1>1, <1>4 DEF Upper, DigitOf
<1>6. 10 * r + (q % 10) = q
  BY <1>2, <1>4
<1> QED
  BY <1>5, <1>6

(* All digits are the number, none of them nothing. *)
LEMMA UpperEnds ==
  ASSUME NEW w \in Nat
  PROVE  /\ Upper(w, 0) = w
         /\ \A k \in Nat : w < Tens[k] => Upper(w, k) = 0
<1>1. Upper(w, 0) = w
  BY TensAre DEF Upper
<1>2. ASSUME NEW k \in Nat, w < Tens[k]
      PROVE  Upper(w, k) = 0
  <2>1. PICK t \in Nat \ {0} : t = Tens[k]
    BY TensAre
  <2> QED
    BY <1>2, <2>1, LessIsItself DEF Upper
<1> QED
  BY <1>1, <1>2

(* What the peer has printed, s: what is left of the lines before, up to   *)
(* l; a sign, unless f is l; the digits of a whole number w, up to m; a    *)
(* point and the digits of a fraction g, up to e, unless e is m; and the   *)
(* end of the line.                                                        *)
Spells(s, l, f, m, w, e, g) ==
    /\ s \in Seq(Nat) /\ Len(s) = e + 2
    /\ l \in Nat /\ f \in Nat /\ m \in Nat /\ w \in Nat /\ e \in Nat /\ g \in Nat
    /\ f = l \/ (f = l + 1 /\ s[f] = Minus)
    /\ m > f /\ w < Tens[m - f]
    /\ e = m \/ (e > m + 1 /\ s[m + 1] = Point /\ g < Tens[e - (m + 1)])
    /\ \A n \in 1 .. l : s[n] \in {CR, LF}
    /\ \A n \in f + 1 .. m : s[n] = DigitOf(w, m - n)
    /\ \A n \in m + 2 .. e : s[n] = DigitOf(g, e - n)
    /\ s[e + 1] = CR

(* The number it stands for. *)
Stands(l, f, m, w, e, g, v, p) ==
    /\ v \in Int /\ (f # l <=> v < 0)
    /\ p = IF e = m THEN 0 ELSE e - (m + 1)
    /\ Abs(w * Unit - Abs(v)) < Unit
    /\ p # 0 => 2 * Abs((w * Tens[p] + g) * Unit - Abs(v) * Tens[p]) <= Unit

(* The first n bytes of the text are read, the others are in the stream. *)
Ahead(s, n) ==
    /\ n \in Nat /\ Len(s) = n + Len(ready) + Len(wire)
    /\ \A i \in 1 .. Len(ready) : ready[i] = s[n + i]
    /\ \A i \in 1 .. Len(wire) : wire[i] = s[n + Len(ready) + i]

(* What a call that parses knows after n bytes. *)
Knows(c, n, l, f, m, w, e, g) ==
    \/ /\ c.phase = "skip" /\ n \in 0 .. l
       /\ c.value = 0 /\ c.places = 0 /\ ~c.negative
    \/ /\ c.phase = "digits" /\ n \in f .. m
       /\ c.value = Upper(w, m - n) /\ c.places = 0 /\ (c.negative <=> f # l)
    \/ /\ c.phase = "fraction" /\ e # m /\ n \in m + 1 .. e /\ c.ends # {}
       /\ c.value = w * Tens[n - (m + 1)] + Upper(g, e - n)
       /\ c.places = n - (m + 1) /\ (c.negative <=> f # l)

ReadsBack(v, p) ==
    /\ Answered("parse")
    /\ ~answer.late =>
         IF answer.of.ends = {} \/ p = 0
         THEN Abs(answer.value.n * Unit - v) < Unit
         ELSE /\ answer.value.places = p
              /\ 2 * Abs(answer.value.n * Unit - v * Tens[p]) <= Unit

Parsed(c) == c.op = "parse" /\ c.skips = Space /\ c.ends \in {{}, {Point}}

(* The printout is still to be read, being read, or read back. *)
Follows(s, l, f, m, w, e, g) ==
    /\ Spells(s, l, f, m, w, e, g)
    /\ Stands(l, f, m, w, e, g, number.v, number.places)
    /\ ~number.asked => call = NoCall /\ Ahead(s, 0)
    /\ number.asked /\ call # NoCall =>
         /\ Parsed(call) /\ Ahead(s, Len(taken))
         /\ Knows(call, Len(taken), l, f, m, w, e, g)
    /\ number.asked /\ call = NoCall => ReadsBack(number.v, number.places)

NumberInv ==
    number = None \/
    \E s \in Seq(Nat), l, f, m, w, e, g \in Nat : Follows(s, l, f, m, w, e, g)

(* The bytes of the stream. *)
StreamBytes == wire \in Seq(Nat) /\ ready \in Seq(Nat)

(* A byte that arrives is the next of the text, and so is one that is read. *)
LEMMA AheadArrives ==
  ASSUME StreamBytes, Arrives, NEW s, NEW n, Ahead(s, n)
  PROVE  Ahead(s, n)'
<1>1. /\ wire \in Seq(Nat) /\ wire # << >> /\ ready \in Seq(Nat)
      /\ Head(wire) = wire[1] /\ Len(wire) \in Nat \ {0} /\ Len(ready) \in Nat
  BY DEF StreamBytes, Arrives
<1>2. /\ ready' = Append(ready, Head(wire)) /\ Len(ready') = Len(ready) + 1
      /\ \A i \in 1 .. Len(ready) : ready'[i] = ready[i]
      /\ ready'[Len(ready) + 1] = wire[1]
  BY <1>1 DEF Arrives
<1>3. /\ wire' = Tail(wire) /\ Len(wire') = Len(wire) - 1
      /\ \A i \in 1 .. Len(wire) - 1 : wire'[i] = wire[i + 1]
  BY <1>1 DEF Arrives
<1>4. n \in Nat /\ Len(s) = n + Len(ready)' + Len(wire)'
  BY <1>1, <1>2, <1>3 DEF Ahead
<1>5. ASSUME NEW i \in 1 .. Len(ready')
      PROVE  ready'[i] = s[n + i]
  <2>1. CASE i \in 1 .. Len(ready)
    BY <1>2, <2>1 DEF Ahead
  <2>2. CASE i = Len(ready) + 1
    <3>1. wire[1] = s[n + Len(ready) + 1]
      BY <1>1, 1 \in 1 .. Len(wire) DEF Ahead
    <3>2. n + Len(ready) + 1 = n + (Len(ready) + 1)
      BY <1>1, <1>4
    <3> QED
      BY <1>2, <2>2, <3>1, <3>2
  <2> QED
    BY <1>1, <1>2, <2>1, <2>2
<1>6. ASSUME NEW i \in 1 .. Len(wire')
      PROVE  wire'[i] = s[n + Len(ready') + i]
  <2>1. i + 1 \in 1 .. Len(wire) /\ wire'[i] = wire[i + 1]
    BY <1>1, <1>3
  <2>2. wire[i + 1] = s[n + Len(ready) + (i + 1)]
    BY <2>1 DEF Ahead
  <2>3. n + Len(ready) + (i + 1) = n + Len(ready') + i
    BY <1>1, <1>2, <1>4
  <2> QED
    BY <2>1, <2>2, <2>3
<1> QED
  BY <1>4, <1>5, <1>6 DEF Ahead

LEMMA AheadTakes ==
  ASSUME StreamBytes, ready # << >>, NEW s, NEW n, Ahead(s, n)
  PROVE  /\ n \in Nat /\ n < Len(s) /\ Byte = s[n + 1]
         /\ Taking => Ahead(s, n + 1)'
<1>1. /\ ready \in Seq(Nat) /\ Head(ready) = ready[1] /\ Len(ready) \in Nat \ {0}
      /\ Len(wire) \in Nat
  BY DEF StreamBytes
<1>2. n \in Nat /\ n < Len(s) /\ Byte = s[n + 1]
  BY <1>1 DEF Ahead, Byte
<1>3. ASSUME Taking
      PROVE  Ahead(s, n + 1)'
  <2>1. /\ ready' = Tail(ready) /\ Len(ready') = Len(ready) - 1 /\ wire' = wire
        /\ \A i \in 1 .. Len(ready) - 1 : ready'[i] = ready[i + 1]
    BY <1>1, <1>3 DEF Taking
  <2>2. n + 1 \in Nat /\ Len(s) = (n + 1) + Len(ready)' + Len(wire)'
    BY <1>1, <1>2, <2>1 DEF Ahead
  <2>3. ASSUME NEW i \in 1 .. Len(ready')
        PROVE  ready'[i] = s[(n + 1) + i]
    <3>1. i + 1 \in 1 .. Len(ready) /\ ready'[i] = ready[i + 1]
      BY <1>1, <2>1
    <3>2. ready[i + 1] = s[n + (i + 1)]
      BY <3>1 DEF Ahead
    <3>3. n + (i + 1) = (n + 1) + i
      BY <1>2
    <3> QED
      BY <3>1, <3>2, <3>3
  <2>4. ASSUME NEW i \in 1 .. Len(wire')
        PROVE  wire'[i] = s[(n + 1) + Len(ready') + i]
    <3>1. wire[i] = s[n + Len(ready) + i]
      BY <2>1 DEF Ahead
    <3>2. n + Len(ready) + i = (n + 1) + Len(ready') + i
      BY <1>1, <1>2, <2>1
    <3> QED
      BY <2>1, <3>1, <3>2
  <2> QED
    BY <2>2, <2>3, <2>4 DEF Ahead
<1> QED
  BY <1>2, <1>3

(* The next byte of a printout, for each thing a call may know. *)
LEMMA SkipByte ==
  ASSUME NEW s, NEW l, NEW f, NEW m, NEW w, NEW e, NEW g, Spells(s, l, f, m, w, e, g),
         NEW n \in 0 .. l
  PROVE  \/ n < l /\ s[n + 1] \in {CR, LF}
         \/ n = l /\ f = n + 1 /\ s[n + 1] = Minus
         \/ /\ n = l /\ f = n /\ s[n + 1] \in 48 .. 57
            /\ s[n + 1] - 48 = Upper(w, m - (n + 1))
<1>1. /\ l \in Nat /\ f \in Nat /\ m \in Nat /\ w \in Nat /\ m > f /\ n \in Nat
      /\ f = l \/ (f = l + 1 /\ s[f] = Minus)
  BY DEF Spells
<1>2. CASE n < l
  <2>1. n + 1 \in 1 .. l
    BY <1>1, <1>2
  <2> QED
    BY <1>2, <2>1 DEF Spells
<1>3. CASE n = l /\ f # l
  BY <1>1, <1>3
<1>4. CASE n = l /\ f = l
  <2>1. n + 1 \in f + 1 .. m /\ m - (n + 1) \in Nat /\ (m - (n + 1)) + 1 = m - f
        /\ m - f \in Nat
    BY <1>1, <1>4
  <2>2. s[n + 1] = DigitOf(w, m - (n + 1)) /\ w < Tens[m - f]
    BY <2>1 DEF Spells
  <2>3. PICK k \in Nat : k = m - (n + 1) /\ k + 1 = m - f
    BY <2>1
  <2>4. /\ Upper(w, k) \in Nat /\ DigitOf(w, k) \in 48 .. 57
        /\ 10 * Upper(w, k + 1) + (DigitOf(w, k) - 48) = Upper(w, k)
    BY <1>1, UpperIs
  <2>5. Upper(w, k + 1) = 0
    BY <1>1, <2>1, <2>2, <2>3, UpperEnds
  <2> QED
    BY <1>4, <2>2, <2>3, <2>4, <2>5
<1> QED
  BY <1>1, <1>2, <1>3, <1>4

(* Among the digits of the whole number, and behind them. *)
LEMMA WholeByte ==
  ASSUME NEW s, NEW l, NEW f, NEW m, NEW w, NEW e, NEW g, Spells(s, l, f, m, w, e, g),
         NEW n \in f .. m
  PROVE  /\ Upper(w, m - n) \in Nat
         /\ \/ /\ n < m /\ s[n + 1] \in 48 .. 57
               /\ 10 * Upper(w, m - n) + (s[n + 1] - 48) = Upper(w, m - (n + 1))
            \/ n = m /\ Upper(w, m - n) = w /\ e # m /\ s[n + 1] = Point
            \/ n = m /\ Upper(w, m - n) = w /\ e = m /\ s[n + 1] = CR
<1>1. /\ f \in Nat /\ m \in Nat /\ w \in Nat /\ n \in Nat
      /\ e = m \/ (e > m + 1 /\ s[m + 1] = Point)
      /\ s[e + 1] = CR
  BY DEF Spells
<1>2. CASE n < m
  <2>1. n + 1 \in f + 1 .. m
    BY <1>1, <1>2
  <2>2. s[n + 1] = DigitOf(w, m - (n + 1))
    BY <2>1 DEF Spells
  <2>3. PICK k \in Nat : k = m - (n + 1) /\ k + 1 = m - n
    BY <1>1, <1>2
  <2>4. /\ Upper(w, k + 1) \in Nat /\ DigitOf(w, k) \in 48 .. 57
        /\ 10 * Upper(w, k + 1) + (DigitOf(w, k) - 48) = Upper(w, k)
    BY <1>1, UpperIs
  <2> QED
    BY <1>2, <2>2, <2>3, <2>4
<1>3. CASE n = m
  <2>1. m - n = 0 /\ Upper(w, 0) = w
    BY <1>1, <1>3, UpperEnds
  <2>2. e = m => s[n + 1] = CR
    BY <1>3 DEF Spells
  <2> QED
    BY <1>1, <1>3, <2>1, <2>2
<1> QED
  BY <1>1, <1>2, <1>3

(* Among the digits of the fraction, and behind them. *)
LEMMA FractionByte ==
  ASSUME NEW s, NEW l, NEW f, NEW m, NEW w, NEW e, NEW g, Spells(s, l, f, m, w, e, g),
         e # m, NEW n \in m + 1 .. e
  PROVE  /\ Upper(g, e - n) \in Nat
         /\ \/ /\ n < e /\ s[n + 1] \in 48 .. 57
               /\ 10 * Upper(g, e - n) + (s[n + 1] - 48) = Upper(g, e - (n + 1))
            \/ n = e /\ Upper(g, e - n) = g /\ s[n + 1] = CR
<1>1. m \in Nat /\ e \in Nat /\ g \in Nat /\ n \in Nat /\ s[e + 1] = CR
  BY DEF Spells
<1>2. CASE n < e
  <2>1. n + 1 \in m + 2 .. e
    BY <1>1, <1>2
  <2>2. s[n + 1] = DigitOf(g, e - (n + 1))
    BY <2>1 DEF Spells
  <2>3. PICK k \in Nat : k = e - (n + 1) /\ k + 1 = e - n
    BY <1>1, <1>2
  <2>4. /\ Upper(g, k + 1) \in Nat /\ DigitOf(g, k) \in 48 .. 57
        /\ 10 * Upper(g, k + 1) + (DigitOf(g, k) - 48) = Upper(g, k)
    BY <1>1, UpperIs
  <2> QED
    BY <1>2, <2>2, <2>3, <2>4
<1>3. CASE n = e
  <2>1. e - n = 0 /\ Upper(g, 0) = g
    BY <1>1, <1>3, UpperEnds
  <2> QED
    BY <1>1, <1>3, <2>1
<1> QED
  BY <1>1, <1>2, <1>3

-----------------------------------------------------------------------------
(* A call that parses. *)
LEMMA ParsingIs ==
  ASSUME StreamTypeOK, Parsed(call)
  PROVE  /\ call \in ParseCall /\ call # NoCall
         /\ call.op = "parse" /\ call.at \in Ats /\ call.skips = Space
         /\ call.ends = {} \/ call.ends = {46}
         /\ call.phase \in {"skip", "digits", "fraction"}
         /\ call.negative \in BOOLEAN /\ call.value \in Int /\ call.places \in Nat
<1>1. call.op = "parse" /\ call.skips = Space /\ (call.ends = {} \/ call.ends = {46})
  BY DEF Parsed, Point
<1>2. call \in ParseCall
  <2>1. call # NoCall /\ call \notin FindCall /\ call \notin UntilCall /\ call \notin BytesCall
    BY <1>1 DEF NoCall, FindCall, UntilCall, BytesCall
  <2> QED
    BY <2>1 DEF StreamTypeOK
<1> QED
  BY <1>1, <1>2 DEF ParseCall, NoCall

(* What parsing keeps and changes. *)
Updates(c, negative, value, places, phase) ==
    /\ c.op = "parse" /\ c.skips = Space /\ c.ends = call.ends /\ c # NoCall
    /\ c.negative = negative /\ c.value = value /\ c.places = places /\ c.phase = phase

(* What a byte that is read does to the call, of the four things it may be. *)
LEMMA ParseUpdates ==
  ASSUME StreamTypeOK, Parsed(call), ParseStep
  PROVE  /\ Taking
         /\ \/ /\ call.phase = "skip" /\ ~Digit /\ Byte # 45
               /\ Updates(call', call.negative, call.value, call.places, "skip")
            \/ /\ call.phase = "skip" /\ Byte = 45
               /\ Updates(call', TRUE, call.value, call.places, "digits")
            \/ /\ Digit
               /\ Updates(call', call.negative, 10 * call.value + Byte - 48,
                          IF call.phase = "fraction" THEN call.places + 1 ELSE call.places,
                          IF call.phase = "skip" THEN "digits" ELSE call.phase)
            \/ /\ Byte \in call.ends /\ call.phase # "fraction"
               /\ Updates(call', call.negative, call.value, call.places, "fraction")
<1>1. /\ call \in ParseCall /\ call # NoCall /\ call.op = "parse" /\ call.skips = Space
  BY ParsingIs
<1>2. CASE /\ call.phase = "skip" /\ ~Digit /\ Byte # 45
           /\ Reads(call)
  BY <1>1, <1>2 DEF Reads, Continues, Updates
<1>3. CASE /\ call.phase = "skip" /\ Byte = 45
           /\ Reads([call EXCEPT !.negative = TRUE, !.phase = "digits"])
  <2>1. Taking /\ call' = [call EXCEPT !.negative = TRUE, !.phase = "digits"]
    BY <1>3 DEF Reads, Continues
  <2>2. Updates(call', TRUE, call.value, call.places, "digits")
    BY <1>1, <2>1 DEF ParseCall, Updates, NoCall
  <2> QED
    BY <1>3, <2>1, <2>2
<1>4. CASE /\ Digit
           /\ Reads([call EXCEPT
                      !.value = 10 * @ + Byte - 48,
                      !.phase = IF @ = "skip" THEN "digits" ELSE @,
                      !.places = IF call.phase = "fraction" THEN @ + 1 ELSE @])
  <2>1. /\ Taking
        /\ call' = [call EXCEPT
                      !.value = 10 * @ + Byte - 48,
                      !.phase = IF @ = "skip" THEN "digits" ELSE @,
                      !.places = IF call.phase = "fraction" THEN @ + 1 ELSE @]
    BY <1>4 DEF Reads, Continues
  <2>2. Updates(call', call.negative, 10 * call.value + Byte - 48,
                IF call.phase = "fraction" THEN call.places + 1 ELSE call.places,
                IF call.phase = "skip" THEN "digits" ELSE call.phase)
    BY <1>1, <2>1 DEF ParseCall, Updates, NoCall
  <2> QED
    BY <1>4, <2>1, <2>2
<1>5. CASE /\ Byte \in call.ends /\ call.phase # "fraction"
           /\ Reads([call EXCEPT !.phase = "fraction"])
  <2>1. Taking /\ call' = [call EXCEPT !.phase = "fraction"]
    BY <1>5 DEF Reads, Continues
  <2>2. Updates(call', call.negative, call.value, call.places, "fraction")
    BY <1>1, <2>1 DEF ParseCall, Updates, NoCall
  <2> QED
    BY <1>5, <2>1, <2>2
<1> QED
  BY <1>2, <1>3, <1>4, <1>5 DEF ParseStep

(* A whole number and the first k digits of a fraction, without its point. *)
Joined(v, w, k, u) == v = w * Tens[k] + u

(* One more decimal shifts both. *)
LEMMA OneMoreDecimal ==
  ASSUME NEW w \in Nat, NEW k \in Nat, NEW u \in Nat, NEW b \in Int, NEW v \in Int,
         Joined(v, w, k, u),
         NEW v2 \in Int, v2 = 10 * v + b - 48, NEW u2 \in Int, u2 = 10 * u + (b - 48)
  PROVE  Joined(v2, w, k + 1, u2)
<1>1. PICK t \in Nat : t = Tens[k] /\ Tens[k + 1] = 10 * t
  BY TensMore
<1>2. PICK x \in Nat : x = w * t
  OBVIOUS
<1>3. w * (10 * t) = 10 * x
  BY <1>2
<1>4. v = x + u
  BY <1>1, <1>2 DEF Joined
<1>5. PICK y \in Nat : y = w * Tens[k + 1] /\ y = 10 * x
  BY <1>1, <1>2, <1>3
<1>6. v2 = y + u2
  BY <1>4, <1>5
<1> QED
  BY <1>5, <1>6 DEF Joined

(* A byte that is read keeps what the call knows true. *)
LEMMA ParseStepKnows ==
  ASSUME StreamTypeOK, StreamBytes, Parsed(call), ParseStep,
         NEW s, NEW l, NEW f, NEW m, NEW w, NEW e, NEW g, Spells(s, l, f, m, w, e, g),
         Ahead(s, Len(taken)), Knows(call, Len(taken), l, f, m, w, e, g)
  PROVE  /\ call' # NoCall /\ Parsed(call') /\ Ahead(s, Len(taken))'
         /\ Knows(call', Len(taken'), l, f, m, w, e, g)
<1>1. PICK n \in Nat : n = Len(taken)
  BY DEF Ahead
<1>2. /\ call.op = "parse" /\ call.skips = Space
      /\ call.ends = {} \/ call.ends = {46}
      /\ call.phase \in {"skip", "digits", "fraction"}
      /\ call.negative \in BOOLEAN /\ call.value \in Int /\ call.places \in Nat
  BY ParsingIs
<1>3. /\ Taking
      /\ \/ /\ call.phase = "skip" /\ ~Digit /\ Byte # 45
            /\ Updates(call', call.negative, call.value, call.places, "skip")
         \/ /\ call.phase = "skip" /\ Byte = 45
            /\ Updates(call', TRUE, call.value, call.places, "digits")
         \/ /\ Digit
            /\ Updates(call', call.negative, 10 * call.value + Byte - 48,
                       IF call.phase = "fraction" THEN call.places + 1 ELSE call.places,
                       IF call.phase = "skip" THEN "digits" ELSE call.phase)
         \/ /\ Byte \in call.ends /\ call.phase # "fraction"
            /\ Updates(call', call.negative, call.value, call.places, "fraction")
  BY ParseUpdates
<1>4. call' # NoCall /\ Parsed(call')
  BY <1>2, <1>3 DEF Updates, Parsed, Point
<1>5. Len(taken') = n + 1
  <2>1. OneMore(taken, Byte, taken')
    BY <1>3, AppendIsOneMore DEF Taking, StreamTypeOK
  <2> QED
    BY <1>1, <2>1 DEF OneMore
<1>6. ready # << >> /\ Byte = s[n + 1] /\ Ahead(s, n + 1)'
  <2>1. ready # << >>
    BY DEF ParseStep, Looked
  <2>2. Byte = s[n + 1] /\ (Taking => Ahead(s, n + 1)')
    BY <1>1, <2>1, AheadTakes
  <2> QED
    BY <1>3, <2>1, <2>2
<1>7. Ahead(s, Len(taken))'
  BY <1>5, <1>6 DEF Ahead
<1>8. /\ l \in Nat /\ f \in Nat /\ m \in Nat /\ w \in Nat /\ e \in Nat /\ g \in Nat
      /\ m > f /\ (f = l \/ f = l + 1) /\ (e = m \/ e > m + 1)
  BY DEF Spells
<1>9. Digit <=> s[n + 1] \in 48 .. 57
  BY <1>6 DEF Digit
<1>10. CASE call.phase = "skip"
  <2>1. n \in 0 .. l /\ call.value = 0 /\ call.places = 0 /\ ~call.negative
    BY <1>1, <1>10 DEF Knows
  <2>2. CASE n < l /\ s[n + 1] \in {CR, LF}
    <3>1. Byte # 45 /\ ~Digit /\ Byte # 46
      BY <1>6, <1>9, <2>2 DEF CR, LF
    <3>2. Updates(call', call.negative, call.value, call.places, "skip")
      BY <1>2, <1>3, <1>10, <3>1
    <3>3. n + 1 \in 0 .. l
      BY <1>8, <2>2
    <3> QED
      BY <1>4, <1>5, <1>7, <2>1, <3>2, <3>3 DEF Updates, Knows
  <2>3. CASE n = l /\ f = n + 1 /\ s[n + 1] = Minus
    <3>1. Byte = 45 /\ ~Digit /\ Byte # 46
      BY <1>6, <1>9, <2>3 DEF Minus
    <3>2. Updates(call', TRUE, call.value, call.places, "digits")
      BY <1>2, <1>3, <1>10, <3>1
    <3>3. n + 1 \in f .. m /\ n + 1 = f /\ f # l /\ m - (n + 1) = m - f /\ m - f \in Nat
      BY <1>8, <2>3
    <3>4. Upper(w, m - (n + 1)) = 0
      <4>1. w < Tens[m - f]
        BY DEF Spells
      <4> QED
        BY <1>8, <3>3, <4>1, UpperEnds
    <3> QED
      BY <1>4, <1>5, <1>7, <2>1, <3>2, <3>3, <3>4 DEF Updates, Knows
  <2>4. CASE /\ n = l /\ f = n /\ s[n + 1] \in 48 .. 57
             /\ s[n + 1] - 48 = Upper(w, m - (n + 1))
    <3>1. Byte # 45 /\ Digit /\ Byte # 46 /\ Byte \in 48 .. 57
      BY <1>6, <1>9, <2>4
    <3>2. Updates(call', call.negative, 10 * call.value + Byte - 48, call.places, "digits")
      BY <1>2, <1>3, <1>10, <3>1
    <3>3. n + 1 \in f .. m /\ f = l
      BY <1>8, <2>4
    <3>4. 10 * call.value + Byte - 48 = Upper(w, m - (n + 1))
      BY <1>6, <2>1, <2>4, <3>1
    <3> QED
      BY <1>4, <1>5, <1>7, <2>1, <3>2, <3>3, <3>4 DEF Updates, Knows
  <2> QED
    BY <2>1, <2>2, <2>3, <2>4, SkipByte
<1>11. CASE call.phase = "digits"
  <2>1. /\ n \in f .. m /\ call.value = Upper(w, m - n) /\ call.places = 0
        /\ (call.negative <=> f # l)
    BY <1>1, <1>11 DEF Knows
  <2>2. CASE /\ n < m /\ s[n + 1] \in 48 .. 57
             /\ 10 * Upper(w, m - n) + (s[n + 1] - 48) = Upper(w, m - (n + 1))
    <3>1. Byte # 45 /\ Digit /\ Byte # 46 /\ Byte \in 48 .. 57
      BY <1>6, <1>9, <2>2
    <3>2. Updates(call', call.negative, 10 * call.value + Byte - 48, call.places, "digits")
      BY <1>2, <1>3, <1>11, <3>1
    <3>3. n + 1 \in f .. m
      BY <1>8, <2>1, <2>2
    <3>4. 10 * call.value + Byte - 48 = Upper(w, m - (n + 1))
      BY <1>2, <1>6, <2>1, <2>2, <3>1
    <3> QED
      BY <1>4, <1>5, <1>7, <2>1, <3>2, <3>3, <3>4 DEF Updates, Knows
  <2>3. CASE n = m /\ Upper(w, m - n) = w /\ e # m /\ s[n + 1] = Point
    <3>1. Byte # 45 /\ ~Digit /\ Byte = 46
      BY <1>6, <1>9, <2>3 DEF Point
    <3>2. call.ends # {} /\ Updates(call', call.negative, call.value, call.places, "fraction")
      BY <1>2, <1>3, <1>11, <3>1
    <3>3. n + 1 = m + 1 /\ n + 1 \in m + 1 .. e /\ (n + 1) - (m + 1) = 0
          /\ e - (n + 1) = e - (m + 1) /\ e - (m + 1) \in Nat
      BY <1>8, <2>3
    <3>4. Upper(g, e - (n + 1)) = 0 /\ Tens[0] = 1
      <4>1. g < Tens[e - (m + 1)]
        BY <2>3 DEF Spells
      <4> QED
        BY <1>8, <3>3, <4>1, UpperEnds, TensAre
    <3>5. call.value = w * Tens[(n + 1) - (m + 1)] + Upper(g, e - (n + 1))
      BY <1>8, <2>1, <2>3, <3>3, <3>4
    <3> QED
      BY <1>4, <1>5, <1>7, <2>1, <2>3, <3>2, <3>3, <3>5 DEF Updates, Knows
  <2>4. CASE n = m /\ Upper(w, m - n) = w /\ e = m /\ s[n + 1] = CR
    <3>1. Byte # 45 /\ ~Digit /\ Byte # 46
      BY <1>6, <1>9, <2>4 DEF CR
    <3> QED
      BY <1>2, <1>3, <1>11, <3>1
  <2> QED
    BY <2>1, <2>2, <2>3, <2>4, WholeByte
<1>12. CASE call.phase = "fraction"
  <2>1. /\ e # m /\ n \in m + 1 .. e /\ call.ends # {}
        /\ call.value = w * Tens[n - (m + 1)] + Upper(g, e - n)
        /\ call.places = n - (m + 1) /\ (call.negative <=> f # l)
    BY <1>1, <1>12 DEF Knows
  <2>2. CASE /\ n < e /\ s[n + 1] \in 48 .. 57
             /\ 10 * Upper(g, e - n) + (s[n + 1] - 48) = Upper(g, e - (n + 1))
    <3>1. Byte # 45 /\ Digit /\ Byte # 46 /\ Byte \in 48 .. 57
      BY <1>6, <1>9, <2>2
    <3>2. Updates(call', call.negative, 10 * call.value + Byte - 48, call.places + 1, "fraction")
      BY <1>2, <1>3, <1>12, <3>1
    <3>3. n + 1 \in m + 1 .. e
      BY <1>8, <2>1, <2>2
    <3>4. PICK k \in Nat : k = n - (m + 1) /\ k + 1 = (n + 1) - (m + 1)
      BY <1>8, <2>1
    <3>5. PICK u \in Nat : u = Upper(g, e - n)
      BY <2>1, FractionByte
    <3>6. PICK v \in Int, b \in Int : v = call.value /\ b = Byte
      BY <1>2, <3>1
    <3>7. PICK v2 \in Int, u2 \in Int : v2 = 10 * v + b - 48 /\ u2 = 10 * u + (b - 48)
      OBVIOUS
    <3>8. u2 = Upper(g, e - (n + 1))
      <4>1. b = s[n + 1]
        BY <1>6, <3>6
      <4> QED
        BY <2>2, <3>5, <3>7, <4>1
    <3>9. 10 * call.value + Byte - 48 = w * Tens[(n + 1) - (m + 1)] + Upper(g, e - (n + 1))
      <4>1. Joined(v, w, k, u)
        BY <2>1, <3>4, <3>5, <3>6 DEF Joined
      <4>2. Joined(v2, w, k + 1, u2)
        BY <1>8, <3>7, <4>1, OneMoreDecimal
      <4> QED
        BY <3>4, <3>6, <3>8, <3>7, <4>2 DEF Joined
    <3>10. call.places + 1 = (n + 1) - (m + 1)
      BY <1>8, <2>1
    <3> QED
      BY <1>4, <1>5, <1>7, <2>1, <3>2, <3>3, <3>9, <3>10 DEF Updates, Knows
  <2>3. CASE n = e /\ Upper(g, e - n) = g /\ s[n + 1] = CR
    <3>1. Byte # 45 /\ ~Digit /\ Byte # 46
      BY <1>6, <1>9, <2>3 DEF CR
    <3> QED
      BY <1>2, <1>3, <1>12, <3>1
  <2> QED
    BY <2>1, <2>2, <2>3, FractionByte
<1> QED
  BY <1>2, <1>10, <1>11, <1>12

(* The sign of what is read is the sign of what is printed. *)
LEMMA SignedBack ==
  ASSUME NEW v \in Int, NEW w \in Int, NEW n \in Int, n = IF v < 0 THEN -w ELSE w
  PROVE  /\ Abs(w * Unit - Abs(v)) < Unit => Abs(n * Unit - v) < Unit
         /\ \A t \in Nat : 2 * Abs(w * Unit - Abs(v) * t) <= Unit =>
                             2 * Abs(n * Unit - v * t) <= Unit
<1>1. Abs(w * Unit - Abs(v)) < Unit => Abs(n * Unit - v) < Unit
  BY DEF Abs, Unit
<1>2. ASSUME NEW t \in Nat, 2 * Abs(w * Unit - Abs(v) * t) <= Unit
      PROVE  2 * Abs(n * Unit - v * t) <= Unit
  <2>1. PICK x \in Int : x = v * t /\ (-v) * t = -x
    OBVIOUS
  <2>2. CASE v < 0
    <3>1. Abs(v) * t = -x
      BY <2>1, <2>2 DEF Abs
    <3>2. n = -w
      BY <2>2
    <3>3. 2 * Abs(w * Unit - (-x)) <= Unit
      BY <1>2, <3>1
    <3>4. 2 * Abs(n * Unit - x) <= Unit
      BY <3>2, <3>3 DEF Abs, Unit
    <3> QED
      BY <2>1, <3>4
  <2>3. CASE ~(v < 0)
    <3>1. Abs(v) * t = x /\ n = w
      BY <2>1, <2>3 DEF Abs
    <3> QED
      BY <1>2, <2>1, <3>1
  <2> QED
    BY <2>2, <2>3
<1> QED
  BY <1>1, <1>2

(* A call that ends has read the number. *)
LEMMA ParseEndsReadsBack ==
  ASSUME StreamTypeOK, StreamBytes, Parsed(call), ParseEnds,
         NEW s, NEW l, NEW f, NEW m, NEW w, NEW e, NEW g, Spells(s, l, f, m, w, e, g),
         NEW v, NEW p, Stands(l, f, m, w, e, g, v, p),
         Ahead(s, Len(taken)), Knows(call, Len(taken), l, f, m, w, e, g)
  PROVE  ReadsBack(v, p)'
<1>1. PICK n \in Nat : n = Len(taken)
  BY DEF Ahead
<1>2. /\ call.op = "parse" /\ call.skips = Space /\ call # NoCall
      /\ call.ends = {} \/ call.ends = {46}
      /\ call.phase \in {"skip", "digits", "fraction"}
      /\ call.negative \in BOOLEAN /\ call.value \in Int /\ call.places \in Nat
  BY ParsingIs
<1>3. ready # << >> /\ Byte = s[n + 1]
  <2>1. ready # << >>
    BY DEF ParseEnds, Looked
  <2> QED
    BY <1>1, <2>1, AheadTakes
<1>4. /\ ~Digit /\ (Byte \in call.ends => call.phase = "fraction")
      /\ (call.phase = "skip" => Byte # 45 /\ Byte \notin call.skips)
      /\ call' = NoCall /\ answer' = [of |-> call, value |-> Value, late |-> FALSE]
  BY DEF ParseEnds, Returns
<1>5. /\ l \in Nat /\ f \in Nat /\ m \in Nat /\ w \in Nat /\ e \in Nat /\ g \in Nat
      /\ m > f /\ (f = l \/ f = l + 1) /\ (e = m \/ e > m + 1)
  BY DEF Spells
<1>6. Digit <=> s[n + 1] \in 48 .. 57
  BY <1>3 DEF Digit
<1>7. /\ v \in Int /\ (f # l <=> v < 0)
      /\ p = IF e = m THEN 0 ELSE e - (m + 1)
      /\ Abs(w * Unit - Abs(v)) < Unit
      /\ p # 0 => 2 * Abs((w * Tens[p] + g) * Unit - Abs(v) * Tens[p]) <= Unit
  BY DEF Stands
<1>8. /\ Answered("parse")' /\ answer'.of = call
      /\ answer'.value.places = call.places
      /\ answer'.value.n = IF call.negative THEN -call.value ELSE call.value
  <2>1. answer' # NoCall
    <3>1. answer'.of = call
      BY <1>4
    <3>2. DOMAIN answer' = {"of", "value", "late"} /\ DOMAIN NoCall = {"op"}
      BY <1>4 DEF NoCall
    <3>3. "of" \notin {"op"}
      OBVIOUS
    <3> QED
      BY <3>2, <3>3
  <2> QED
    BY <1>2, <1>4, <2>1 DEF Answered, Value
<1>9. CASE call.phase = "skip"
  <2>1. n \in 0 .. l
    BY <1>1, <1>9 DEF Knows
  <2>2. ~(s[n + 1] \in {CR, LF}) /\ s[n + 1] # Minus /\ ~(s[n + 1] \in 48 .. 57)
    BY <1>2, <1>3, <1>4, <1>6, <1>9 DEF Space, CR, LF, Minus
  <2> QED
    BY <2>1, <2>2, SkipByte
<1>10. CASE call.phase = "digits"
  <2>1. /\ n \in f .. m /\ call.value = Upper(w, m - n) /\ call.places = 0
        /\ (call.negative <=> f # l)
    BY <1>1, <1>10 DEF Knows
  <2>2. /\ call.value = w
        /\ e = m \/ s[n + 1] = Point
    BY <1>4, <1>6, <2>1, WholeByte
  <2>3. call.ends = {} \/ p = 0
    BY <1>2, <1>3, <1>4, <1>7, <1>10, <2>2 DEF Point
  <2>4. PICK k \in Int : k = answer'.value.n /\ k = IF v < 0 THEN -w ELSE w
    BY <1>5, <1>7, <1>8, <2>1, <2>2
  <2>5. Abs(k * Unit - v) < Unit
    BY <1>5, <1>7, <2>4, SignedBack
  <2> QED
    BY <1>8, <2>3, <2>4, <2>5 DEF ReadsBack
<1>11. CASE call.phase = "fraction"
  <2>1. /\ e # m /\ n \in m + 1 .. e /\ call.ends # {}
        /\ call.value = w * Tens[n - (m + 1)] + Upper(g, e - n)
        /\ call.places = n - (m + 1) /\ (call.negative <=> f # l)
    BY <1>1, <1>11 DEF Knows
  <2>2. n = e /\ Upper(g, e - n) = g
    BY <1>4, <1>6, <2>1, FractionByte
  <2>3. PICK q \in Nat : q = e - (m + 1) /\ q = p /\ q # 0 /\ call.places = q
    BY <1>5, <1>7, <2>1, <2>2
  <2>4. PICK t \in Nat : t = Tens[q]
    BY <2>3, TensAre
  <2>5. PICK x \in Int : x = w * t + g
    BY <1>5
  <2>6. call.value = x
    BY <2>1, <2>2, <2>3, <2>4, <2>5
  <2>7. PICK k \in Int : k = answer'.value.n /\ k = IF v < 0 THEN -x ELSE x
    BY <1>5, <1>7, <1>8, <2>1, <2>6
  <2>8. 2 * Abs(x * Unit - Abs(v) * t) <= Unit
    BY <1>7, <2>3, <2>4, <2>5
  <2>9. 2 * Abs(k * Unit - v * t) <= Unit
    BY <1>7, <2>7, <2>8, SignedBack
  <2>10. ~(answer'.of.ends = {} \/ p = 0)
    BY <1>8, <2>1, <2>3
  <2> QED
    BY <1>8, <2>3, <2>4, <2>7, <2>9, <2>10 DEF ReadsBack
<1> QED
  BY <1>2, <1>9, <1>10, <1>11

-----------------------------------------------------------------------------
(* A text is one behind another. *)
Cat(r, x, y) ==
    /\ r \in Seq(Nat) /\ x \in Seq(Nat) /\ y \in Seq(Nat) /\ Len(r) = Len(x) + Len(y)
    /\ \A k \in 1 .. Len(x) : r[k] = x[k]
    /\ \A k \in 1 .. Len(y) : r[Len(x) + k] = y[k]

(* A concatenation is one. *)
LEMMA CatOf ==
  ASSUME NEW x \in Seq(Nat), NEW y \in Seq(Nat), NEW r, r = x \o y
  PROVE  Cat(r, x, y)
BY ConcatIs DEF Cat

(* Nothing, before or behind a text. *)
LEMMA CatEmpty ==
  ASSUME NEW x \in Seq(Nat)
  PROVE  Cat(x, << >>, x) /\ Cat(x, x, << >>)
<1>1. << >> \in Seq(Nat) /\ Len(<< >>) = 0 /\ Len(x) \in Nat
  OBVIOUS
<1>2. Cat(x, << >>, x)
  BY <1>1 DEF Cat
<1>3. Cat(x, x, << >>)
  BY <1>1 DEF Cat
<1> QED
  BY <1>2, <1>3

(* What is printed of a number of thousandths with p decimals. *)
SignText(S, v) == (S = << >> /\ ~(v < 0)) \/ (S = <<Minus>> /\ v < 0)

FractionText(G, g, p) ==
    /\ G \in Seq(Nat) /\ Len(G) = IF p = 0 THEN 0 ELSE p + 1
    /\ p # 0 => /\ G[1] = Point /\ g < Tens[p]
                /\ \A k \in 1 .. p : G[k + 1] = DigitOf(g, p - k)

Rounds(w, g, v, p) ==
    /\ Abs(w * Unit - Abs(v)) < Unit
    /\ p # 0 => 2 * Abs((w * Tens[p] + g) * Unit - Abs(v) * Tens[p]) <= Unit

Written(t, v, p) ==
    /\ v \in Int /\ p \in Nat
    /\ \E S, D, G, u \in Seq(Nat), w, a, g \in Nat :
         /\ SignText(S, v) /\ Digits(D, w, a) /\ FractionText(G, g, p)
         /\ Cat(u, D, G) /\ Cat(t, S, u)
         /\ Rounds(w, g, v, p)

(* In the stream, behind what is left of the lines before. *)
LEMMA WrittenSpells ==
  ASSUME NEW t, NEW v, NEW p, Written(t, v, p),
         ready \in Seq(Nat), ToSet(ready) \subseteq {CR, LF}, ready' = ready,
         wire' = t \o <<CR, LF>>
  PROVE  /\ wire' \in Seq(Nat)
         /\ \E s \in Seq(Nat), l, f, m, w, e, g \in Nat :
              /\ Spells(s, l, f, m, w, e, g)
              /\ Stands(l, f, m, w, e, g, v, p)
              /\ Ahead(s, 0)'
<1>0. v \in Int /\ p \in Nat
  BY DEF Written
<1>1. PICK S \in Seq(Nat), D \in Seq(Nat), G \in Seq(Nat), u \in Seq(Nat),
           w \in Nat, a \in Nat, g \in Nat :
         /\ SignText(S, v) /\ Digits(D, w, a) /\ FractionText(G, g, p)
         /\ Cat(u, D, G) /\ Cat(t, S, u)
         /\ Rounds(w, g, v, p)
  BY DEF Written
<1>2. /\ t \in Seq(Nat) /\ <<CR, LF>> \in Seq(Nat)
      /\ Len(<<CR, LF>>) = 2 /\ <<CR, LF>>[1] = CR
  BY <1>1 DEF Cat, CR, LF
<1>3. PICK Z \in Seq(Nat) : Z = <<CR, LF>> /\ Len(Z) = 2 /\ Z[1] = CR
  BY <1>2
<1>4. PICK z : z = wire' /\ Cat(z, t, Z)
  BY <1>2, <1>3, CatOf
<1>5. z \in Seq(Nat)
  BY <1>4 DEF Cat
<1>6. PICK s : Cat(s, ready, z)
  BY <1>5, CatOf
<1>7. PICK l \in Nat, i \in Nat : l = Len(ready) /\ i = Len(S)
  OBVIOUS
<1>8. /\ a # 0 /\ Len(D) = a /\ w < Tens[a]
      /\ \A k \in 1 .. a : D[k] = DigitOf(w, a - k)
  BY <1>1 DEF Digits, DigitOf
<1>9. PICK b \in Nat : b = Len(G) /\ b = IF p = 0 THEN 0 ELSE p + 1
  BY <1>0, <1>1 DEF FractionText
<1>10. /\ Len(u) = a + b /\ Len(t) = i + a + b /\ Len(z) = i + a + b + 2
       /\ Len(s) = l + i + a + b + 2 /\ s \in Seq(Nat)
  <2>1. Len(u) = a + b
    BY <1>1, <1>8, <1>9 DEF Cat
  <2>2. Len(t) = i + a + b
    <3>1. Len(t) = Len(S) + Len(u)
      BY <1>1 DEF Cat
    <3>2. a \in Nat /\ b \in Nat /\ i \in Nat
      BY <1>1, <1>7, <1>9
    <3>3. Len(t) = i + (a + b)
      BY <1>7, <2>1, <3>1
    <3> QED
      BY <3>2, <3>3
  <2>3. Len(z) = i + a + b + 2
    BY <1>3, <1>4, <2>2 DEF Cat
  <2>4. Len(s) = l + i + a + b + 2 /\ s \in Seq(Nat)
    <3>1. s \in Seq(Nat) /\ Len(s) = Len(ready) + Len(z)
      BY <1>6 DEF Cat
    <3>2. a \in Nat /\ b \in Nat /\ i \in Nat /\ l \in Nat
      BY <1>1, <1>7, <1>9
    <3>3. PICK n : n = Len(s) /\ n = l + (i + a + b + 2)
      BY <1>7, <2>3, <3>1
    <3>4. n = l + i + a + b + 2
      BY <3>2, <3>3
    <3> QED
      BY <3>1, <3>3, <3>4
  <2> QED
    BY <2>1, <2>2, <2>3, <2>4
<1>11. \A k \in 1 .. l : s[k] = ready[k]
  BY <1>6, <1>7 DEF Cat
<1>12. \A k \in 1 .. i + a + b + 2 : s[l + k] = z[k]
  BY <1>6, <1>7, <1>10 DEF Cat
<1>13. \A k \in 1 .. i + a + b : s[l + k] = t[k]
  <2>1. \A k \in 1 .. i + a + b : z[k] = t[k]
    BY <1>4, <1>10 DEF Cat
  <2>2. PICK n \in Nat : n = i + a + b
    <3>1. i \in Nat /\ a \in Nat /\ b \in Nat
      BY <1>1, <1>7, <1>9
    <3> QED
      BY <3>1
  <2>3. ASSUME NEW k \in 1 .. n PROVE s[l + k] = z[k] /\ z[k] = t[k]
    <3>1. k \in 1 .. n + 2
      BY <2>2
    <3> QED
      BY <1>12, <2>1, <2>2, <3>1
  <2> QED
    BY <2>2, <2>3
<1>14. s[l + i + a + b + 1] = CR
  <2>1. z[(i + a + b) + 1] = Z[1]
    <3>1. 1 \in 1 .. Len(Z) /\ Len(t) = i + a + b
      BY <1>3, <1>10
    <3>2. z[Len(t) + 1] = Z[1]
      BY <1>4, <3>1 DEF Cat
    <3> QED
      BY <3>1, <3>2
  <2>2. s[l + (i + a + b + 1)] = z[i + a + b + 1]
    BY <1>12
  <2>3. l + (i + a + b + 1) = l + i + a + b + 1
    OBVIOUS
  <2> QED
    BY <1>3, <2>1, <2>2, <2>3
<1>15. i # 0 => s[l + 1] = t[1] /\ t[1] = S[1]
  <2> HAVE i # 0
  <2>1. 1 \in 1 .. i + a + b /\ 1 \in 1 .. Len(S)
    BY <1>7
  <2>2. t[1] = S[1]
    BY <1>1, <2>1 DEF Cat
  <2> QED
    BY <1>13, <2>1, <2>2
<1>16. \A k \in 1 .. a + b : s[l + i + k] = u[k]
  <2> TAKE k \in 1 .. a + b
  <2>1. i + k \in 1 .. i + a + b /\ l + (i + k) = l + i + k
    OBVIOUS
  <2>2. t[i + k] = u[k]
    BY <1>1, <1>7, <1>10 DEF Cat
  <2> QED
    BY <1>13, <2>1, <2>2
<1>17. \A k \in 1 .. a : s[l + i + k] = DigitOf(w, a - k)
  <2> TAKE k \in 1 .. a
  <2>1. u[k] = D[k] /\ D[k] = DigitOf(w, a - k)
    BY <1>1, <1>8 DEF Cat
  <2>2. k \in 1 .. a + b
    OBVIOUS
  <2>3. s[l + i + k] = u[k]
    BY <1>16, <2>2
  <2> QED
    BY <2>1, <2>3
<1>18. \A k \in 1 .. b : s[l + i + a + k] = G[k]
  <2> TAKE k \in 1 .. b
  <2>1. a + k \in 1 .. a + b /\ l + i + (a + k) = l + i + a + k
    OBVIOUS
  <2>2. u[a + k] = G[k]
    BY <1>1, <1>8, <1>9 DEF Cat
  <2> QED
    BY <1>16, <2>1, <2>2
<1>19. PICK f \in Nat, m \in Nat, e \in Nat : f = l + i /\ m = l + i + a /\ e = l + i + a + b
  OBVIOUS
<1>20. \/ i = 0 /\ ~(v < 0)
       \/ i = 1 /\ v < 0 /\ S[1] = Minus
  <2>1. Len(<< >>) = 0 /\ Len(<<45>>) = 1 /\ <<45>>[1] = 45
    OBVIOUS
  <2> QED
    BY <1>1, <1>7, <2>1 DEF SignText, Minus
<1>21. Spells(s, l, f, m, w, e, g)
  <2>1. Len(s) = e + 2 /\ s[e + 1] = CR
    BY <1>10, <1>14, <1>19
  <2>2. f = l \/ (f = l + 1 /\ s[f] = Minus)
    BY <1>15, <1>19, <1>20
  <2>3. m > f /\ w < Tens[m - f]
    <3>1. m - f = a
      BY <1>19
    <3> QED
      BY <1>8, <1>19, <3>1
  <2>4. e = m \/ (e > m + 1 /\ s[m + 1] = Point /\ g < Tens[e - (m + 1)])
    <3>1. CASE p = 0
      BY <1>9, <1>19, <3>1
    <3>2. CASE p # 0
      <4>1. b = p + 1 /\ e - (m + 1) = p /\ e > m + 1
        BY <1>0, <1>9, <1>19, <3>2
      <4>2. s[m + 1] = G[1]
        <5>1. 1 \in 1 .. b /\ m + 1 = l + i + a + 1
          BY <1>0, <1>19, <4>1
        <5> QED
          BY <1>18, <5>1
      <4> QED
        BY <1>1, <3>2, <4>1, <4>2 DEF FractionText
    <3> QED
      BY <3>1, <3>2
  <2>5. \A n \in 1 .. l : s[n] \in {CR, LF}
    <3>1. \A n \in 1 .. l : ready[n] \in ToSet(ready)
      BY <1>7 DEF ToSet
    <3> QED
      BY <1>11, <3>1
  <2>6. ASSUME NEW n \in f + 1 .. m
        PROVE  s[n] = DigitOf(w, m - n)
    <3>1. PICK k \in 1 .. a : k = n - f
      BY <1>19
    <3>2. n = l + i + k /\ m - n = a - k
      BY <1>19, <3>1
    <3> QED
      BY <1>17, <3>2
  <2>7. ASSUME NEW n \in m + 2 .. e
        PROVE  s[n] = DigitOf(g, e - n)
    <3>1. p # 0 /\ b = p + 1
      BY <1>9, <1>19
    <3>2. PICK k \in 1 .. p : k = n - (m + 1)
      BY <1>0, <1>19, <3>1
    <3>3. n = l + i + a + (k + 1) /\ e - n = p - k /\ k + 1 \in 1 .. b
      BY <1>0, <1>19, <3>1, <3>2
    <3>4. s[n] = G[k + 1]
      BY <1>18, <3>3
    <3> QED
      BY <1>1, <3>1, <3>3, <3>4 DEF FractionText
  <2> QED
    BY <1>10, <2>1, <2>2, <2>3, <2>4, <2>5, <2>6, <2>7 DEF Spells
<1>22. Stands(l, f, m, w, e, g, v, p)
  <2>1. f # l <=> v < 0
    BY <1>19, <1>20
  <2>2. p = IF e = m THEN 0 ELSE e - (m + 1)
    BY <1>0, <1>9, <1>19
  <2> QED
    BY <1>0, <1>1, <2>1, <2>2 DEF Stands, Rounds
<1>23. Ahead(s, 0)'
  <2>0. PICK r \in Seq(Nat), y \in Seq(Nat) :
          r = ready' /\ y = wire' /\ y = z /\ r = ready
    BY <1>4, <1>5
  <2>1. 0 \in Nat /\ Len(s) = 0 + Len(r) + Len(y)
    <3>1. Len(s) = Len(r) + Len(y)
      BY <1>6, <2>0 DEF Cat
    <3> QED
      BY <3>1
  <2>2. \A k \in 1 .. Len(r) : r[k] = s[0 + k]
    <3> TAKE k \in 1 .. Len(r)
    <3>1. k \in 1 .. l /\ 0 + k = k
      BY <1>7, <2>0
    <3> QED
      BY <1>11, <2>0, <3>1
  <2>3. \A k \in 1 .. Len(y) : y[k] = s[0 + Len(r) + k]
    <3> TAKE k \in 1 .. Len(y)
    <3>1. k \in 1 .. i + a + b + 2 /\ 0 + Len(r) + k = l + k
      BY <1>7, <1>10, <2>0
    <3> QED
      BY <1>12, <2>0, <3>1
  <2> QED
    BY <2>0, <2>1, <2>2, <2>3 DEF Ahead
<1> QED
  BY <1>4, <1>5, <1>10, <1>21, <1>22, <1>23

(* print() of a long. *)
LEMMA LongWritten ==
  ASSUME NEW v \in Signed(Longs)
  PROVE  Written(print(v, 10), v * Unit, 0)
<1>1. PICK h \in Nat : h = Longs \div 2 /\ Longs = 2 * h /\ h > 0
  BY LongAssumption
<1>2. v \in Int /\ -h <= v /\ v < h
  BY <1>1 DEF Signed
<1>3. Longs \in Nat /\ LongLongs \in Nat /\ LongLongs >= Longs
  BY LongAssumption
<1>4. PICK w \in Nat : w = IF v < 0 THEN -v ELSE v
  BY <1>2
<1>5. PICK D \in Seq(Nat), a \in Nat : D = printNumber(w, 10) /\ Digits(D, w, a)
  BY PrintNumberIs DEF Digits
<1>6. D \in Seq(Nat) /\ << >> \in Seq(Nat) /\ <<Minus>> \in Seq(Nat) /\ 0 \in Nat
  BY <1>5 DEF Digits, Minus
<1>7. FractionText(<< >>, 0, 0) /\ Cat(D, D, << >>)
  BY <1>6, CatEmpty DEF FractionText
<1>8. v * Unit \in Int /\ (v * Unit < 0 <=> v < 0)
  BY <1>2 DEF Unit
<1>9. Rounds(w, 0, v * Unit, 0)
  <2>1. Abs(w * Unit - Abs(v * Unit)) < Unit
    BY <1>2, <1>4 DEF Abs, Unit
  <2> QED
    BY <2>1 DEF Rounds
<1>10. PICK S \in Seq(Nat) : SignText(S, v * Unit) /\ Cat(print(v, 10), S, D)
  <2>1. CASE v < 0
    <3>1. print(v, 10) = <<Minus>> \o D
      BY <1>4, <1>5, <2>1 DEF print
    <3>2. Cat(print(v, 10), <<Minus>>, D)
      BY <1>6, <3>1, CatOf
    <3> QED
      BY <1>6, <1>8, <2>1, <3>2 DEF SignText
  <2>2. CASE ~(v < 0)
    <3>1. w = v /\ w < LongLongs
      BY <1>1, <1>2, <1>3, <1>4, <2>2
    <3>2. AsUnsigned(v, LongLongs) = v
      BY <1>3, <3>1, ModIsItself DEF AsUnsigned
    <3>3. print(v, 10) = D
      BY <1>5, <2>2, <3>1, <3>2 DEF print
    <3>4. Cat(print(v, 10), << >>, D)
      BY <1>6, <3>3, CatEmpty
    <3> QED
      BY <1>6, <1>8, <2>2, <3>4 DEF SignText
  <2> QED
    BY <2>1, <2>2
<1> QED
  BY <1>5, <1>6, <1>7, <1>8, <1>9, <1>10 DEF Written

(* The digits of a fraction, with the zeros behind the point. *)
LEMMA PaddedIs ==
  ASSUME NEW n \in Nat, NEW p \in Nat
  PROVE  /\ Padded(n, p) \in Seq(Nat) /\ Len(Padded(n, p)) = p
         /\ \A k \in 1 .. p : Padded(n, p)[k] = DigitOf(n, p - k)
<1>1. ASSUME NEW k \in 1 .. p
      PROVE  /\ Character((n \div Tens[p - k]) % 10) = DigitOf(n, p - k)
             /\ DigitOf(n, p - k) \in Nat
  <2>1. PICK t \in Nat \ {0} : t = Tens[p - k]
    BY p - k \in Nat, TensAre
  <2>2. PICK q \in Nat : q = n \div t
    BY DivIs
  <2>3. DigitOf(n, p - k) = 48 + (q % 10) /\ q % 10 < 10 /\ q % 10 \in Nat
    BY <2>1, <2>2 DEF DigitOf
  <2>4. Character(q % 10) = 48 + (q % 10)
    BY <2>3 DEF Character
  <2> QED
    BY <2>1, <2>2, <2>3, <2>4
<1>2. Padded(n, p) = [k \in 1 .. p |-> DigitOf(n, p - k)]
  BY <1>1 DEF Padded
<1>3. [k \in 1 .. p |-> DigitOf(n, p - k)] \in Seq(Nat)
  BY <1>1
<1> QED
  BY <1>2, <1>3

(* Products of the rounding. *)
LEMMA TwiceOf ==
  ASSUME NEW t \in Nat, NEW r \in Nat
  PROVE  2 * r * t = 2 * (r * t)
OBVIOUS

LEMMA TimesOf ==
  ASSUME NEW t \in Nat, NEW q \in Nat, NEW r \in Nat
  PROVE  (1000 * q + r) * t = 1000 * (q * t) + r * t
OBVIOUS

(* The rounding of printFloat(): the carry keeps the fraction below one,   *)
(* and the number within half of its last decimal.                         *)
LEMMA FixedIs ==
  ASSUME NEW x \in Nat, NEW p \in Nat, p # 0
  PROVE  \E w, g \in Nat :
           /\ Fixed(x, p) = printNumber(w, 10) \o (<<Point>> \o Padded(g, p))
           /\ g < Tens[p]
           /\ Abs(w * Unit - x) < Unit
           /\ 2 * Abs((w * Tens[p] + g) * Unit - x * Tens[p]) <= Unit
<1>1. PICK t \in Nat \ {0} : t = Tens[p]
  BY TensAre
<1>2. PICK q \in Nat, r \in 0 .. 999 : /\ q = Whole(x) /\ r = x % Unit /\ x = 1000 * q + r
  BY DEF Whole, Unit
<1>3. PICK y \in Nat : y = r * t /\ y <= 999 * t /\ (r = 0 => y = 0)
  <2>1. r * t \in Nat /\ r * t <= 999 * t
    BY <1>2
  <2> QED
    BY <2>1
<1>4. PICK c \in Nat : /\ c = Scaled(x, t) /\ 2000 * c <= 2 * y + 1000
                       /\ 2 * y + 1000 < 2000 * c + 2000
  <2>1. Scaled(x, t) = (2 * y + 1000) \div 2000
    <3>1. 2 * r * t = 2 * y
      <4>1. r \in Nat
        BY <1>2
      <4>2. 2 * r * t = 2 * (r * t)
        BY <4>1, TwiceOf, Zenon
      <4> QED
        BY <1>3, <4>2, Zenon
    <3>2. Scaled(x, t) = (2 * r * t + 1000) \div 2000
      BY <1>2 DEF Scaled, Unit
    <3> QED
      BY <3>1, <3>2
  <2> QED
    BY <2>1
<1>5. PICK k \in 0 .. 1 : k = (IF c >= t THEN 1 ELSE 0)
  OBVIOUS
<1>6. PICK w \in Nat : w = q + k
  OBVIOUS
<1>7. PICK g \in Nat : g = c - k * t /\ g < t /\ (k = 1 => g = c - t)
  <2>1. CASE c >= t
    <3>1. c < t + 1
      BY <1>3, <1>4
    <3>2. k = 1 /\ c - 1 * t = 0 /\ c = t
      BY <1>5, <2>1, <3>1
    <3> QED
      BY <3>2
  <2>2. CASE ~(c >= t)
    BY <1>5, <2>2
  <2> QED
    BY <2>1, <2>2
<1>8. Fixed(x, p) = printNumber(w, 10) \o (<<Point>> \o Padded(g, p))
  <2> DEFINE F(carry) ==
               printNumber(Whole(x) + carry, 10)
                 \o (IF p = 0 THEN << >>
                     ELSE <<Point>> \o Padded(Scaled(x, Tens[p]) - carry * Tens[p], p))
  <2>1. Fixed(x, p) = F(IF Scaled(x, Tens[p]) >= Tens[p] THEN 1 ELSE 0)
    BY DEF Fixed
  <2>2. (IF Scaled(x, Tens[p]) >= Tens[p] THEN 1 ELSE 0) = k
    BY <1>1, <1>4, <1>5
  <2>3. Fixed(x, p) = F(k)
    <3> HIDE DEF F
    <3> QED
      BY <2>1, <2>2
  <2>4. Fixed(x, p) = printNumber(q + k, 10) \o (<<Point>> \o Padded(c - k * t, p))
    <3>1. F(k) = printNumber(Whole(x) + k, 10)
                   \o (<<Point>> \o Padded(Scaled(x, Tens[p]) - k * Tens[p], p))
      OBVIOUS
    <3> QED
      <4>1. Whole(x) + k = q + k
        BY <1>2
      <4>2. Scaled(x, Tens[p]) - k * Tens[p] = c - k * t
        BY <1>1, <1>4
      <4> QED
        BY <2>3, <3>1, <4>1, <4>2
  <2> QED
    BY <1>7, <1>6, <2>4
<1>9. Abs(w * Unit - x) < Unit
  <2>1. k = 1 => r # 0
    <3> SUFFICES ASSUME k = 1, r = 0
                 PROVE  FALSE
      OBVIOUS
    <3>1. y = 0 /\ c >= t
      BY <1>3, <1>5
    <3> QED
      BY <1>4, <3>1
  <2>3. w * 1000 - x = 1000 * k - r
    <3>1. x = 1000 * q + r /\ q \in Nat /\ r \in Nat /\ k \in Nat
      BY <1>2, <1>5
    <3> QED
      BY <1>6, <3>1
  <2>4. w * 1000 - x < 1000 /\ x - w * 1000 < 1000
    BY <1>2, <1>5, <2>1, <2>3
  <2> QED
    BY <2>4 DEF Abs, Unit
<1>10. 2 * Abs((w * t + g) * Unit - x * t) <= Unit
  <2>1. PICK z \in Nat : z = q * t
    OBVIOUS
  <2>2. w * t + g = z + c
    <3>1. CASE k = 0
      BY <1>7, <1>6, <2>1, <3>1
    <3>2. CASE k = 1
      <4>1. (q + 1) * t = z + t
        BY <2>1
      <4> QED
        BY <1>7, <1>6, <3>2, <4>1
    <3> QED
      BY <3>1, <3>2
  <2>3. x * t = 1000 * z + y
    <3>1. (1000 * q + r) * t = 1000 * (q * t) + r * t
      BY <1>2, TimesOf
    <3>2. (1000 * q + r) * t = x * t
      BY <1>2
    <3> QED
      BY <1>3, <2>1, <3>1, <3>2
  <2>4. 2 * Abs((z + c) * Unit - (1000 * z + y)) <= Unit
    BY <1>4 DEF Abs, Unit
  <2> QED
    BY <2>2, <2>3, <2>4
<1> QED
  BY <1>1, <1>7, <1>8, <1>9, <1>10, <1>6

(* print() of a double. *)
LEMMA DoubleWritten ==
  ASSUME NEW v \in Int, NEW p \in Nat
  PROVE  Written(printFloat(v, p), v, p)
<1>1. PICK x \in Nat : x = Abs(v)
  BY DEF Abs
<1>2. << >> \in Seq(Nat) /\ <<Minus>> \in Seq(Nat) /\ <<Point>> \in Seq(Nat) /\ 0 \in Nat
      /\ Len(<<Point>>) = 1 /\ <<Point>>[1] = Point
  BY DEF Minus, Point
<1>3. PICK S \in Seq(Nat) : S = Sign(v) /\ SignText(S, v)
  BY <1>2 DEF Sign, SignText
<1>4. CASE p = 0
  <2>1. PICK w \in Nat : w = Whole(x) /\ Abs(w * Unit - x) < Unit
    BY DEF Whole, Unit, Abs
  <2>2. PICK D \in Seq(Nat), a \in Nat : D = printNumber(w, 10) /\ Digits(D, w, a)
    BY PrintNumberIs DEF Digits
  <2>3. D \in Seq(Nat)
    BY <2>2 DEF Digits
  <2>4. printFloat(v, p) = S \o D
    BY <1>1, <1>3, <1>4, <2>1, <2>2 DEF printFloat
  <2>5. Cat(printFloat(v, p), S, D) /\ Cat(D, D, << >>)
    BY <2>3, <2>4, CatOf, CatEmpty
  <2>6. FractionText(<< >>, 0, p) /\ Rounds(w, 0, v, p)
    BY <1>1, <1>2, <1>4, <2>1 DEF FractionText, Rounds
  <2> QED
    BY <1>2, <1>3, <2>2, <2>3, <2>5, <2>6 DEF Written
<1>5. CASE p # 0
  <2>1. PICK w \in Nat, g \in Nat :
           /\ Fixed(x, p) = printNumber(w, 10) \o (<<Point>> \o Padded(g, p))
           /\ g < Tens[p]
           /\ Abs(w * Unit - x) < Unit
           /\ 2 * Abs((w * Tens[p] + g) * Unit - x * Tens[p]) <= Unit
    BY <1>5, FixedIs
  <2>2. PICK D \in Seq(Nat), a \in Nat : D = printNumber(w, 10) /\ Digits(D, w, a)
    BY PrintNumberIs DEF Digits
  <2>3. PICK P \in Seq(Nat) : /\ P = Padded(g, p) /\ Len(P) = p
                              /\ \A k \in 1 .. p : P[k] = DigitOf(g, p - k)
    BY PaddedIs
  <2>4. PICK G : G = <<Point>> \o P /\ Cat(G, <<Point>>, P)
    BY <1>2, CatOf
  <2>5. FractionText(G, g, p)
    <3>1. G \in Seq(Nat) /\ Len(G) = p + 1
      BY <1>2, <2>3, <2>4 DEF Cat
    <3>2. G[1] = Point
      BY <1>2, <2>4, 1 \in 1 .. 1 DEF Cat
    <3>3. ASSUME NEW k \in 1 .. p
          PROVE  G[k + 1] = DigitOf(g, p - k)
      <4>1. G[1 + k] = P[k]
        BY <1>2, <2>3, <2>4 DEF Cat
      <4> QED
        BY <2>3, <4>1
    <3> QED
      BY <1>5, <2>1, <3>1, <3>2, <3>3 DEF FractionText
  <2>6. D \in Seq(Nat) /\ G \in Seq(Nat)
    BY <2>2, <2>4 DEF Digits, Cat
  <2>7. PICK u : u = D \o G /\ Cat(u, D, G)
    BY <2>6, CatOf
  <2>8. printFloat(v, p) = S \o u
    <3>1. printFloat(v, p) = Sign(v) \o Fixed(x, p)
      BY <1>1, <1>5 DEF printFloat
    <3> QED
      BY <1>3, <2>1, <2>2, <2>3, <2>4, <2>7, <3>1
  <2>9. u \in Seq(Nat)
    BY <2>7 DEF Cat
  <2>10. Cat(printFloat(v, p), S, u)
    BY <2>8, <2>9, CatOf
  <2>11. Rounds(w, g, v, p)
    BY <1>1, <2>1 DEF Rounds
  <2> QED
    BY <1>3, <2>2, <2>5, <2>6, <2>7, <2>9, <2>10, <2>11 DEF Written
<1> QED
  BY <1>4, <1>5

-----------------------------------------------------------------------------
(* The bytes of the stream, whoever sends and reads them. *)
LEMMA PrintedArrives ==
  ASSUME StreamBytes, NEW t, NEW v, NEW p, Written(t, v, p), Printed(t, v, p)
  PROVE  StreamBytes' /\ NumberInv'
<1>1. /\ call = NoCall /\ call' = call /\ ready \in Seq(Nat) /\ ready' = ready
      /\ ToSet(ready) \subseteq {CR, LF} /\ wire' = t \o <<CR, LF>>
      /\ number' = [v |-> v, places |-> p, asked |-> FALSE]
  BY DEF Printed, PeerSays, StreamBytes
<1>2. /\ wire' \in Seq(Nat)
      /\ \E s \in Seq(Nat), l, f, m, w, e, g \in Nat :
           /\ Spells(s, l, f, m, w, e, g)
           /\ Stands(l, f, m, w, e, g, v, p)
           /\ Ahead(s, 0)'
  BY <1>1, WrittenSpells
<1>3. PICK s \in Seq(Nat), l \in Nat, f \in Nat, m \in Nat, w \in Nat, e \in Nat, g \in Nat :
         /\ Spells(s, l, f, m, w, e, g)
         /\ Stands(l, f, m, w, e, g, v, p)
         /\ Ahead(s, 0)'
  BY <1>2
<1>4. Follows(s, l, f, m, w, e, g)'
  BY <1>1, <1>3 DEF Follows
<1>5. NumberInv'
  BY <1>3, <1>4 DEF NumberInv
<1> QED
  BY <1>1, <1>2, <1>5 DEF StreamBytes

(* Whatever the peer sends, what follows a number is a printout of it. *)
LEMMA PeerPrints ==
  ASSUME StreamBytes, Peer
  PROVE  StreamBytes' /\ NumberInv'
<1>1. ASSUME NEW v \in Numbers, Printed(print(v, 10), v * Unit, 0)
      PROVE  StreamBytes' /\ NumberInv'
  <2>1. Written(print(v, 10), v * Unit, 0)
    BY NumbersAssumption, LongWritten
  <2> QED
    BY <1>1, <2>1, PrintedArrives
<1>2. ASSUME NEW v \in Thousandths, NEW p \in Places, Printed(printFloat(v, p), v, p)
      PROVE  StreamBytes' /\ NumberInv'
  <2>1. Written(printFloat(v, p), v, p)
    <3>1. v \in Int /\ p \in Nat
      BY NumbersAssumption
    <3> QED
      BY <3>1, DoubleWritten
  <2> QED
    BY <1>2, <2>1, PrintedArrives
<1>3. ASSUME NEW s \in Sent, PeerSays(s, None)
      PROVE  StreamBytes' /\ NumberInv'
  BY <1>3, NumbersAssumption DEF PeerSays, StreamBytes, NumberInv
<1> QED
  BY <1>1, <1>2, <1>3 DEF Peer

LEMMA TakingBytes ==
  ASSUME StreamBytes, ready # << >>, Taking
  PROVE  StreamBytes'
BY DEF StreamBytes, Taking

(* No step brings anything else than bytes. *)
LEMMA StreamBytesKept ==
  ASSUME StreamBytes, [Next]_vars
  PROVE  StreamBytes'
<1>1. CASE Peer
  BY <1>1, PeerPrints
<1>2. CASE Parses
  BY <1>2 DEF Parses, parseInt, parseFloat, Parsing, Begins, StreamBytes
<1>3. CASE ReadsText
  BY <1>3 DEF ReadsText, find, findUntil, readBytes, Begins, StreamBytes
<1>4. CASE Arrives
  BY <1>4 DEF Arrives, StreamBytes
<1>5. CASE StreamTick
  BY <1>5 DEF StreamTick, StreamBytes
<1>6. CASE StreamStep
  <2>1. CASE FindStep \/ FindUntilStep \/ BytesStep
    BY <2>1, TakingBytes DEF FindStep, FindUntilStep, BytesStep, Looked
  <2>2. CASE ParseStep
    BY <2>2, TakingBytes DEF ParseStep, Looked, Reads
  <2>3. CASE ParseEnds \/ Misses \/ ChecksClock \/ WantsNothing
    BY <2>3 DEF ParseEnds, Misses, ChecksClock, WantsNothing, StreamBytes
  <2> QED
    BY <1>6, <2>1, <2>2, <2>3 DEF StreamStep
<1>7. CASE UNCHANGED streamVars
  BY <1>7 DEF streamVars, StreamBytes
<1> QED
  BY <1>1, <1>2, <1>3, <1>4, <1>5, <1>6, <1>7
  DEF Next, OnStream, OnString, Step, Tick, vars

(* A call that found no byte, and one whose time is over. *)
LEMMA ParseWaits ==
  ASSUME StreamTypeOK, Parsed(call), Misses \/ ChecksClock,
         NEW n, NEW l, NEW f, NEW m, NEW w, NEW e, NEW g, Knows(call, n, l, f, m, w, e, g)
  PROVE  /\ UNCHANGED <<wire, ready, taken>>
         /\ \/ call' # NoCall /\ Parsed(call') /\ Knows(call', n, l, f, m, w, e, g)
            \/ call' = NoCall /\ Answered("parse")' /\ answer'.late
<1>1. call \in ParseCall /\ call.op = "parse"
  BY ParsingIs
<1>2. UNCHANGED <<wire, ready, taken>>
  BY DEF Misses, ChecksClock
<1>3. ASSUME NEW at \in Ats, call' = [call EXCEPT !.at = at]
      PROVE  call' # NoCall /\ Parsed(call') /\ Knows(call', n, l, f, m, w, e, g)
  <2>1. /\ call'.op = call.op /\ call'.skips = call.skips /\ call'.ends = call.ends
        /\ call'.phase = call.phase /\ call'.negative = call.negative
        /\ call'.value = call.value /\ call'.places = call.places
    BY <1>1, <1>3 DEF ParseCall
  <2> QED
    BY <1>1, <2>1 DEF Parsed, Knows, NoCall
<1>4. CASE Misses
  BY <1>2, <1>3, <1>4 DEF Misses, Ats
<1>5. CASE ChecksClock /\ waited < Timeout
  BY <1>2, <1>3, <1>5 DEF ChecksClock, Continues, Ats
<1>6. CASE ChecksClock /\ ~(waited < Timeout)
  <2>1. call' = NoCall /\ answer'.of = call /\ answer'.late
    BY <1>6 DEF ChecksClock, Returns
  <2>2. answer' # NoCall
    <3>1. DOMAIN answer' = {"of", "value", "late"}
      BY <1>6 DEF ChecksClock, Returns
    <3>2. DOMAIN NoCall = {"op"} /\ "of" \notin {"op"}
      BY DEF NoCall
    <3> QED
      BY <3>1, <3>2
  <2> QED
    BY <1>1, <1>2, <2>1, <2>2 DEF Answered
<1> QED
  BY <1>4, <1>5, <1>6

(* The call that reads the number begins. *)
LEMMA ParsesFollows ==
  ASSUME NumberTypeOK, NumberInv, Parses
  PROVE  NumberInv'
<1>1. CASE number = None \/ number.asked
  <2>1. number' = None
    BY <1>1 DEF Parses
  <2> QED
    BY <2>1 DEF NumberInv
<1>2. CASE number # None /\ ~number.asked
  <2>1. /\ number' = [number EXCEPT !.asked = TRUE]
        /\ number \in [v : Int, places : Nat, asked : BOOLEAN]
    BY <1>2 DEF Parses, NumberTypeOK
  <2>2. number'.v = number.v /\ number'.places = number.places /\ number'.asked
    BY <2>1
  <2>3. PICK s \in Seq(Nat), l \in Nat, f \in Nat, m \in Nat, w \in Nat, e \in Nat, g \in Nat :
           Follows(s, l, f, m, w, e, g)
    BY <1>2 DEF NumberInv
  <2>4. /\ Spells(s, l, f, m, w, e, g)
        /\ Stands(l, f, m, w, e, g, number.v, number.places) /\ Ahead(s, 0)
    BY <1>2, <2>3 DEF Follows
  <2>5. /\ taken' = << >> /\ wire' = wire /\ ready' = ready
        /\ \E ends \in {{}, {46}} :
             call' = [op |-> "parse", at |-> "look", ends |-> ends, skips |-> Space,
                      phase |-> "skip", negative |-> FALSE, value |-> 0, places |-> 0]
    BY DEF Parses, parseInt, parseFloat, Parsing, Begins
  <2>6. call' # NoCall /\ Parsed(call')
    BY <2>5 DEF Parsed, NoCall, Point
  <2>7. Len(taken') = 0 /\ Ahead(s, Len(taken))'
    BY <2>4, <2>5 DEF Ahead
  <2>8. Knows(call', 0, l, f, m, w, e, g)
    <3>1. 0 \in 0 .. l
      OBVIOUS
    <3>2. call'.phase = "skip" /\ call'.value = 0 /\ call'.places = 0 /\ ~call'.negative
      BY <2>5
    <3> QED
      BY <3>1, <3>2 DEF Knows
  <2>9. Follows(s, l, f, m, w, e, g)'
    BY <2>2, <2>4, <2>6, <2>7, <2>8 DEF Follows
  <2> QED
    BY <2>3, <2>9 DEF NumberInv
<1> QED
  BY <1>1, <1>2

(* A step of the call, and a byte that arrives. *)
LEMMA StepFollows ==
  ASSUME StreamInv, StreamBytes, NumberInv, StreamStep \/ Arrives, UNCHANGED number
  PROVE  NumberInv'
<1>1. CASE number = None
  BY <1>1 DEF NumberInv
<1>2. CASE number # None
  <2>1. PICK s \in Seq(Nat), l \in Nat, f \in Nat, m \in Nat, w \in Nat, e \in Nat, g \in Nat :
           Follows(s, l, f, m, w, e, g)
    BY <1>2 DEF NumberInv
  <2>2. Follows(s, l, f, m, w, e, g)'
    <3>1. /\ Spells(s, l, f, m, w, e, g)
          /\ Stands(l, f, m, w, e, g, number.v, number.places)
      BY <2>1 DEF Follows
    <3>2. CASE Arrives
      <4>1. UNCHANGED <<call, taken, answer>>
        BY <3>2 DEF Arrives
      <4>2. ~number.asked => Ahead(s, 0)'
        BY <2>1, <3>2, AheadArrives DEF Follows
      <4>3. number.asked /\ call # NoCall => Ahead(s, Len(taken))'
        <5> HAVE number.asked /\ call # NoCall
        <5>1. PICK n : n = Len(taken) /\ Ahead(s, n)
          BY <2>1 DEF Follows
        <5>2. Ahead(s, n)'
          BY <3>2, <5>1, AheadArrives
        <5> QED
          BY <4>1, <5>1, <5>2 DEF Ahead
      <4>4. number.asked /\ call = NoCall => ReadsBack(number.v, number.places)'
        BY <2>1, <4>1 DEF Follows, ReadsBack, Answered
      <4> QED
        BY <2>1, <3>1, <4>1, <4>2, <4>3, <4>4 DEF Follows, Parsed, Knows
    <3>3. CASE StreamStep
      <4>1. call # NoCall
        <5>1. \A op \in {"find", "findUntil", "bytes", "parse"} : Looked(op) => call # NoCall
          BY DEF Looked, NoCall
        <5>2. CASE FindStep \/ FindUntilStep \/ BytesStep
          BY <5>1, <5>2 DEF FindStep, FindUntilStep, BytesStep
        <5>3. CASE ParseStep \/ ParseEnds
          BY <5>1, <5>3 DEF ParseStep, ParseEnds
        <5>4. CASE WantsNothing \/ Misses \/ ChecksClock
          BY <5>4 DEF WantsNothing, Misses, ChecksClock
        <5> QED
          BY <3>3, <5>2, <5>3, <5>4 DEF StreamStep
      <4>2. /\ number.asked /\ Parsed(call) /\ Ahead(s, Len(taken))
            /\ Knows(call, Len(taken), l, f, m, w, e, g)
        BY <2>1, <4>1 DEF Follows
      <4>3. StreamTypeOK /\ CallInv
        BY DEF StreamInv
      <4>4. call.op = "parse"
        BY <4>2 DEF Parsed
      <4>5. ParseStep \/ ParseEnds \/ Misses \/ ChecksClock
        BY <3>3, <4>1, <4>3, <4>4
        DEF StreamStep, WantsNothing, FindStep, FindUntilStep, BytesStep, Looked, CallInv
      <4>6. CASE ParseStep
        BY <3>1, <4>2, <4>3, <4>6, ParseStepKnows DEF Follows
      <4>7. CASE ParseEnds
        <5>1. PICK v, p : v = number.v /\ p = number.places
          OBVIOUS
        <5>2. ReadsBack(v, p)'
          BY <3>1, <4>2, <4>3, <4>7, <5>1, ParseEndsReadsBack
        <5>3. call' = NoCall
          BY <4>7 DEF ParseEnds, Returns
        <5> QED
          BY <3>1, <4>2, <5>1, <5>2, <5>3 DEF Follows
      <4>8. CASE Misses \/ ChecksClock
        <5>1. PICK n : n = Len(taken) /\ Ahead(s, n) /\ Knows(call, n, l, f, m, w, e, g)
          BY <4>2
        <5>2. /\ UNCHANGED <<wire, ready, taken>>
              /\ \/ call' # NoCall /\ Parsed(call') /\ Knows(call', n, l, f, m, w, e, g)
                 \/ call' = NoCall /\ Answered("parse")' /\ answer'.late
          BY <4>2, <4>3, <4>8, <5>1, ParseWaits
        <5>3. Ahead(s, Len(taken))'
          BY <5>1, <5>2 DEF Ahead
        <5>4. call' = NoCall => ReadsBack(number.v, number.places)'
          BY <5>2 DEF ReadsBack
        <5> QED
          BY <3>1, <4>2, <5>1, <5>2, <5>3, <5>4 DEF Follows
      <4> QED
        BY <4>5, <4>6, <4>7, <4>8
    <3> QED
      BY <3>2, <3>3
  <2> QED
    BY <2>1, <2>2 DEF NumberInv
<1> QED
  BY <1>1, <1>2

(* What touches neither the stream nor the call. *)
LEMMA FollowsKept ==
  ASSUME NumberInv, UNCHANGED <<wire, ready, call, taken, answer, number>>
  PROVE  NumberInv'
<1>1. CASE number = None
  BY <1>1 DEF NumberInv
<1>2. CASE number # None
  <2>1. PICK s \in Seq(Nat), l \in Nat, f \in Nat, m \in Nat, w \in Nat, e \in Nat, g \in Nat :
           Follows(s, l, f, m, w, e, g)
    BY <1>2 DEF NumberInv
  <2>2. Follows(s, l, f, m, w, e, g)'
    BY <2>1 DEF Follows, Ahead, Parsed, Knows, ReadsBack, Answered
  <2> QED
    BY <2>1, <2>2 DEF NumberInv
<1> QED
  BY <1>1, <1>2

(* The number that is printed is followed from the peer to the answer.     *)
THEOREM NumberFollowed == Spec => [](StreamBytes /\ NumberInv)
<1>1. Init => StreamBytes /\ NumberInv
  BY DEF Init, StreamInit, StreamBytes, NumberInv
<1>2. /\ StreamBytes /\ NumberInv /\ StreamInv /\ NumberTypeOK /\ [Next]_vars
      => (StreamBytes /\ NumberInv)'
  <2> SUFFICES ASSUME StreamBytes, NumberInv, StreamInv, NumberTypeOK, [Next]_vars
               PROVE  NumberInv'
    BY StreamBytesKept
  <2>1. CASE Peer
    BY <2>1, PeerPrints
  <2>2. CASE Parses
    BY <2>2, ParsesFollows
  <2>3. CASE ReadsText
    BY <2>3 DEF ReadsText, NumberInv
  <2>4. CASE Step
    BY <2>4, StepFollows DEF Step
  <2>5. CASE Tick
    BY <2>5, FollowsKept DEF Tick, StreamTick
  <2>6. CASE UNCHANGED <<streamVars, number>>
    BY <2>6, FollowsKept DEF streamVars
  <2> QED
    BY <2>1, <2>2, <2>3, <2>4, <2>5, <2>6 DEF Next, OnStream, OnString, vars
<1> QED
  BY <1>1, <1>2, StreamInductive, NumberTyped, PTL DEF Spec

(* A number that the peer has printed is the number that is read, its sign *)
(* and its zeros behind the point, for every long and every double of this *)
(* precision, however its bytes arrive.                                    *)
THEOREM NumberReadBack == Spec => []ReadsBackWhatWasPrinted
<1>1. NumberInv /\ NumberTypeOK => ReadsBackWhatWasPrinted
  <2> SUFFICES ASSUME NumberInv, NumberTypeOK, Answered("parse"), number.asked, ~answer.late
               PROVE  IF answer.of.ends = {} \/ number.places = 0
                      THEN Abs(answer.value.n * Unit - number.v) < Unit
                      ELSE /\ answer.value.places = number.places
                           /\ 2 * Abs(answer.value.n * Unit - number.v * Tens[number.places])
                                <= Unit
    BY DEF ReadsBackWhatWasPrinted
  <2>1. number # None /\ call = NoCall
    BY DEF None, Answered
  <2>2. ReadsBack(number.v, number.places)
    BY <2>1 DEF NumberInv, Follows
  <2> QED
    BY <2>2 DEF ReadsBack
<1> QED
  BY <1>1, NumberFollowed, NumberTyped, PTL

-----------------------------------------------------------------------------
(* Calls of Stream end: what lets them wait only runs out. *)
Coming == Len(wire) + Len(ready)

(* While a call is under way, it takes a byte that was still to come, and  *)
(* waits anew; or none is gained and its wait is not shortened.  The wait  *)
(* never exceeds the timeout, and with that reached a call does not look   *)
(* at the clock and go on.                                                 *)
RunsOut ==
    (call # NoCall /\ call' # NoCall) =>
        /\ \/ Coming' = Coming - 1
           \/ Coming' = Coming /\ waited' >= waited
        /\ waited' <= Timeout
        /\ waited = Timeout => call.at # "clock" \/ call' = call

Waiting == waited \in 0 .. Timeout

LEMMA ComingIs ==
  ASSUME StreamBytes
  PROVE  \E m \in Nat, n \in Nat : m = Len(wire) /\ n = Len(ready) /\ Coming = m + n
BY DEF StreamBytes, Coming

LEMMA TakingRunsOut ==
  ASSUME StreamBytes, ready # << >>, Taking
  PROVE  Coming' = Coming - 1 /\ waited' = 0
<1>1. PICK m \in Nat, n \in Nat : m = Len(wire) /\ n = Len(ready) /\ Coming = m + n
  BY ComingIs
<1>2. wire' = wire /\ ready' = Tail(ready) /\ ready \in Seq(Nat) /\ waited' = 0
  BY DEF Taking, StreamBytes
<1>3. Len(ready') = n - 1
  BY <1>1, <1>2
<1>4. Coming' = m + (n - 1)
  BY <1>1, <1>2, <1>3 DEF Coming
<1>5. m \in Nat /\ n \in Nat /\ Coming = m + n
  BY <1>1
<1> QED
  BY <1>2, <1>4, <1>5

LEMMA ArrivesRunsOut ==
  ASSUME StreamBytes, Arrives
  PROVE  Coming' = Coming
<1>1. PICK m \in Nat, n \in Nat : m = Len(wire) /\ n = Len(ready) /\ Coming = m + n
  BY ComingIs
<1>2. /\ wire \in Seq(Nat) /\ wire # << >> /\ ready \in Seq(Nat)
      /\ wire' = Tail(wire) /\ ready' = Append(ready, Head(wire))
  BY DEF Arrives, StreamBytes
<1>3. Len(wire') = m - 1
  BY <1>1, <1>2
<1>4. Len(ready') = n + 1
  BY <1>1, <1>2
<1>5. Coming' = (m - 1) + (n + 1)
  BY <1>3, <1>4 DEF Coming
<1>6. m \in Nat /\ n \in Nat /\ Coming = m + n
  BY <1>1
<1> QED
  BY <1>5, <1>6

LEMMA StepRunsOut ==
  ASSUME StreamBytes, Waiting, [Next]_vars
  PROVE  Waiting' /\ RunsOut
<1>0. Timeout \in Nat /\ waited \in Nat /\ waited <= Timeout
  BY TimeoutAssumption DEF Waiting
<1>1. CASE Peer
  BY <1>1 DEF Peer, Printed, PeerSays, Waiting, RunsOut
<1>2. CASE Parses \/ ReadsText
  <2>1. waited' = 0 /\ call = NoCall
    BY <1>2 DEF Parses, parseInt, parseFloat, Parsing, ReadsText, find, findUntil,
                readBytes, Begins
  <2> QED
    BY <1>0, <2>1 DEF Waiting, RunsOut
<1>3. CASE Arrives
  <2>1. Coming' = Coming
    BY <1>3, ArrivesRunsOut
  <2>2. waited' = waited /\ call' = call
    BY <1>3 DEF Arrives
  <2> QED
    BY <1>0, <2>1, <2>2 DEF Waiting, RunsOut
<1>4. CASE StreamTick
  <2>1. waited' = waited + 1 /\ waited < Timeout
    BY <1>4 DEF StreamTick
  <2>2. Coming' = Coming
    BY <1>4 DEF StreamTick, Coming
  <2> QED
    BY <1>0, <2>1, <2>2 DEF Waiting, RunsOut
<1>5. CASE StreamStep
  <2>1. CASE FindStep \/ FindUntilStep \/ BytesStep \/ ParseStep
    <3>1. Taking /\ ready # << >> /\ call.at = "look"
      BY <2>1 DEF FindStep, FindUntilStep, BytesStep, ParseStep, Reads, Looked
    <3>2. Coming' = Coming - 1 /\ waited' = 0
      BY <3>1, TakingRunsOut
    <3> QED
      BY <1>0, <3>1, <3>2 DEF Waiting, RunsOut
  <2>2. CASE ParseEnds \/ WantsNothing
    BY <1>0, <2>2 DEF ParseEnds, WantsNothing, Returns, Waiting, RunsOut
  <2>3. CASE Misses
    <3>1. waited' = waited /\ call.at = "look"
      BY <2>3 DEF Misses
    <3>2. Coming' = Coming
      BY <2>3 DEF Misses, Coming
    <3> QED
      BY <1>0, <3>1, <3>2 DEF Waiting, RunsOut
  <2>4. CASE ChecksClock
    <3>1. waited' = waited
      BY <2>4 DEF ChecksClock
    <3>2. Coming' = Coming
      BY <2>4 DEF ChecksClock, Coming
    <3>3. ASSUME waited = Timeout
          PROVE  call' = NoCall
      <4>1. ~(waited < Timeout)
        BY <1>0, <3>3
      <4> QED
        BY <2>4, <4>1 DEF ChecksClock, Returns
    <3> QED
      BY <1>0, <3>1, <3>2, <3>3 DEF Waiting, RunsOut
  <2> QED
    BY <1>5, <2>1, <2>2, <2>3, <2>4 DEF StreamStep
<1>6. CASE UNCHANGED streamVars
  <2>1. waited' = waited /\ call' = call
    BY <1>6 DEF streamVars
  <2>2. Coming' = Coming
    BY <1>6 DEF streamVars, Coming
  <2> QED
    BY <1>0, <2>1, <2>2 DEF Waiting, RunsOut
<1> QED
  BY <1>1, <1>2, <1>3, <1>4, <1>5, <1>6
  DEF Next, OnStream, OnString, Step, Tick, vars

(* The bytes and the time that a call may wait for run out: the safety     *)
(* half of EveryCallReturns.                                               *)
THEOREM CallsRunOut == Spec => [][RunsOut]_vars
<1>1. Init => Waiting
  BY TimeoutAssumption DEF Init, StreamInit, Waiting
<1>2. StreamBytes /\ Waiting /\ [Next]_vars => Waiting' /\ [RunsOut]_vars
  BY StepRunsOut
<1>3. Spec => []StreamBytes
  <2>1. StreamBytes /\ NumberInv => StreamBytes
    OBVIOUS
  <2> QED
    BY <2>1, NumberFollowed, PTL
<1> QED
  BY <1>1, <1>2, <1>3, PTL DEF Spec
=============================================================================
