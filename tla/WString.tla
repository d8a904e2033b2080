------------------------------- MODULE WString -------------------------------
(***************************************************************************)
(* cores/arduino/WString.cpp: a String in its buffer on the heap, which    *)
(* may refuse it more room.  A character is a number, 0 the terminator.    *)
(***************************************************************************)
EXTENDS Integers, Sequences, SequencesExt

CONSTANTS
    Char, Blank,  \* bound: the characters; the one that trim() takes away
    FirstCap,     \* the first capacity: 16
    Heap,         \* bound: the largest buffer the heap may have to give
    MaxLen        \* bound: characters in a String

ASSUME StringAssumption ==
    /\ Blank \in Char /\ Char \subseteq Nat \ {0}
    /\ FirstCap \in Nat \ {0} /\ Heap \subseteq Nat /\ MaxLen \in Nat

VARIABLES
    _buf,   \* the bytes of the buffer, << >> for NULL; _cap is its length
    _len,
    text    \* history: what the calls so far make of the String

stringVars == <<_buf, _len, text>>

NUL == 0
Junk == -1
Texts(n) == UNION {[1 .. k -> Char] : k \in 0 .. n}
Min2(a, b) == IF a < b THEN a ELSE b

StringInit == _buf = << >> /\ _len = 0 /\ text = << >>

-----------------------------------------------------------------------------
(* Buffers.  memcpy() and memmove() of the bytes s to the offset i. *)
Store(buf, i, s) ==
    [k \in 1 .. Len(buf) |-> IF k \in i + 1 .. i + Len(s) THEN s[k - i] ELSE buf[k]]

(* changeBuffer(): realloc() keeps what was there. *)
Grow(buf, size) == [k \in 1 .. size |-> IF k <= Len(buf) THEN buf[k] ELSE Junk]

(* appendBuffer() of s to a String of a buffer and a length: the capacity  *)
(* is doubled until s and the terminator fit; refused, nothing changes.    *)
Needs(str, s) == str.len + Len(s) + 1

NewCap(str, n) ==
    LET first == IF str.buf = << >> THEN FirstCap ELSE Len(str.buf)
        Doubled[c \in Nat \ {0}] == IF c < n THEN Doubled[2 * c] ELSE c
    IN  Doubled[first]

Appended(str, s, heap) ==
    LET n == Needs(str, s)
        roomy == IF n <= Len(str.buf) THEN str.buf
                 ELSE IF NewCap(str, n) <= heap THEN Grow(str.buf, NewCap(str, n))
                 ELSE << >>
    IN  IF s = << >> \/ roomy = << >> THEN str
        ELSE [buf |-> Store(roomy, str.len, Append(s, NUL)), len |-> str.len + Len(s)]

Buffers == [buf : Seq(Char \cup {NUL, Junk}), len : Nat]
Null == [buf |-> << >>, len |-> 0]
This == [buf |-> _buf, len |-> _len]
Held(str) == SubSeq(str.buf, 1, str.len)

(* operator=: a String is emptied in its buffer, and appended to. *)
Emptied(str) ==
    [buf |-> IF str.buf = << >> THEN << >> ELSE Store(str.buf, 0, <<NUL>>), len |-> 0]

Becomes(str) == _buf' = str.buf /\ _len' = str.len

-----------------------------------------------------------------------------
(* The calls.  What they make of the text is said in terms of the text.    *)
(* concat() and the constructors.                                          *)
Concat(s, heap) ==
    /\ Len(text) + Len(s) <= MaxLen
    /\ Becomes(Appended(This, s, heap))
    /\ text' = IF _len' = _len THEN text ELSE text \o s

(* A String appended to itself; when the buffer moves, the code goes on    *)
(* reading the one it gave back.                                           *)
ConcatSelf ==
    /\ 2 * Len(text) <= MaxLen /\ Needs(This, text) <= Len(_buf)
    /\ Becomes(Appended(This, Held(This), 0))
    /\ text' = text \o text

Assign(s, heap) ==
    /\ Becomes(Appended(Emptied(This), s, heap))
    /\ text' = IF _len' = 0 THEN << >> ELSE s

(* reserve(), of more than nothing: a larger buffer is an empty one. *)
Reserve(size, heap) ==
    IF (_buf # << >> /\ Len(_buf) >= size) \/ size > heap
    THEN UNCHANGED stringVars
    ELSE /\ _buf' = Store(Grow(_buf, size), 0, <<NUL>>)
         /\ _len' = 0 /\ text' = << >>

(* setCharAt() *)
SetCharAt(i, c) ==
    /\ i < _len
    /\ _buf' = Store(_buf, i, <<c>>)
    /\ text' = [text EXCEPT ![i + 1] = c]
    /\ UNCHANGED _len

(* replace() of a character, toLowerCase(), toUpperCase(). *)
MapChars(f) ==
    /\ _buf' = [k \in 1 .. Len(_buf) |-> IF k <= _len THEN f[_buf[k]] ELSE _buf[k]]
    /\ text' = [k \in 1 .. Len(text) |-> f[text[k]]]
    /\ UNCHANGED _len

(* remove(): the rest and its terminator move down. *)
StringRemove_KeepsNul(i, n) ==
    LET count == Min2(n, _len - i) IN
    /\ i < _len
    /\ _buf' = Store(_buf, i, SubSeq(_buf, i + count + 1, _len))
    /\ _len' = _len - count
    /\ text' = SubSeq(text, 1, i) \o SubSeq(text, i + n + 1, Len(text))

StringRemove(i, n) ==
    LET count == Min2(n, _len - i) IN
    /\ i < _len
    /\ _buf' = Store(_buf, i, SubSeq(_buf, i + count + 1, _len + 1))
    /\ _len' = _len - count
    /\ text' = SubSeq(text, 1, i) \o SubSeq(text, i + n + 1, Len(text))

(* trim() *)
Kept == {k \in 1 .. _len : _buf[k] # Blank}
FirstKept == CHOOSE k \in Kept : \A j \in Kept : k <= j
LastKept == CHOOSE k \in Kept : \A j \in Kept : k >= j
Trimmed == IF Kept = {} THEN << >> ELSE SubSeq(_buf, FirstKept, LastKept)

Trim ==
    /\ IF Trimmed # Held(This)
       THEN _buf' = Store(_buf, 0, Append(Trimmed, NUL)) /\ _len' = Len(Trimmed)
       ELSE UNCHANGED <<_buf, _len>>
    /\ \E i \in 1 .. Len(text) + 1, j \in 0 .. Len(text) : text' = SubSeq(text, i, j)
    /\ \E a, b \in 0 .. Len(text) :
         text = [k \in 1 .. a |-> Blank] \o text' \o [k \in 1 .. b |-> Blank]
    /\ text' # << >> => Blank \notin {text'[1], text'[Len(text')]}

(* replace() of a String: piece by piece into another one, then assigned.  *)
Matches(s, i, p) == i + Len(p) <= Len(s) /\ SubSeq(s, i + 1, i + Len(p)) = p

Replaced(s, find, with, heap) ==
    LET Loop[p \in [i : 0 .. Len(s), out : Buffers]] ==
            IF p.i = Len(s) THEN p.out
            ELSE IF Matches(s, p.i, find)
                 THEN Loop[[i |-> p.i + Len(find), out |-> Appended(p.out, with, heap)]]
                 ELSE Loop[[i |-> p.i + 1, out |-> Appended(p.out, <<s[p.i + 1]>>, heap)]]
    IN  Loop[[i |-> 0, out |-> Null]]

(* The same said of a text: at the first occurrence, then after it. *)
Occurrences(s, p) == {i \in 0 .. Len(s) : Matches(s, i, p)}
Least(S) == CHOOSE i \in S : \A j \in S : i <= j

Substituted(s, find, with) ==
    LET From[i \in 0 .. Len(s)] ==
            LET later == {j \in Occurrences(s, find) : j >= i} IN
            IF later = {} THEN SubSeq(s, i + 1, Len(s))
            ELSE SubSeq(s, i + 1, Least(later)) \o with
                   \o From[Least(later) + Len(find)]
    IN  From[0]

Replace(find, with, heap) ==
    LET out == Replaced(Held(This), find, with, heap)
        result == Substituted(text, find, with)
    IN  /\ find # << >> /\ Len(find) <= _len
        /\ Len(result) <= MaxLen
        /\ Becomes(Appended(Emptied(This), Held(out), heap))
        /\ text' = IF heap >= FirstCap /\ heap >= 2 * (MaxLen + 1) THEN result
                   ELSE SubSeq(_buf', 1, _len')

StringStep ==
    \/ \E heap \in Heap :
         \/ \E s \in Texts(2) : Concat(s, heap) \/ Assign(s, heap)
         \/ \E size \in Heap \ {0} : Reserve(size, heap)
         \/ \E find \in Texts(2), with \in Texts(2) : Replace(find, with, heap)
    \/ ConcatSelf \/ Trim
    \/ \E i \in 0 .. MaxLen - 1 :
         \/ \E c \in Char : SetCharAt(i, c)
         \/ \E n \in 1 .. MaxLen : StringRemove(i, n)
    \/ \E f \in [Char -> Char] : MapChars(f)

-----------------------------------------------------------------------------
(* Questions.  What the C library looks at ends at the first terminator.   *)
CString(i) ==
    LET ends == {k \in i + 1 .. Len(_buf) : _buf[k] = NUL} IN
    IF ends = {} THEN <<Junk>> ELSE SubSeq(_buf, i + 1, Least(ends) - 1)

startsWith(p, offset) == offset <= _len /\ Matches(_buf, offset, p)
endsWith(p) == Len(p) <= _len /\ CString(_len - Len(p)) = p

indexOf(p, from) ==
    LET found == Occurrences(CString(from), p) IN
    IF from >= _len \/ found = {} THEN -1 ELSE from + Least(found)

lastIndexOf_StopsEarly(p, from) ==
    LET Down[i \in Int] ==
            IF i <= 0 THEN -1 ELSE IF Matches(_buf, i, p) THEN i ELSE Down[i - 1]
    IN  IF p = << >> \/ _len = 0 \/ Len(p) > _len \/ from > _len THEN -1
        ELSE Down[from - Len(p)]

lastIndexOf(p, from) ==
    LET Down[i \in Int] ==
            IF i < 0 THEN -1 ELSE IF Matches(_buf, i, p) THEN i ELSE Down[i - 1]
    IN  IF p = << >> \/ _len = 0 \/ Len(p) > _len \/ from > _len THEN -1
        ELSE Down[from - Len(p)]

substring(begin, end) ==
    LET b == Min2(begin, _len)
        e == Min2(end, _len)
    IN  IF e < b THEN << >> ELSE SubSeq(_buf, b + 1, e)

-----------------------------------------------------------------------------
(* Whatever the calls and whatever the heap refused them, the buffer holds *)
(* the text that the calls that were granted make, and its terminator is   *)
(* inside the buffer: a refused concat() leaves the String as it was, a    *)
(* refused operator= leaves it empty, and reserve() of more empties it.    *)
(* (replace() on a heap that refuses loses the pieces it had no room for.) *)
StringIsText ==
    /\ Held(This) = text
    /\ IF _buf = << >> THEN _len = 0 ELSE _len < Len(_buf) /\ _buf[_len + 1] = NUL

(* The answers are those about the text: what lies behind the terminator,  *)
(* of earlier and longer texts, is not found; the last occurrence is found *)
(* at the very beginning as well, and ends where the search was to start.  *)
AnswersAreOfTheText ==
    \A p \in Texts(2) \ {<< >>}, from \in 0 .. MaxLen + 1 :
        LET at == Occurrences(text, p) IN
        /\ indexOf(p, from) =
             IF \A i \in at : i < from THEN -1 ELSE Least({i \in at : i >= from})
        /\ lastIndexOf(p, from) =
             LET before == {i \in at : i + Len(p) <= from} IN
             IF before = {} \/ from > Len(text) THEN -1
             ELSE CHOOSE i \in before : \A j \in before : j <= i
        /\ startsWith(p, from) <=> from \in at
        /\ endsWith(p) <=> Len(text) - Len(p) \in at
        /\ \A to \in 0 .. MaxLen + 1 :
             substring(from, to) = SubSeq(text, from + 1, Min2(to, Len(text)))
=============================================================================
