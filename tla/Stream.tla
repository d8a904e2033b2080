------------------------------- MODULE Stream -------------------------------
(***************************************************************************)
(* cores/arduino/Stream.cpp: text read byte by byte from a peer, a byte    *)
(* being waited for until the timeout.  timedRead() looks for a byte, then *)
(* at the clock, and one may arrive between the two.                       *)
(***************************************************************************)
EXTENDS Integers, Sequences, SequencesExt

CONSTANT Timeout  \* _timeout, in the ticks that millis() counts here

ASSUME TimeoutAssumption == Timeout \in Nat

VARIABLES
    wire, ready,  \* bytes the peer has sent: under way, and available()
    call,         \* the call under way, and what it knows
    waited,       \* ticks since timedRead() or timedPeek() began
    taken,        \* history: the bytes that the call has read
    answer        \* history: the last call that returned, and its answer

streamVars == <<wire, ready, call, waited, taken, answer>>

NoCall == [op |-> "none"]

StreamInit ==
    /\ wire = << >> /\ ready = << >>
    /\ call = NoCall /\ answer = NoCall
    /\ waited = 0 /\ taken = << >>

(* The peer's bytes arrive one by one, and time passes. *)
Arrives ==
    /\ wire # << >>
    /\ ready' = Append(ready, Head(wire))
    /\ wire' = Tail(wire)
    /\ UNCHANGED <<call, waited, taken, answer>>

StreamTick ==
    /\ call # NoCall /\ waited < Timeout
    /\ waited' = waited + 1
    /\ UNCHANGED <<wire, ready, call, taken, answer>>

-----------------------------------------------------------------------------
(* The calls, each with what it keeps from byte to byte.  What wants no    *)
(* byte does not look for one.                                             *)
Begins(op) ==
    /\ call = NoCall
    /\ call' = op
    /\ waited' = 0 /\ taken' = << >> /\ answer' = NoCall
    /\ UNCHANGED <<wire, ready>>

Looking(wants) == IF wants THEN "look" ELSE "done"

find(target) ==
    Begins([op |-> "find", at |-> Looking(target # << >>),
            target |-> target, index |-> 0])

findUntil(target, terminator) ==
    Begins([op |-> "findUntil", at |-> Looking(target # << >>),
            target |-> target, index |-> 0, terminator |-> terminator, tindex |-> 0])

Parsing(ends, skips) ==
    Begins([op |-> "parse", at |-> "look", ends |-> ends, skips |-> skips,
            phase |-> "skip", negative |-> FALSE, value |-> 0, places |-> 0])

parseInt(skips) == Parsing({}, skips)
parseFloat(skips) == Parsing({46}, skips)

(* readBytes() and readBytesUntil(), and, with no length, readString() and *)
(* readStringUntil(); with no terminator, terminators is empty.            *)
NoLength == -1

readBytes(length, terminators) ==
    Begins([op |-> "bytes", at |-> Looking(length # 0), length |-> length,
            terminators |-> terminators, buffer |-> << >>])

Returns(value, late) ==
    /\ call' = NoCall
    /\ answer' = [of |-> call, value |-> value, late |-> late]

Continues(c) == call' = c /\ UNCHANGED answer

(* A byte that was there: the wait for the next one starts anew. *)
Looked(op) == call.op = op /\ call.at = "look" /\ ready # << >>
Byte == Head(ready)

Taking ==
    /\ ready' = Tail(ready)
    /\ taken' = Append(taken, Byte)
    /\ waited' = 0
    /\ UNCHANGED wire

(* How far a target is matched after one more byte. *)
Progress_FromScratch(target, index) ==
    IF Byte = target[index + 1] THEN index + 1 ELSE 0

Progress(target, index) ==
    IF Byte = target[index + 1] THEN index + 1
    ELSE IF Byte = target[1] THEN 1 ELSE 0

FindStep ==
    LET index == Progress(call.target, call.index) IN
    /\ Looked("find")
    /\ Taking
    /\ IF index = Len(call.target)
       THEN Returns(TRUE, FALSE)
       ELSE Continues([call EXCEPT !.index = index])

FindUntilStep ==
    LET ending == Byte = call.terminator[call.tindex + 1]
        index == IF ending THEN 0 ELSE Progress(call.target, call.index)
        tindex == IF ending THEN call.tindex + 1 ELSE 0
    IN  /\ Looked("findUntil")
        /\ Taking
        /\ IF tindex = Len(call.terminator) THEN Returns(FALSE, FALSE)
           ELSE IF index = Len(call.target) THEN Returns(TRUE, FALSE)
           ELSE Continues([call EXCEPT !.index = index, !.tindex = tindex])

BytesStep ==
    LET more == Append(call.buffer, Byte) IN
    /\ Looked("bytes")
    /\ Taking
    /\ IF Byte \in call.terminators THEN Returns(call.buffer, FALSE)
       ELSE IF Len(more) = call.length THEN Returns(more, FALSE)
       ELSE Continues([call EXCEPT !.buffer = more])

(* parseInt() and parseFloat() look before they read: what they cannot use *)
(* stays.  The value is a whole number and its decimal places.             *)
Digit == Byte \in 48 .. 57
Value == [n |-> IF call.negative THEN -call.value ELSE call.value,
          places |-> call.places]

Reads(c) == Taking /\ Continues(c)

ParseStep ==
    /\ Looked("parse")
    /\ \/ /\ call.phase = "skip" /\ ~Digit /\ Byte # 45
          /\ Byte \in call.skips /\ Byte \notin call.ends
          /\ Reads(call)
       \/ /\ call.phase = "skip" /\ Byte = 45
          /\ Reads([call EXCEPT !.negative = TRUE, !.phase = "digits"])
       \/ /\ Digit
          /\ Reads([call EXCEPT
                      !.value = 10 * @ + Byte - 48,
                      !.phase = IF @ = "skip" THEN "digits" ELSE @,
                      !.places = IF call.phase = "fraction" THEN @ + 1 ELSE @])
       \/ /\ Byte \in call.ends /\ call.phase # "fraction"
          /\ Reads([call EXCEPT !.phase = "fraction"])

ParseEnds ==
    /\ Looked("parse")
    /\ ~Digit
    /\ Byte \in call.ends => call.phase = "fraction"
    /\ call.phase = "skip" => Byte # 45 /\ Byte \notin call.skips
    /\ Returns(Value, FALSE)
    /\ UNCHANGED <<wire, ready, waited, taken>>

(* No byte was there: the clock is looked at, and the call goes on looking *)
(* or returns what it has.                                                 *)
Misses ==
    /\ call # NoCall /\ call.at = "look" /\ ready = << >>
    /\ call' = [call EXCEPT !.at = "clock"]
    /\ UNCHANGED <<wire, ready, waited, taken, answer>>

ChecksClock_Waits ==
    /\ call # NoCall /\ call.at = "clock"
    /\ Continues([call EXCEPT !.at = "look"])
    /\ UNCHANGED <<wire, ready, waited, taken>>

ChecksClock ==
    /\ call # NoCall /\ call.at = "clock"
    /\ IF waited < Timeout
       THEN Continues([call EXCEPT !.at = "look"])
       ELSE Returns(CASE call.op = "parse" -> Value
                    []   call.op = "bytes" -> call.buffer
                    []   OTHER -> FALSE, TRUE)
    /\ UNCHANGED <<wire, ready, waited, taken>>

WantsNothing ==
    /\ call # NoCall /\ call.at = "done"
    /\ Returns(IF call.op = "bytes" THEN << >> ELSE TRUE, FALSE)
    /\ UNCHANGED <<wire, ready, waited, taken>>

StreamStep ==
    WantsNothing \/ FindStep \/ FindUntilStep \/ BytesStep \/ ParseStep \/ ParseEnds
      \/ Misses \/ ChecksClock

-----------------------------------------------------------------------------
Answered(op) == call = NoCall /\ answer # NoCall /\ answer.of.op = op

(* A target that find() restarts well on: after a mismatch, no more of it  *)
(* than its first byte is matched already.  ("aab" is none: its search     *)
(* passes over the one in "aaab".)                                         *)
Restartable(t) ==
    \A k \in 1 .. Len(t) - 1, m \in 2 .. Len(t) - 1 :
        (m <= k /\ t[m] # t[k + 1]) => SubSeq(t, k - m + 2, k) # SubSeq(t, 1, m - 1)

Seen(t) == \E i \in 0 .. Len(taken) - Len(t) : SubSeq(taken, i + 1, i + Len(t)) = t

(* find() and findUntil() answer TRUE at the first occurrence of the       *)
(* target in what they read, and FALSE only when there was none, before    *)
(* the terminator or until the timeout; nothing behind it is read.  (For   *)
(* targets that restart well, and terminators of one byte that is not in   *)
(* the target: of a longer one the first byte is passed over as well, and  *)
(* a byte that is in both counts for the terminator only.)                 *)
FindIsExact ==
    /\ Answered("find") /\ Restartable(answer.of.target) =>
         /\ answer.value = Seen(answer.of.target)
         /\ answer.value => IsSuffix(answer.of.target, taken)
    /\ (Answered("findUntil") /\ Restartable(answer.of.target)
          /\ Len(answer.of.terminator) = 1
          /\ answer.of.terminator[1] \notin ToSet(answer.of.target)) =>
         /\ answer.value = Seen(answer.of.target)
         /\ Seen(answer.of.terminator) => ~answer.value
         /\ Seen(answer.of.terminator) \/ answer.value \/ answer.late

(* What readBytes() and the like return is what they took from the stream, *)
(* less the terminator: a byte that comes while the timeout is looked at   *)
(* is there for the next call, and a call that has its length leaves the   *)
(* terminator where it is.                                                 *)
BytesAreAccountedFor ==
    Answered("bytes") =>
        LET of == answer.of IN
        /\ answer.value = IF taken # << >> /\ Last(taken) \in of.terminators
                          THEN Front(taken) ELSE taken
        /\ \A i \in 1 .. Len(taken) - 1 : taken[i] \notin of.terminators
        /\ ~answer.late =>
             Len(answer.value) = of.length \/ Last(taken) \in of.terminators
        /\ of.length # NoLength => Len(answer.value) <= of.length

(* What a call answers is true of what it has read, and of no byte more.   *)
AnswersAreExact == FindIsExact /\ BytesAreAccountedFor
=============================================================================
