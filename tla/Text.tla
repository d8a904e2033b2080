-------------------------------- MODULE Text --------------------------------
(***************************************************************************)
(* A sketch that reads what a peer prints, by Stream, and keeps Strings.   *)
(***************************************************************************)
EXTENDS WString, Printer, Stream

CONSTANTS
    Numbers, Thousandths,  \* bound: what the peer prints, as a long and as a
    Places,                \* double with so many decimals
    Sent,                  \* bound: other texts that the peer sends
    Targets, Terminators, Lengths,  \* bound: what the sketch reads until
    MaxEnds                \* bound: bytes left of the lines before

ASSUME NumbersAssumption ==
    /\ Numbers \subseteq Signed(Longs)
    /\ Thousandths \subseteq {t \in Int : t \div Unit \in Signed(Longs)}
    /\ Places \subseteq 0 .. 6 /\ Sent \subseteq Seq(Nat)
ASSUME SketchAssumption ==
    /\ Targets \subseteq Seq(Nat) /\ Terminators \subseteq Seq(Nat) \ {<< >>}
    /\ Lengths \subseteq Nat \cup {NoLength}

VARIABLE number  \* history: the number that the stream holds and no more, and
                 \* whether the last call was to parse it
None == [asked |-> FALSE]

vars == <<stringVars, streamVars, number>>

Init == StringInit /\ StreamInit /\ number = None

CR == 13
LF == 10
Space == {32, 9, LF, CR, 12}

(* The peer: println() of a number, when the line is quiet and empty but   *)
(* for the end of an earlier line; or something else.                      *)
PeerSays(s, n) ==
    /\ call = NoCall /\ wire = << >>
    /\ ToSet(ready) \subseteq {CR, LF} /\ Len(ready) <= MaxEnds
    /\ wire' = s
    /\ number' = n
    /\ taken' = << >> /\ answer' = NoCall
    /\ UNCHANGED <<ready, call, waited>>

Printed(s, v, p) ==
    PeerSays(s \o <<CR, LF>>, [v |-> v, places |-> p, asked |-> FALSE])

Peer ==
    \/ \E v \in Numbers : Printed(print(v, 10), v * Unit, 0)
    \/ \E v \in Thousandths, p \in Places : Printed(printFloat(v, p), v, p)
    \/ \E s \in Sent : PeerSays(s, None)

(* The sketch. *)
Parses ==
    /\ parseInt(Space) \/ parseFloat(Space)
    /\ number' = IF number # None /\ ~number.asked
                 THEN [number EXCEPT !.asked = TRUE] ELSE None

ReadsText ==
    /\ \/ \E t \in Targets : find(t)
       \/ \E t \in Targets, u \in Terminators : findUntil(t, u)
       \/ \E n \in Lengths : readBytes(n, {}) \/ readBytes(n, {LF})
    /\ number' = None

Step == (StreamStep \/ Arrives) /\ UNCHANGED number
Tick == StreamTick /\ UNCHANGED number

OnStream == (Peer \/ Parses \/ ReadsText \/ Step \/ Tick) /\ UNCHANGED stringVars
OnString == StringStep /\ UNCHANGED <<streamVars, number>>

Next == OnStream \/ OnString

(* A call goes on, and time passes.  Nothing is assumed of the peer. *)
Fairness ==
    /\ WF_vars(StreamStep /\ UNCHANGED <<number, stringVars>>)
    /\ WF_vars(Tick /\ UNCHANGED stringVars)

Spec == Init /\ [][Next]_vars /\ Fairness

-----------------------------------------------------------------------------
(* A number that the peer has printed is the number that is read: its      *)
(* whole part by parseInt(), and by parseFloat() to half of its last       *)
(* decimal; the sign, the zeros behind the point and a carry into the      *)
(* whole part come through.  (When the bytes come in time, and not the     *)
(* timeout ends the call.  A double printed without decimals is not        *)
(* rounded: its fraction is left out.)                                     *)
ReadsBackWhatWasPrinted ==
    (Answered("parse") /\ number.asked /\ ~answer.late) =>
        LET got == answer.value
            v == number.v
            p == number.places
        IN  IF answer.of.ends = {} \/ p = 0
            THEN Abs(got.n * Unit - v) < Unit
            ELSE got.places = p /\ 2 * Abs(got.n * Unit - v * Tens[p]) <= Unit

(* A String made of a number is what print() prints of it, in every base   *)
(* and with decimals, although both have their own conversion.  (Not for a *)
(* negative number in another base, which print() widens to 64 bits, nor   *)
(* for an unsigned long above the largest long, which String takes for a   *)
(* negative one, nor for a double without decimals.)                       *)
StringsPrintLikePrint ==
    number # None =>
        LET v == number.v \div Unit IN
        IF number.places > 0
        THEN appendFloat(number.v, number.places) = printFloat(number.v, number.places)
        ELSE number.v % Unit = 0 =>
               /\ concat(v, 10) = print(v, 10)
               /\ v >= 0 => \A base \in {2, 8, 16} :
                     /\ concat(v, base) = print(v, base)
                     /\ concatUnsigned(v, base) = printNumber(v, base)

(* Every call comes to an end once the peer is silent: what it waits for   *)
(* never comes, and the timeout ends it.  (A peer that goes on sending     *)
(* keeps readString() reading.)                                            *)
EveryCallReturns == <>[](wire = << >>) => []<>(call = NoCall)
=============================================================================
