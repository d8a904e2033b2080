------------------------------ MODULE IRremote ------------------------------
(***************************************************************************)
(* libraries/IRremote: the NEC receiver.  A pin interrupt stores the time  *)
(* between two edges in a ring and drops the oldest entry of a full one;   *)
(* decode() looks for a frame at the tail, with interrupts on, and moves   *)
(* the tail behind it.  The indices are uint8_t, the ring is shorter.      *)
(***************************************************************************)
EXTENDS Integers, Sequences, Functions

CONSTANTS
    BufSize,    \* IR_RECV_BUFSIZE
    IndexSize,  \* values of a uint8_t
    FrameBits,  \* bits of a frame: 32
    Sent,       \* frames the remote control may send: words, or Repeat
    Repeat,
    None,       \* in place of a frame: decode() returns false
    MaxFrames   \* bound: frames sent

ASSUME IndexAssumption ==
    /\ BufSize \in Nat \ {0} /\ FrameBits \in Nat \ {0}
    /\ 2 * FrameBits + 3 < BufSize
    /\ IndexSize = 2 * BufSize
ASSUME BoundAssumption == MaxFrames \in Nat

(* A word is the set of its 1 bits. *)
Words == SUBSET (0 .. FrameBits - 1)

ASSUME SentAssumption ==
    /\ Sent \ {Repeat} \subseteq Words
    /\ None # Repeat /\ \A w \in Words : w # Repeat /\ w # None

VARIABLES
    s_dur, s_head, s_tail,
    enabled,    \* the interrupt is attached ...
    fresh,      \* ... and has not yet fired: it waits for a rising edge
    pc,         \* where the sketch is in decode()
    frames,     \* the frames sent so far
    line,       \* of the last one, the durations not yet over
    decoded     \* history: the frames decode() has returned, its entries not dropped

vars == <<s_dur, s_head, s_tail, enabled, fresh, pc, frames, line, decoded>>

Slots == 0 .. BufSize - 1
ir_next(i) == (i + 1) % BufSize
available(head, tail) == (head - tail) % BufSize

-----------------------------------------------------------------------------
(* The durations of a frame, in us: mark and space by turns. *)
Bit(v, i) == IF i \in v THEN 1687 ELSE 562

FrameOf(v) ==
    IF v = Repeat THEN <<9000, 2250, 562>>
    ELSE [j \in 1 .. 2 * FrameBits + 3 |->
            CASE j = 1 -> 9000
              [] j = 2 -> 4500
              [] j > 2 /\ j % 2 = 1 -> 562
              [] j > 2 /\ j % 2 = 0 -> Bit(v, (j - 4) \div 2)]

(* An entry of the ring knows which duration of which frame it is; the gap *)
(* before a frame is its duration 0.                                       *)
Duration(us, f, pos) == [us |-> us, frame |-> f, pos |-> pos]
Current == Len(frames)
Pos == IF line = << >> THEN 0 ELSE Len(FrameOf(frames[Current])) - Len(line) + 1

(* Behind the ring there may be anything. *)
Beyond == {Duration(us, 0, 0) : us \in {0, 9000, 4500, 2250, 1687, 562}}
At(i) == IF i \in Slots THEN {s_dur[i]} ELSE Beyond

-----------------------------------------------------------------------------
Loop == [at |-> "loop"]
InDecode == pc.at # "loop"

Init ==
    /\ s_dur = [i \in Slots |-> Duration(0, 0, 0)]
    /\ s_head = 0 /\ s_tail = 0
    /\ enabled = FALSE /\ fresh = FALSE
    /\ pc = Loop
    /\ frames = << >> /\ line = << >>
    /\ decoded = {}

(* isr(): record the duration, at the cost of the oldest when the ring is  *)
(* full.  A decode() under way is told by its history that it has lost it. *)
Full == ir_next(s_head) = s_tail

Record(d) ==
    /\ s_dur' = [s_dur EXCEPT ![s_head] = d]
    /\ s_head' = ir_next(s_head)
    /\ s_tail' = IF Full THEN ir_next(s_tail) ELSE s_tail
    /\ pc' = IF Full /\ InDecode THEN [pc EXCEPT !.kept = FALSE] ELSE pc

Skip == UNCHANGED <<s_dur, s_head, s_tail, pc>>

(* A duration of the frame is over, and the interrupt measures it.         *)
Measured ==
    /\ enabled /\ ~fresh
    /\ Record(Duration(Head(line), Current, Pos))
    /\ UNCHANGED fresh

(* attachInterrupt() arms it for a rising edge first, so the first edge it *)
(* sees ends a mark, and the first duration runs from enableIRIn() on,     *)
(* through some of the time before that mark.                              *)
RisingEdge == Len(line) % 2 = 1

FirstMeasured ==
    /\ enabled /\ fresh /\ RisingEdge
    /\ fresh' = FALSE
    /\ \/ Pos = 1 /\ Skip
       \/ \E us \in IF Pos = 1 THEN {100, 9000, 40000} ELSE {100, 1687} :
             Record(Duration(us, Current, Pos))

Unseen ==
    /\ enabled => fresh /\ ~RisingEdge
    /\ Skip /\ UNCHANGED fresh

FrameEdge ==
    /\ line # << >>
    /\ line' = Tail(line)
    /\ Measured \/ FirstMeasured \/ Unseen
    /\ UNCHANGED <<enabled, frames, decoded>>

(* The next frame begins with a falling edge.  The gap before it is        *)
(* dropped when it is longer than IR_IDLE_MAX_US.                          *)
FrameBegins(v) ==
    /\ line = << >> /\ Len(frames) < MaxFrames
    /\ frames' = Append(frames, v)
    /\ line' = FrameOf(v)
    /\ \/ Skip
       \/ enabled /\ ~fresh /\ Record(Duration(40000, Current + 1, 0))
    /\ UNCHANGED <<enabled, fresh, decoded>>

-----------------------------------------------------------------------------
(* The sketch.  It attaches a receiver that is detached. *)
enableIRIn_KeepsTail ==
    /\ pc = Loop /\ ~enabled
    /\ s_head' = 0
    /\ enabled' = TRUE /\ fresh' = TRUE
    /\ UNCHANGED <<s_dur, s_tail, pc, frames, line, decoded>>

enableIRIn ==
    /\ pc = Loop /\ ~enabled
    /\ s_head' = 0 /\ s_tail' = 0
    /\ enabled' = TRUE /\ fresh' = TRUE
    /\ UNCHANGED <<s_dur, pc, frames, line, decoded>>

disableIRIn ==
    /\ pc = Loop /\ enabled
    /\ enabled' = FALSE /\ fresh' = FALSE
    /\ UNCHANGED <<s_dur, s_head, s_tail, pc, frames, line, decoded>>

resume ==
    /\ pc = Loop
    /\ s_tail' = s_head
    /\ UNCHANGED <<s_dur, s_head, enabled, fresh, pc, frames, line, decoded>>

(* decode(): the snapshot of the indices, with interrupts off ... *)
Snapshot ==
    /\ pc = Loop
    /\ available(s_head, s_tail) >= 3
    /\ pc' = [at |-> "header", tail |-> s_tail, avail |-> available(s_head, s_tail),
              kept |-> TRUE]
    /\ UNCHANGED <<s_dur, s_head, s_tail, enabled, fresh, frames, line, decoded>>

Reading == UNCHANGED <<s_dur, s_head, s_tail, enabled, fresh, frames, line, decoded>>

(* ... the tail it will store, and what it will then return ... *)
Returns(to, d0, inside, value) ==
    pc' = [at |-> "store", to |-> to, from |-> d0, inside |-> inside,
           value |-> value, kept |-> pc.kept]

NotHeader(d0, d1) == d0 < 4000 \/ d0 > 14000 \/ d1 < 1400 \/ d1 > 5200

Complete_Always == TRUE
Complete == pc.avail >= 2 + 2 * FrameBits

NoHeader(d0, d1) ==
    /\ NotHeader(d0.us, d1.us)
    /\ Returns(ir_next(pc.tail), d0, pc.tail \in Slots, None)

Waits_DropsHeader(d0, d1) ==
    /\ ~NotHeader(d0.us, d1.us) /\ d1.us > 3000 /\ ~Complete
    /\ Returns(ir_next(pc.tail), d0, pc.tail \in Slots, None)

Waits(d0, d1) ==
    /\ ~NotHeader(d0.us, d1.us) /\ d1.us > 3000 /\ ~Complete
    /\ pc' = Loop

DataFrame(d0, d1) ==
    /\ ~NotHeader(d0.us, d1.us) /\ d1.us > 3000 /\ Complete
    /\ pc' = [at |-> "bits", tail |-> pc.tail, i |-> 0, data |-> {}, from |-> d0,
              inside |-> pc.tail \in Slots, kept |-> pc.kept]

RepeatFrame(d0, d1) ==
    /\ ~NotHeader(d0.us, d1.us) /\ d1.us <= 3000
    /\ Returns((pc.tail + 3) % IndexSize, d0, pc.tail \in Slots, Repeat)

ReadHeader ==
    /\ pc.at = "header"
    /\ \E d0 \in At(pc.tail), d1 \in At(ir_next(pc.tail)) :
         NoHeader(d0, d1) \/ Waits(d0, d1) \/ DataFrame(d0, d1) \/ RepeatFrame(d0, d1)
    /\ UNCHANGED <<s_dur, s_head, s_tail, enabled, fresh, frames, line, decoded>>

(* ... one bit after the other, its mark and its space ... *)
NotBit(m, sp) == m < 200 \/ m > 1000 \/ sp < 300 \/ sp > 2500

BitIndex(k) == (pc.tail + k + 2 * pc.i) % IndexSize
Inside == pc.inside /\ {BitIndex(2), BitIndex(3)} \subseteq Slots

ReadBit ==
    /\ pc.at = "bits"
    /\ \E m \in At(BitIndex(2)), sp \in At(BitIndex(3)) :
         LET data == IF sp.us > 1100 THEN pc.data \cup {pc.i} ELSE pc.data
         IN  \/ /\ NotBit(m.us, sp.us)
                /\ Returns(ir_next(pc.tail), pc.from, Inside, None)
             \/ /\ ~NotBit(m.us, sp.us) /\ pc.i < FrameBits - 1
                /\ pc' = [pc EXCEPT !.i = @ + 1, !.data = data, !.inside = Inside]
             \/ /\ ~NotBit(m.us, sp.us) /\ pc.i = FrameBits - 1
                /\ Returns((pc.tail + 2 + 2 * FrameBits) % IndexSize, pc.from, Inside, data)
    /\ UNCHANGED <<s_dur, s_head, s_tail, enabled, fresh, frames, line, decoded>>

(* ... and the store of the tail. *)
Store_KeepsTail ==
    /\ pc.at = "store"
    /\ s_tail' = IF pc.value = None THEN pc.to ELSE s_tail
    /\ decoded' = IF pc.value # None /\ pc.kept THEN decoded \cup {pc.from.frame} ELSE decoded
    /\ pc' = Loop
    /\ UNCHANGED <<s_dur, s_head, enabled, fresh, frames, line>>

Store ==
    /\ pc.at = "store"
    /\ s_tail' = pc.to
    /\ decoded' = IF pc.value # None /\ pc.kept THEN decoded \cup {pc.from.frame} ELSE decoded
    /\ pc' = Loop
    /\ UNCHANGED <<s_dur, s_head, enabled, fresh, frames, line>>

Next ==
    \/ FrameEdge
    \/ \E v \in Sent : FrameBegins(v)
    \/ enableIRIn \/ disableIRIn \/ resume
    \/ Snapshot \/ ReadHeader \/ ReadBit \/ Store

Spec == Init /\ [][Next]_vars

-----------------------------------------------------------------------------
(* Every variable keeps its type.  The head stays inside the ring; of the  *)
(* tail only its position round the ring is kept right.                    *)
TypeOK ==
    /\ DOMAIN s_dur = Slots
    /\ s_head \in Slots /\ s_tail \in 0 .. IndexSize - 1
    /\ enabled \in BOOLEAN /\ fresh \in BOOLEAN
    /\ pc.at \in {"loop", "header", "bits", "store"}
    /\ frames \in Seq(Sent) /\ Len(frames) <= MaxFrames
    /\ decoded \subseteq 0 .. Len(frames)

(* What is between tail and head is a contiguous piece of what the line    *)
(* brought, ending with the newest duration: wherever the tail is moved by *)
(* the interrupt, by decode() from its old snapshot, or by resume(), no    *)
(* stale or unwritten slot comes back into the ring.                       *)
Follows(a, b) ==
    \/ b.frame = a.frame /\ b.pos = a.pos + 1
    \/ b.frame = a.frame + 1 /\ a.pos = Len(FrameOf(frames[a.frame])) /\ b.pos \in {0, 1}

Entry(i) == s_dur[(s_tail + i) % BufSize]

RingIsContiguous ==
    LET n == available(s_head, s_tail)
    IN  /\ TypeOK
        /\ \A i \in 0 .. n - 2 : Follows(Entry(i), Entry(i + 1))
        /\ \A i \in 0 .. n - 1 : Entry(i).frame \in 1 .. Len(frames)

(* A decode() that read inside the ring, and whose oldest entries were not *)
(* dropped meanwhile.                                                      *)
Undisturbed == pc.at = "store" /\ pc.inside /\ pc.kept

(* It returns the frame that was sent, from its first duration on, and     *)
(* returns it once; what it skips is not the beginning of a frame.         *)
Returned == Undisturbed /\ pc.value # None

DecodesWhatWasSent ==
    Returned => pc.from.pos = 1 /\ pc.value = frames[pc.from.frame]

DecodesOnce == Returned => pc.from.frame \notin decoded

SkipsNoFrame ==
    Undisturbed /\ pc.value = None => pc.from.pos # 1 \/ pc.from.us # 9000

(* "Returns true and fills *results when a complete frame has been         *)
(* buffered and consumed" (IRremote.h): also when the frame lies across    *)
(* the end of the ring.                                                    *)
DecodesFrames ==
    pc.at = "store" /\ pc.kept /\ pc.value # None =>
        pc.from.pos = 1 /\ pc.value = frames[pc.from.frame]
=============================================================================
