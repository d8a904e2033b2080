--------------------------- MODULE SoftwareSerial ---------------------------
(***************************************************************************)
(* libraries/SoftwareSerial: a task samples the line and pushes bytes into *)
(* a ring that the sketch reads.  The line's time is counted in half bits, *)
(* which is what the sampling of _rxLoop() distinguishes.                  *)
(***************************************************************************)
EXTENDS Scheduler, Integers, Sequences

CONSTANTS
    RxSize,    \* SW_SERIAL_RX_BUFFER_SIZE
    DataBits,  \* data bits of a frame: 8
    Sent       \* bound: the bytes the line may bring, as sequences of bits

ASSUME RxSizeAssumption ==
    RxSize \in Nat /\ RxSize > 1 /\ \E k \in 1 .. 8 : RxSize = 2 ^ k
ASSUME FrameAssumption ==
    DataBits \in Nat \ {0} /\ Sent \subseteq [1 .. DataBits -> {0, 1}]

VARIABLES
    line,                      \* the frame on the line and the half bits passed
    listening, rxbuf, head, tail,
    unread,                    \* history: bytes pushed and not yet read
    late                       \* history: bytes pushed since end()

port == <<line, listening, rxbuf, head, tail, unread, late>>

Slots == 0 .. RxSize - 1
Bytes == [1 .. DataBits -> {0, 1}]
Quiet == [k |-> -1]
Noise == << >>

sw_next(i) == (i + 1) % RxSize

(* Start bit, data, stop bit; the line is high when nothing is on it. *)
FrameOf(b) == <<0>> \o b \o <<1>>
LevelAt(l, k) == IF l = Quiet \/ k < 0 THEN 1 ELSE FrameOf(l.b)[k \div 2 + 1]
Level == LevelAt(line, line.k)

(* What digitalRead() may return at the boundary of two half bits. *)
Readable == {LevelAt(line, line.k - 1), Level}

PortInit ==
    /\ rx = [at |-> "absent"]
    /\ line = Quiet
    /\ listening = FALSE
    /\ rxbuf = [s \in Slots |-> Noise]
    /\ head = 0 /\ tail = 0
    /\ unread = << >>
    /\ late = 0

-----------------------------------------------------------------------------
(* The line: a frame begins, any time after the last one. *)
StartFrame ==
    /\ line = Quiet
    /\ \E b \in Sent : line' = [b |-> b, k |-> 0]
    /\ UNCHANGED <<rx, listening, rxbuf, head, tail, unread, late>>

(* The i-th sample is due half a bit and i bits after the edge was seen. *)
Due(i) == 1 + 2 * i
Overdue == rx.at = "frame" /\ rx.clock >= Due(Len(rx.c))

(* Half a bit passes.  A receiver that has the CPU misses nothing: it has  *)
(* seen the edge or taken the sample of this half bit before the next one. *)
Tick ==
    /\ line # Quiet \/ rx.at = "frame"
    /\ ~ (RxRuns /\ (Overdue \/ (rx.at = "poll" /\ Level = 0)))
    /\ line' = IF line = Quiet \/ line.k = 2 * DataBits + 3
               THEN Quiet ELSE [line EXCEPT !.k = @ + 1]
    /\ rx' = IF rx.at # "frame" THEN rx
             ELSE [rx EXCEPT !.clock = IF Overdue THEN @ ELSE @ + 1]
    /\ UNCHANGED <<listening, rxbuf, head, tail, unread, late>>

-----------------------------------------------------------------------------
(* _taskFn() and _rxLoop(): the start bit is seen ... *)
RxDetect ==
    /\ RxRuns /\ rx.at = "poll"
    /\ Level = 0
    /\ rx' = [at |-> "frame", clock |-> 0, c |-> << >>]
    /\ UNCHANGED port

(* ... the bits are sampled ... *)
RxSample ==
    /\ RxRuns /\ Overdue
    /\ Len(rx.c) < DataBits - 1
    /\ \E bit \in Readable : rx' = [rx EXCEPT !.c = Append(@, bit)]
    /\ UNCHANGED port

(* ... and with the last one the byte is pushed, or dropped when the ring  *)
(* is full (_overflow, which nothing reads, is left out); _taskFn() goes   *)
(* on polling, or waits when end() was called.                             *)
Push_Overwrites(c) ==
    /\ rxbuf' = [rxbuf EXCEPT ![head] = c]
    /\ head' = sw_next(head)
    /\ unread' = Append(unread, c)

Push(c) ==
    IF sw_next(head) # tail
    THEN /\ rxbuf' = [rxbuf EXCEPT ![head] = c]
         /\ head' = sw_next(head)
         /\ unread' = Append(unread, c)
    ELSE UNCHANGED <<rxbuf, head, unread>>

NextFrame_NeverStops == [at |-> "poll"]
NextFrame == [at |-> IF listening THEN "poll" ELSE "idle"]

Pushes(c) ==
    /\ RxRuns /\ Overdue
    /\ Len(rx.c) = DataBits - 1
    /\ \E bit \in Readable : c = Append(rx.c, bit)

RxPush ==
    \E c \in Bytes :
        /\ Pushes(c)
        /\ Push(c)
        /\ rx' = NextFrame
        /\ late' = IF listening THEN late ELSE late + 1
        /\ UNCHANGED <<line, listening, tail>>

(* A line that stays high for 200 ms, longer than any frame: the receiver  *)
(* sleeps, then polls for another 200 ms.                                  *)
RxRest_Yields ==
    /\ RxRuns /\ rx.at = "poll" /\ line = Quiet
    /\ UNCHANGED <<rx, port>>

RxRest ==
    /\ RxRuns /\ rx.at = "poll" /\ line = Quiet
    /\ rx' = [at |-> "quiet"]
    /\ UNCHANGED port

RxWake ==
    /\ rx.at = "quiet" \/ (rx.at = "idle" /\ listening)
    /\ rx' = [at |-> "poll"]
    /\ UNCHANGED port

-----------------------------------------------------------------------------
(* The sketch.  begin() clears the ring by two stores, _tail first, and    *)
(* the receiver of an earlier begin() may run between them.  With the      *)
(* second go the flag and, the first time, the creation of the task.       *)
BeginTail ==
    /\ Calling("loop")
    /\ tail' = 0
    /\ pc' = [at |-> "begin.head"]
    /\ UNCHANGED <<rx, line, listening, rxbuf, head, unread, late>>

BeginHead ==
    /\ Calling("begin.head")
    /\ head' = 0
    /\ unread' = << >>
    /\ listening' = TRUE
    /\ late' = 0
    /\ rx' = IF rx.at = "absent" THEN [at |-> "poll"] ELSE rx
    /\ Return
    /\ UNCHANGED <<line, rxbuf, tail>>

(* end() and listen() only set the flag. *)
SetListening(on) ==
    /\ Calling("loop")
    /\ listening' = on
    /\ late' = 0
    /\ UNCHANGED <<rx, pc, line, rxbuf, head, tail, unread>>

(* read(): what it checks and loads, and the store of _tail. *)
Used == (head - tail) % RxSize
Empty == head = tail

ReadLoad ==
    /\ Calling("loop")
    /\ ~Empty
    /\ pc' = [at |-> "read.advance", c |-> rxbuf[tail]]
    /\ UNCHANGED <<rx, port>>

ReadAdvance ==
    /\ Calling("read.advance")
    /\ tail' = sw_next(tail)
    /\ unread' = Tail(unread)
    /\ Return
    /\ UNCHANGED <<rx, line, listening, rxbuf, head, late>>

-----------------------------------------------------------------------------
RxStep == RxDetect \/ RxSample \/ RxPush \/ RxRest \/ RxWake
PortContinues == BeginHead \/ ReadAdvance
PortCalled ==
    \/ BeginTail \/ ReadLoad
    \/ \E on \in BOOLEAN : SetListening(on)

(* Outside begin() the ring is what was pushed and not yet read, in order, *)
(* and the byte a read() has loaded is the oldest of it: neither the       *)
(* sampling task that preempts read() nor the one that preempts begin()    *)
(* between its two stores makes the ring show a byte that was not sampled. *)
RingHoldsUnread ==
    pc.at # "begin.head" =>
        /\ Used = Len(unread)
        /\ \A i \in 1 .. Used : rxbuf[(tail + i - 1) % RxSize] = unread[i]
        /\ pc.at = "read.advance" => (unread # << >> /\ pc.c = unread[1])

(* end() does not stop a receiver that is waiting for a start bit, but one *)
(* frame later it is stopped: at most one byte is pushed after end().      *)
EndIsEffective == late <= 1

(* The file's comment, "samples the 8 data bits at mid-bit": a frame whose *)
(* falling edge the receiver saw is pushed as the byte that was sent.  (It *)
(* pushes such a frame when exactly the time of its samples has passed; in *)
(* the run of this property no tone delays them.)                          *)
Completes == line # Quiet /\ line.k = Due(DataBits - 1)

ReceivesWhatWasSent ==
    [][\A c \in Bytes :
         (Completes /\ Pushes(c) /\ rx' # rx) => c = line.b]_<<rx, pc, port>>
=============================================================================
