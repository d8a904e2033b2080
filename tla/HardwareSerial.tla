--------------------------- MODULE HardwareSerial ---------------------------
(***************************************************************************)
(* Serial and Serial1: the receive side of cores/arduino/HardwareSerial.   *)
(* One interrupt handler drains the RX FIFOs of both UARTs into a ring per *)
(* port; the sketch's task consumes from the rings.  The chip has a single *)
(* core, so the handler is one step, while it may run between any two      *)
(* memory accesses of the task.                                            *)
(*                                                                         *)
(* A byte is represented by its number on its line (1 is the first), so    *)
(* that loss, duplication and reordering are visible.                      *)
(***************************************************************************)
EXTENDS Integers, Sequences

CONSTANTS
    Ports,      \* UART ids
    RxSize,     \* SERIAL_RX_BUFFER_SIZE
    FifoDepth,  \* bytes the UART's RX FIFO holds
    FifoReq,    \* RX_FIFO_REQ is raised while the FIFO holds more than this
    MaxBytes    \* bound: bytes the line of port p may bring

(* Masking with SERIAL_RX_BUFFER_SIZE - 1 needs a power of two; the cursors *)
(* are uint16_t.                                                           *)
ASSUME RxSizeAssumption ==
    RxSize \in Nat /\ RxSize > 1 /\ \E k \in 1 .. 15 : RxSize = 2 ^ k
ASSUME FifoAssumption == FifoDepth \in Nat \ {0} /\ FifoReq \in Nat
ASSUME MaxBytesAssumption == MaxBytes \in [Ports -> Nat]

VARIABLES
    fifo,       \* the hardware FIFO
    timer,      \* a byte came and its end-of-transfer / idle time-out is due
    latched,    \* RX_END or RTO is set in the UART's status
    unmasked,   \* bl_uart_int_rx_enable()
    irqOn,      \* ensure_irq() has registered the handler for the port's IRQ
    rxbuf, head, tail,    \* _rxbuf, _rx_head, _rx_tail
    pc,         \* where the sketch's task is
    arrived,    \* number of the last byte the line brought
    accepted,   \* history: bytes the handler stored in the ring
    delivered,  \* history: bytes read() returned
    answer      \* history: what available() or peek() last told the sketch

hw == <<fifo, timer, latched, unmasked, irqOn>>
ring == <<rxbuf, head, tail>>
history == <<accepted, delivered, answer>>
vars == <<hw, ring, pc, arrived, history>>

Slots == 0 .. RxSize - 1
Bytes(p) == 1 .. MaxBytes[p]

(* (i + k) & (SERIAL_RX_BUFFER_SIZE - 1), and (j - i) & (... - 1). *)
Advance(i, k) == (i + k) % RxSize
Distance(i, j) == (j - i) % RxSize

SmallestOf(a, b) == IF a <= b THEN a ELSE b

CallStates ==
    [at: {"loop"}] \cup [at: {"read.load", "peek.load"}, port: Ports]
      \cup [at: {"read.advance"}, port: Ports, c: Nat]

(* available()'s answer, less the reads since; peek()'s, until it is read. *)
Nothing == [call |-> "none"]
Promise(p, n) ==
    IF n = 0 THEN Nothing ELSE [call |-> "available", port |-> p, n |-> n]
Peeked(p, c) == [call |-> "peek", port |-> p, c |-> c]

Answers ==
    {Nothing} \cup [call: {"available"}, port: Ports, n: Nat \ {0}]
              \cup [call: {"peek"}, port: Ports, c: Nat]

-----------------------------------------------------------------------------
Init ==
    /\ fifo = [p \in Ports |-> << >>]
    /\ timer = [p \in Ports |-> FALSE]
    /\ latched = [p \in Ports |-> FALSE]
    /\ unmasked = [p \in Ports |-> FALSE]
    /\ irqOn = [p \in Ports |-> FALSE]
    /\ rxbuf = [p \in Ports |-> [s \in Slots |-> 0]]
    /\ head = [p \in Ports |-> 0]
    /\ tail = [p \in Ports |-> 0]
    /\ pc = [at |-> "loop"]
    /\ arrived = [p \in Ports |-> 0]
    /\ accepted = [p \in Ports |-> << >>]
    /\ delivered = [p \in Ports |-> << >>]
    /\ answer = Nothing

-----------------------------------------------------------------------------
(* The UART.  A byte that reaches a full FIFO is lost. *)
Arrive(p) ==
    /\ arrived[p] < MaxBytes[p]
    /\ arrived' = [arrived EXCEPT ![p] = @ + 1]
    /\ IF Len(fifo[p]) < FifoDepth
       THEN fifo' = [fifo EXCEPT ![p] = Append(@, arrived[p] + 1)]
       ELSE UNCHANGED fifo
    /\ timer' = [timer EXCEPT ![p] = TRUE]
    /\ UNCHANGED <<latched, unmasked, irqOn, ring, pc, history>>

(* The line goes idle, or the transfer ends: RTO or RX_END is latched. *)
Idle(p) ==
    /\ timer[p]
    /\ timer' = [timer EXCEPT ![p] = FALSE]
    /\ latched' = [latched EXCEPT ![p] = TRUE]
    /\ UNCHANGED <<fifo, unmasked, irqOn, ring, pc, arrived, history>>

Status(p) == latched[p] \/ Len(fifo[p]) > FifoReq
Interrupting(p) == irqOn[p] /\ unmasked[p] /\ Status(p)

-----------------------------------------------------------------------------
(* available(): the bytes between tail and head. *)
Used(p) == Distance(tail[p], head[p])

(* uart_rx_notify() stores bytes until `next == tail': one slot stays free. *)
Room_UseEverySlot(p) == RxSize - Used(p)
Room(p) == RxSize - 1 - Used(p)
Stored(p) == SmallestOf(Len(fifo[p]), Room(p))

(* The byte that meets a full ring has been taken from the FIFO already and *)
(* is gone; the bytes behind it stay in the FIFO.                           *)
Taken_CheckRoomFirst(p) == Stored(p)
Taken(p) == SmallestOf(Len(fifo[p]), Room(p) + 1)

Rest(s, k) == SubSeq(s, k + 1, Len(s))

Filled(p) ==
    [s \in Slots |-> IF Distance(head[p], s) < Stored(p)
                     THEN fifo[p][Distance(head[p], s) + 1]
                     ELSE rxbuf[p][s]]

(* uart_irq_handler(): whichever port interrupts, every port whose status  *)
(* is set is serviced.                                                     *)
Isr ==
    /\ \E p \in Ports : Interrupting(p)
    /\ LET Served(p, new, old) == IF Status(p) THEN new ELSE old
       IN  /\ fifo' = [p \in Ports |->
                         Served(p, Rest(fifo[p], Taken(p)), fifo[p])]
           /\ latched' = [p \in Ports |-> FALSE]
           /\ rxbuf' = [p \in Ports |-> Served(p, Filled(p), rxbuf[p])]
           /\ head' = [p \in Ports |->
                         Served(p, Advance(head[p], Stored(p)), head[p])]
           /\ accepted' = [p \in Ports |->
                Served(p, accepted[p] \o SubSeq(fifo[p], 1, Stored(p)), accepted[p])]
    /\ UNCHANGED <<timer, unmasked, irqOn, tail, pc, arrived,
                   delivered, answer>>

-----------------------------------------------------------------------------
(* The sketch's task: between two calls it is in its loop. *)
InLoop == pc.at = "loop"

(* begin(): unmask the port's interrupt and register the handler.  A full  *)
(* bl_uart_init() may also clear the FIFO; the ring is left as it is.       *)
Begin_ResetsHead(p) ==
    /\ InLoop
    /\ unmasked' = [unmasked EXCEPT ![p] = TRUE]
    /\ irqOn' = [irqOn EXCEPT ![p] = TRUE]
    /\ head' = [head EXCEPT ![p] = 0]
    /\ UNCHANGED <<fifo, timer, latched, rxbuf, tail, pc, arrived, history>>

Begin(p) ==
    /\ InLoop
    /\ unmasked' = [unmasked EXCEPT ![p] = TRUE]
    /\ irqOn' = [irqOn EXCEPT ![p] = TRUE]
    /\ fifo' \in {fifo, [fifo EXCEPT ![p] = << >>]}
    /\ UNCHANGED <<timer, latched, ring, pc, arrived, history>>

(* end(): the IRQ stays registered, only the UART's mask is set. *)
End(p) ==
    /\ InLoop
    /\ unmasked' = [unmasked EXCEPT ![p] = FALSE]
    /\ UNCHANGED <<fifo, timer, latched, irqOn, ring, pc, arrived, history>>

(* available(): only this task moves tail, so its answer is fixed by the   *)
(* one load of head.                                                       *)
Available(p) ==
    /\ InLoop
    /\ answer' = Promise(p, Used(p))
    /\ UNCHANGED <<hw, ring, pc, arrived, accepted, delivered>>

(* read() and peek(): the check for an empty ring ... *)
Empty(p) == head[p] = tail[p]

Check(p, next) ==
    /\ InLoop
    /\ ~Empty(p)
    /\ pc' = [at |-> next, port |-> p]
    /\ UNCHANGED <<hw, ring, arrived, history>>

ReadCheck(p) == Check(p, "read.load")
PeekCheck(p) == Check(p, "peek.load")

(* ... then the load of _rxbuf[_rx_tail] ... *)
PeekLoad(p) ==
    /\ pc = [at |-> "peek.load", port |-> p]
    /\ answer' = Peeked(p, rxbuf[p][tail[p]])
    /\ pc' = [at |-> "loop"]
    /\ UNCHANGED <<hw, ring, arrived, accepted, delivered>>

ReadLoad_PreIncrement(p) ==
    /\ pc = [at |-> "read.load", port |-> p]
    /\ pc' = [at |-> "read.advance", port |-> p, c |-> rxbuf[p][Advance(tail[p], 1)]]
    /\ UNCHANGED <<hw, ring, arrived, history>>

ReadLoad(p) ==
    /\ pc = [at |-> "read.load", port |-> p]
    /\ pc' = [at |-> "read.advance", port |-> p, c |-> rxbuf[p][tail[p]]]
    /\ UNCHANGED <<hw, ring, arrived, history>>

(* ... and for read() the store of _rx_tail, which frees the slot. *)
AfterRead(p) ==
    CASE answer.call = "available" /\ answer.port = p -> Promise(p, answer.n - 1)
      [] answer.call = "peek" /\ answer.port = p -> Nothing
      [] OTHER -> answer

ReadAdvance(p) ==
    /\ pc.at = "read.advance" /\ pc.port = p
    /\ tail' = [tail EXCEPT ![p] = Advance(@, 1)]
    /\ delivered' = [delivered EXCEPT ![p] = Append(@, pc.c)]
    /\ answer' = AfterRead(p)
    /\ pc' = [at |-> "loop"]
    /\ UNCHANGED <<hw, rxbuf, head, arrived, accepted>>

Next ==
    \/ Isr
    \/ \E p \in Ports :
         \/ Arrive(p) \/ Idle(p)
         \/ Begin(p) \/ End(p) \/ Available(p)
         \/ ReadCheck(p) \/ ReadLoad(p) \/ ReadAdvance(p)
         \/ PeekCheck(p) \/ PeekLoad(p)

(* A pending interrupt is taken, and a call once entered returns.  Nothing *)
(* is assumed of the line or of what the sketch calls.                     *)
Fairness ==
    /\ WF_vars(Isr)
    /\ \A p \in Ports : WF_vars(ReadLoad(p) \/ ReadAdvance(p) \/ PeekLoad(p))

Spec == Init /\ [][Next]_vars /\ Fairness

-----------------------------------------------------------------------------
(* Every variable keeps its type: in particular both cursors stay inside   *)
(* the ring whatever the handler and the task interleave.                  *)
TypeOK ==
    /\ fifo \in [Ports -> Seq(Nat)]
    /\ \A p \in Ports : Len(fifo[p]) <= FifoDepth
    /\ timer \in [Ports -> BOOLEAN] /\ latched \in [Ports -> BOOLEAN]
    /\ unmasked \in [Ports -> BOOLEAN] /\ irqOn \in [Ports -> BOOLEAN]
    /\ rxbuf \in [Ports -> [Slots -> Nat]]
    /\ head \in [Ports -> Slots] /\ tail \in [Ports -> Slots]
    /\ pc \in CallStates
    /\ arrived \in [Ports -> Nat]
    /\ accepted \in [Ports -> Seq(Nat)] /\ delivered \in [Ports -> Seq(Nat)]
    /\ answer \in Answers

(* The ring is exactly what the handler accepted and read() has not yet    *)
(* returned, in order: uart_rx_notify() never overwrites an unread byte,   *)
(* read() never returns a byte twice or a slot the handler is about to     *)
(* fill, although neither side locks out the other.                        *)
RingHoldsAccepted ==
    \A p \in Ports :
        /\ Len(accepted[p]) = Len(delivered[p]) + Used(p)
        /\ \A i \in 1 .. Len(delivered[p]) : delivered[p][i] = accepted[p][i]
        /\ \A i \in 0 .. Used(p) - 1 :
              rxbuf[p][Advance(tail[p], i)] = accepted[p][Len(delivered[p]) + i + 1]

(* A call of the task rests on a check it made before interrupts may have  *)
(* come: the ring it found non-empty still is, and the byte it loaded is   *)
(* still the one at tail when the store of tail frees the slot.            *)
CallsUnderway ==
    /\ pc.at # "loop" => ~Empty(pc.port)
    /\ pc.at = "read.advance" => pc.c = rxbuf[pc.port][tail[pc.port]]

(* What available() answered can be read: until the sketch has made that   *)
(* many reads none of them returns -1, whatever arrives and whether or not *)
(* the port is ended and begun again in between.                           *)
PromiseKept == answer.call = "available" => answer.n <= Used(answer.port)

(* What peek() returned is what the next read() returns, however many      *)
(* interrupts come between the two calls.                                  *)
PeekIsNextRead ==
    answer.call = "peek" =>
        /\ ~Empty(answer.port)
        /\ answer.c = rxbuf[answer.port][tail[answer.port]]

(* The interrupt never storms for good: even when the sketch stops reading *)
(* and the ring stays full, the handler's runs end with no request left,   *)
(* because each takes one byte from the FIFO that it cannot store.         *)
IrqQuiesces == \A p \in Ports : Interrupting(p) ~> ~Interrupting(p)

(* A sketch that keeps calling read() on a port that has bytes is never    *)
(* left with bytes it cannot get: its reads go on for ever or catch up.    *)
PollingCatchesUp ==
    \A p \in Ports :
        SF_vars(ReadCheck(p)) =>
            []<>(delivered[p] = accepted[p]) \/ []<><<ReadAdvance(p)>>_vars

(* The bytes that wait for the sketch: the ring's, then the FIFO's. *)
InRing(p) == [i \in 1 .. Used(p) |-> rxbuf[p][Advance(tail[p], i - 1)]]
Waiting(p) == InRing(p) \o fifo[p]

Stream == INSTANCE ByteStream WITH waiting <- [p \in Ports |-> Waiting(p)]

(* The port implements the lossy, ordered stream of bytes: bytes are       *)
(* dropped at a full FIFO, at a full ring or by a re-initialisation, and   *)
(* never reordered or repeated across FIFO, ring and read().               *)
ImplementsStream == Stream!Spec
=============================================================================
