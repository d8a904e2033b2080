-------------------------------- MODULE Wire --------------------------------
(***************************************************************************)
(* libraries/Wire: the I2C master's transmit queue and receive buffer.     *)
(* The driver's calls are external: they take the whole queue, or fail.    *)
(***************************************************************************)
EXTENDS Integers, Sequences

CONSTANTS
    TxSize, RxSize,  \* I2C_TX_BUFFER_SIZE, I2C_RX_BUFFER_SIZE
    Byte,            \* bound: the bytes sent and received
    MaxOffered       \* bound: bytes the sketch writes in one transmission

ASSUME WireAssumption ==
    /\ TxSize \in Nat \ {0} /\ MaxOffered \in Nat /\ Byte # {}
    /\ RxSize \in Nat /\ RxSize > 1 /\ \E k \in 1 .. 15 : RxSize = 2 ^ k

VARIABLES
    _txbuf,          \* _txbuf[0 .. _txlen - 1]
    _txoverflow,
    _rxbuf, _rxhead, _rxtail,
    offered,         \* history: bytes of write() since the queue was emptied
    reply            \* history: what the slave sent and read() did not return

wireVars == <<_txbuf, _txoverflow, _rxbuf, _rxhead, _rxtail, offered, reply>>
tx == <<_txbuf, _txoverflow, offered>>
rxq == <<_rxbuf, _rxhead, _rxtail, reply>>

RxSlots == 0 .. RxSize - 1

WireInit ==
    /\ _txbuf = << >> /\ _txoverflow = FALSE
    /\ _rxbuf = [i \in RxSlots |-> CHOOSE b \in Byte : TRUE]
    /\ _rxhead = 0 /\ _rxtail = 0
    /\ offered = << >> /\ reply = << >>

-----------------------------------------------------------------------------
(* beginTransmission(), and the end of endTransmission(). *)
Emptied == _txbuf' = << >> /\ _txoverflow' = FALSE /\ offered' = << >>

BeginTransmission == Emptied /\ UNCHANGED rxq

(* write(): a byte that finds the queue full is refused and remembered. *)
WriteByte_Forgets(b) ==
    /\ Len(offered) < MaxOffered
    /\ offered' = Append(offered, b)
    /\ _txbuf' = IF Len(_txbuf) >= TxSize THEN _txbuf ELSE Append(_txbuf, b)
    /\ UNCHANGED <<_txoverflow, rxq>>

WriteByte(b) ==
    /\ Len(offered) < MaxOffered
    /\ offered' = Append(offered, b)
    /\ IF Len(_txbuf) >= TxSize
       THEN _txoverflow' = TRUE /\ UNCHANGED _txbuf
       ELSE _txbuf' = Append(_txbuf, b) /\ UNCHANGED _txoverflow
    /\ UNCHANGED rxq

(* endTransmission(): 1 for an overflow, else the driver's answer. *)
Results == IF _txoverflow THEN {1} ELSE {0, 2}
EndTransmission == Emptied /\ UNCHANGED rxq

(* requestFrom(): clamped, the ring emptied; the driver fills the buffer   *)
(* from its first byte, and when it fails may have written part of it.     *)
Clamped(n) == IF n > RxSize - 1 THEN RxSize - 1 ELSE n

Filled(s) == [i \in RxSlots |-> IF i < Len(s) THEN s[i + 1] ELSE _rxbuf[i]]

RequestFrom_HeadFirst(n, s, ok) ==
    /\ Len(s) = Clamped(n)
    /\ _rxbuf' = Filled(s)
    /\ _rxtail' = 0
    /\ _rxhead' = Clamped(n)
    /\ reply' = IF ok THEN s ELSE << >>
    /\ UNCHANGED tx

RequestFrom(n, s, ok) ==
    /\ Len(s) = Clamped(n)
    /\ _rxbuf' = Filled(s)
    /\ _rxtail' = 0
    /\ _rxhead' = IF ok THEN Clamped(n) ELSE 0
    /\ reply' = IF ok THEN s ELSE << >>
    /\ UNCHANGED tx

Pending == (_rxhead - _rxtail) % RxSize

WireRead ==
    /\ _rxhead # _rxtail
    /\ _rxtail' = (_rxtail + 1) % RxSize
    /\ reply' = Tail(reply)
    /\ UNCHANGED <<tx, _rxbuf, _rxhead>>

WireStep ==
    \/ BeginTransmission \/ EndTransmission \/ WireRead
    \/ \E b \in Byte : WriteByte(b)
    \/ \E n \in 0 .. RxSize, ok \in BOOLEAN :
         \E s \in [1 .. Clamped(n) -> Byte] : RequestFrom(n, s, ok)

-----------------------------------------------------------------------------
(* A transmission that the sketch is told went well has sent every byte of *)
(* every write() since the queue was emptied, in order; one byte too many  *)
(* is reported by the next endTransmission() and by no later one.          *)
QueueIsHonest ==
    /\ 0 \in Results <=> _txbuf = offered
    /\ Len(_txbuf) <= TxSize

(* What is available is what the slave answered to the last requestFrom(), *)
(* less what was read: a failed request leaves nothing of an earlier one,  *)
(* and a reply as long as the buffer does not look empty.                  *)
ReplyIsFresh ==
    /\ Pending = Len(reply)
    /\ \A i \in 1 .. Pending : _rxbuf[(_rxtail + i - 1) % RxSize] = reply[i]
=============================================================================
