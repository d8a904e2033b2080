------------------------- MODULE Peripherals_proofs -------------------------
(***************************************************************************)
(* Proofs about the whole of a sketch and its peripherals, for every set   *)
(* of pins, buffer size, period and SSID, with any number of events under  *)
(* way.  Each part has an inductive invariant, strengthened by what holds  *)
(* between the steps of its calls; the other parts leave it alone, because *)
(* their calls do not overlap with its own.  The pins, SPI and I2C, which  *)
(* are called back by nobody, come first.                                  *)
(***************************************************************************)
EXTENDS Peripherals, SequenceTheorems, TLAPS

-----------------------------------------------------------------------------
(* The pins, SPI and I2C: each invariant is kept by every call.            *)
Functions == {"reset", "in", "out", "pwm", "analog", "spi", "i2c"}

PwmState == [on: BOOLEAN, freq: Nat, duty: 0 .. 255]

PinsTypeOK ==
    /\ fun \in [Pins -> Functions]
    /\ pin_modes \in [Pins -> {"in", "out"}]
    /\ pwm_freq \in Freqs
    /\ pwm_channel_pin \in [Chans -> Pins \cup {Free}]
    /\ pwm_channel_val \in [Chans -> 0 .. 255]
    /\ pwm \in [Chans -> PwmState]
    /\ full \subseteq Chans
    /\ adc_inited \in BOOLEAN /\ adc_chan_added \subseteq Pins

SpiTypeOK ==
    /\ _ss \in Selects /\ _freq \in Clocks /\ _dataMode \in Modes
    /\ _started \in BOOLEAN /\ _inTransaction \in BOOLEAN
    /\ low \subseteq Selects /\ stranded \subseteq Selects
    /\ cut \in BOOLEAN

(* A slave that was left selected is not the one of begin(), and is the    *)
(* only kind of slave that can be low beside it.                           *)
Strays == _ss \notin stranded /\ low \subseteq stranded \cup {_ss}

PinsInv == PinsTypeOK /\ ChannelFollowsOwner /\ CacheTellsDirection
SpiInv == SpiTypeOK /\ Strays /\ ControllerFollowsSettings /\ OneSlaveListens

-----------------------------------------------------------------------------
(* Every pin has a channel. *)
LEMMA ChannelOfPin == \A p \in Pins : Ch(p) \in Chans
  BY PinsAssumption DEF Ch, Chans

(* A value's duty and the byte the cache keeps of it: the same up to 255.  *)
LEMMA DutyAndByte ==
  ASSUME NEW v \in Nat
  PROVE  /\ DutyOf(v) \in 0 .. 255 /\ LowByte(v) \in 0 .. 255
         /\ v <= 255 => DutyOf(v) = v /\ LowByte(v) = v
  BY DEF DutyOf, LowByte

(* A stopped channel is a state of the controller. *)
LEMMA StoppedIsPwmState == Stopped \in PwmState
  <1>1. FALSE \in BOOLEAN /\ 0 \in Nat /\ 0 \in 0 .. 255
    OBVIOUS
  <1> QED
    BY <1>1, Zenon DEF Stopped, PwmState

(* Nothing owns a channel and no pin is digital at power-on. *)
LEMMA PinsStart == PinsInit => PinsInv
  <1> SUFFICES ASSUME PinsInit PROVE PinsInv
    OBVIOUS
  <1>1. pwm_freq \in Freqs
    BY PinsAssumption DEF PinsInit
  <1>2. PinsTypeOK
    <2>1. fun \in [Pins -> Functions] /\ pin_modes \in [Pins -> {"in", "out"}]
      BY DEF PinsInit, Functions
    <2>2. /\ pwm_channel_pin \in [Chans -> Pins \cup {Free}]
          /\ pwm_channel_val \in [Chans -> 0 .. 255]
          /\ full \subseteq Chans
      BY DEF PinsInit
    <2>3. pwm \in [Chans -> PwmState]
      BY StoppedIsPwmState DEF PinsInit
    <2>4. adc_inited \in BOOLEAN /\ adc_chan_added \subseteq Pins
      BY DEF PinsInit
    <2> QED
      BY <1>1, <2>1, <2>2, <2>3, <2>4 DEF PinsTypeOK
  <1>3. ChannelFollowsOwner
    BY DEF PinsInit, ChannelFollowsOwner, Stopped
  <1>4. CacheTellsDirection
    BY DEF PinsInit, CacheTellsDirection
  <1> QED
    BY <1>2, <1>3, <1>4 DEF PinsInv

(* A call that only changes functions of pins to ones that are not digital *)
(* disturbs nothing the caches say.                                        *)
LEMMA MuxingKeepsPins ==
  ASSUME PinsInv, UNCHANGED <<pin_modes, pwmVars, adcVars>>,
         fun' \in [Pins -> Functions],
         \A p \in Pins \ Selects :
            fun'[p] = fun[p] \/ fun'[p] \notin {"in", "out"}
  PROVE  PinsInv'
  <1>1. PinsTypeOK'
    BY DEF PinsInv, PinsTypeOK, pwmVars, adcVars
  <1>2. ChannelFollowsOwner'
    BY DEF PinsInv, ChannelFollowsOwner, pwmVars
  <1>3. CacheTellsDirection'
    BY DEF PinsInv, CacheTellsDirection
  <1> QED
    BY <1>1, <1>2, <1>3 DEF PinsInv

(* pinMode(), and the digital calls that find the cache to disagree. *)
LEMMA PinModeKeepsPins ==
  ASSUME PinsInv, NEW p \in Pins, NEW m \in {"in", "out"}, PinMode(p, m)
  PROVE  PinsInv'
  <1>1. PinsTypeOK'
    BY DEF PinsInv, PinsTypeOK, PinMode, Functions, pwmVars, adcVars
  <1>2. ChannelFollowsOwner'
    BY DEF PinsInv, ChannelFollowsOwner, PinMode, pwmVars
  <1>3. CacheTellsDirection'
    BY DEF PinsInv, PinsTypeOK, CacheTellsDirection, PinMode
  <1> QED
    BY <1>1, <1>2, <1>3 DEF PinsInv

(* analogWrite() of 0. *)
LEMMA AnalogWriteOffKeepsPins ==
  ASSUME PinsInv, NEW p \in Pins, AnalogWriteOff(p)
  PROVE  PinsInv'
  <1> DEFINE c == Ch(p)
  <1>c. c \in Chans
    BY ChannelOfPin
  <1> HIDE DEF c
  <1>1. PinsTypeOK'
    BY <1>c, StoppedIsPwmState DEF c, PinsInv, PinsTypeOK, AnalogWriteOff, adcVars
  <1>2. ChannelFollowsOwner'
    <2> SUFFICES ASSUME NEW d \in Chans
        PROVE IF pwm_channel_pin'[d] = Free
              THEN ~pwm'[d].on
              ELSE /\ Ch(pwm_channel_pin'[d]) = d
                   /\ pwm'[d].on
                   /\ pwm'[d].freq = pwm_freq'
                   /\ d \notin full' => pwm'[d].duty = pwm_channel_val'[d]
      BY DEF ChannelFollowsOwner
    <2>1. CASE pwm_channel_pin[c] = p /\ d = c
      BY <1>c, <2>1 DEF c, PinsInv, PinsTypeOK, AnalogWriteOff, Stopped
    <2>2. CASE pwm_channel_pin[c] # p \/ d # c
      BY <1>c, <2>2 DEF c, PinsInv, PinsTypeOK, ChannelFollowsOwner, AnalogWriteOff
    <2> QED
      BY <2>1, <2>2
  <1>3. CacheTellsDirection'
    BY DEF PinsInv, CacheTellsDirection, AnalogWriteOff
  <1> QED
    BY <1>1, <1>2, <1>3 DEF PinsInv

(* analogWrite() of a positive value: the channel changes hands. *)
LEMMA AnalogWriteOnKeepsPins ==
  ASSUME PinsInv, NEW p \in Pins, NEW v \in Nat, AnalogWriteOn(p, v)
  PROVE  PinsInv'
  <1> DEFINE c == Ch(p)
             d0 == DutyOf(v)
             b0 == LowByte(v)
             f0 == IF pwm_channel_pin[c] = p THEN pwm[c].freq ELSE pwm_freq
  <1>c. c \in Chans /\ c = Ch(p)
    BY ChannelOfPin
  <1>v. d0 \in 0 .. 255 /\ b0 \in 0 .. 255 /\ (v <= 255 => d0 = b0)
    BY DutyAndByte
  <1>f. f0 = pwm_freq /\ f0 \in Nat
    BY <1>c, PinsAssumption DEF PinsInv, PinsTypeOK, ChannelFollowsOwner
  <1>s. /\ pwm' = [pwm EXCEPT ![c] = Running(f0, d0)]
        /\ pwm_channel_pin' = [pwm_channel_pin EXCEPT ![c] = p]
        /\ pwm_channel_val' = [pwm_channel_val EXCEPT ![c] = b0]
        /\ full' = IF v > 255 THEN full \cup {c} ELSE full \ {c}
        /\ fun' \in [Pins -> Functions]
        /\ \A q \in Pins : fun'[q] = fun[q] \/ fun'[q] = "pwm"
        /\ UNCHANGED <<pin_modes, pwm_freq, adcVars>>
    BY <1>c DEF AnalogWriteOn, PinsInv, PinsTypeOK, Functions
  <1> HIDE DEF c, d0, b0, f0
  <1>1. PinsTypeOK'
    BY <1>c, <1>v, <1>f, <1>s
       DEF PinsInv, PinsTypeOK, adcVars, PwmState, Running
  <1>2. ChannelFollowsOwner'
    <2> SUFFICES ASSUME NEW d \in Chans
        PROVE IF pwm_channel_pin'[d] = Free
              THEN ~pwm'[d].on
              ELSE /\ Ch(pwm_channel_pin'[d]) = d
                   /\ pwm'[d].on
                   /\ pwm'[d].freq = pwm_freq'
                   /\ d \notin full' => pwm'[d].duty = pwm_channel_val'[d]
      BY DEF ChannelFollowsOwner
    <2>1. CASE d = c
      BY <1>c, <1>v, <1>f, <1>s, <2>1, PinsAssumption
         DEF PinsInv, PinsTypeOK, Running
    <2>2. CASE d # c
      BY <1>c, <1>s, <2>2 DEF PinsInv, PinsTypeOK, ChannelFollowsOwner
    <2> QED
      BY <2>1, <2>2
  <1>3. CacheTellsDirection'
    BY <1>s DEF PinsInv, CacheTellsDirection
  <1> QED
    BY <1>1, <1>2, <1>3 DEF PinsInv

(* analogWriteFrequency(): every owned channel, and no other. *)
LEMMA FrequencyKeepsPins ==
  ASSUME PinsInv, NEW f \in Freqs, AnalogWriteFrequency(f)
  PROVE  PinsInv'
  <1>d. \A c \in Chans : /\ DutyOf(pwm_channel_val[c]) = pwm_channel_val[c]
                         /\ pwm_channel_val[c] \in 0 .. 255
    BY DEF PinsInv, PinsTypeOK, DutyOf
  <1>1. PinsTypeOK'
    BY <1>d, PinsAssumption
       DEF PinsInv, PinsTypeOK, AnalogWriteFrequency, Functions, adcVars,
           PwmState, Running
  <1>2. ChannelFollowsOwner'
    BY <1>d DEF PinsInv, ChannelFollowsOwner, AnalogWriteFrequency, Running
  <1>3. CacheTellsDirection'
    BY DEF PinsInv, PinsTypeOK, CacheTellsDirection, AnalogWriteFrequency
  <1> QED
    BY <1>1, <1>2, <1>3 DEF PinsInv

(* No call on a pin leaves a cache wrong. *)
LEMMA PinStepKeepsPins ==
  ASSUME PinsInv, NEW p \in Pins, PinStep(p)
  PROVE  PinsInv'
  <1>0. CASE UNCHANGED pinVars
    BY <1>0, MuxingKeepsPins DEF pinVars, PinsInv, PinsTypeOK
  <1>1. ASSUME NEW m \in {"in", "out"}, PinMode(p, m) \/ Digital(p, m)
        PROVE  PinsInv'
    BY <1>0, <1>1, PinModeKeepsPins DEF Digital
  <1>2. CASE AnalogWriteOff(p)
    BY <1>2, AnalogWriteOffKeepsPins
  <1>3. ASSUME NEW v \in Values, AnalogWriteOn(p, v)
        PROVE  PinsInv'
    BY <1>3, AnalogWriteOnKeepsPins, PinsAssumption
  <1>4. CASE AdcInitFails(p)
    BY <1>0, <1>4 DEF AdcInitFails
  <1>5. ASSUME NEW ok \in BOOLEAN, AdcAdd(p, ok)
        PROVE  PinsInv'
    <2>1. PinsTypeOK'
      BY <1>5 DEF AdcAdd, PinsInv, PinsTypeOK, Functions, pwmVars
    <2>2. ChannelFollowsOwner'
      BY <1>5 DEF AdcAdd, PinsInv, ChannelFollowsOwner, pwmVars
    <2>3. CacheTellsDirection'
      BY <1>5 DEF AdcAdd, PinsInv, PinsTypeOK, CacheTellsDirection
    <2> QED
      BY <2>1, <2>2, <2>3 DEF PinsInv
  <1> QED
    BY <1>1, <1>2, <1>3, <1>4, <1>5 DEF PinStep

-----------------------------------------------------------------------------
(* The controller is off and nobody is selected at power-on. *)
LEMMA SpiStart == SpiInit => SpiInv
  <1> SUFFICES ASSUME SpiInit PROVE SpiInv
    OBVIOUS
  <1>1. _ss \in Selects /\ _freq \in Clocks /\ _dataMode \in Modes
    BY SpiAssumption DEF SpiInit
  <1>2. SpiTypeOK
    BY <1>1 DEF SpiInit, SpiTypeOK
  <1>3. Strays /\ ControllerFollowsSettings
    <2>1. Strays
      BY DEF SpiInit, Strays
    <2>2. ControllerFollowsSettings
      BY Zenon DEF SpiInit, ControllerFollowsSettings
    <2> QED
      BY <2>1, <2>2
  <1>4. OneSlaveListens
    BY DEF SpiInit, OneSlaveListens, DuringTransfer, Selected
  <1> QED
    BY <1>2, <1>3, <1>4 DEF SpiInv

(* What a step of SPI does to its own state. *)
LEMMA SpiStepKeepsTypes ==
  ASSUME SpiTypeOK, SpiStep
  PROVE  SpiTypeOK'
  <1>1. CASE \E s \in Selects : SpiBegin(s)
    BY <1>1 DEF SpiTypeOK, SpiBegin, Deselected
  <1>2. CASE SpiEnd
    BY <1>2 DEF SpiTypeOK, SpiEnd, Deselected, settings
  <1>3. CASE \E f \in Clocks, m \in Modes : BeginTransaction(f, m)
    BY <1>3 DEF SpiTypeOK, BeginTransaction, Selected
  <1>4. CASE EndTransaction
    BY <1>4 DEF SpiTypeOK, EndTransaction, Deselected, settings
  <1>5. CASE Transfer
    BY <1>5 DEF SpiTypeOK, Transfer, Deselected, settings, history
  <1>6. CASE \E m \in Modes : SetDataMode(m)
    BY <1>6 DEF SpiTypeOK, SetDataMode, history
  <1>7. CASE \E f \in Clocks : SetClockDivider(f)
    BY <1>7 DEF SpiTypeOK, SetClockDivider, history
  <1> QED
    BY <1>1, <1>2, <1>3, <1>4, <1>5, <1>6, <1>7 DEF SpiStep

(* The controller: set up anew, or set up like that already. *)
LEMMA SpiStepKeepsController ==
  ASSUME SpiTypeOK, ControllerFollowsSettings, SpiStep
  PROVE  ControllerFollowsSettings'
  <1>0. \A f, m : Enabled(f, m).enabled = TRUE
    BY DEF Enabled
  <1> USE DEF SpiTypeOK, ControllerFollowsSettings
  <1>1. CASE \E s \in Selects : SpiBegin(s)
    BY <1>1 DEF SpiBegin, Enabled
  <1>2. CASE SpiEnd
    BY <1>2 DEF SpiEnd, Enabled
  <1>3. CASE \E f \in Clocks, m \in Modes : BeginTransaction(f, m)
    <2>1. CASE _started
      BY <1>0, <1>3, <2>1 DEF BeginTransaction, Differs
    <2>2. CASE ~_started
      BY <1>3, <2>2 DEF BeginTransaction, Differs
    <2> QED
      BY <2>1, <2>2
  <1>4. CASE EndTransaction
    BY <1>4 DEF EndTransaction, settings
  <1>5. CASE Transfer
    BY <1>5 DEF Transfer, settings
  <1>6. CASE \E m \in Modes : SetDataMode(m)
    <2>1. CASE _started
      BY <1>0, <1>6, <2>1 DEF SetDataMode
    <2>2. CASE ~_started
      BY <1>6, <2>2 DEF SetDataMode
    <2> QED
      BY <2>1, <2>2
  <1>7. CASE \E f \in Clocks : SetClockDivider(f)
    <2>1. CASE _started
      BY <1>0, <1>7, <2>1 DEF SetClockDivider
    <2>2. CASE ~_started
      BY <1>7, <2>2 DEF SetClockDivider
    <2> QED
      BY <2>1, <2>2
  <1> QED
    BY <1>1, <1>2, <1>3, <1>4, <1>5, <1>6, <1>7 DEF SpiStep

(* The chip selects: OneSlaveListens alone does not survive the next       *)
(* transaction after a cut one; Strays says what is left low until then.   *)
LEMMA SpiStepKeepsSelects ==
  ASSUME SpiTypeOK, Strays, OneSlaveListens, SpiStep
  PROVE  Strays' /\ OneSlaveListens'
  <1> USE DEF SpiTypeOK, Strays, OneSlaveListens, DuringTransfer, Selected,
              Deselected
  <1>1. CASE \E s \in Selects : SpiBegin(s)
    BY <1>1 DEF SpiBegin
  <1>2. CASE SpiEnd
    BY <1>2 DEF SpiEnd, settings
  <1>3. CASE \E f \in Clocks, m \in Modes : BeginTransaction(f, m)
    BY <1>3 DEF BeginTransaction
  <1>4. CASE EndTransaction
    BY <1>4 DEF EndTransaction, settings
  <1>5. CASE Transfer
    BY <1>5 DEF Transfer, settings, history
  <1>6. CASE \E m \in Modes : SetDataMode(m)
    BY <1>6 DEF SetDataMode, history
  <1>7. CASE \E f \in Clocks : SetClockDivider(f)
    BY <1>7 DEF SetClockDivider, settings, history
  <1> QED
    BY <1>1, <1>2, <1>3, <1>4, <1>5, <1>6, <1>7 DEF SpiStep

(* SPI takes its bus and its chip selects, and gives no pin a direction    *)
(* that the cache of the digital calls is for.                             *)
LEMMA SpiStepKeepsPins ==
  ASSUME PinsInv, SpiTypeOK, SpiStep
  PROVE  PinsInv'
  <1>1. ASSUME NEW s \in Selects, fun' = Muxed(s) \/ fun' = [fun EXCEPT ![s] = "out"]
        PROVE  /\ fun' \in [Pins -> Functions]
               /\ \A p \in Pins \ Selects :
                     fun'[p] = fun[p] \/ fun'[p] \notin {"in", "out"}
    BY <1>1, SpiAssumption DEF Muxed, PinsInv, PinsTypeOK, Functions
  <1>2. ASSUME fun' = [p \in Pins |-> IF p \in SpiBus THEN "spi" ELSE fun[p]]
        PROVE  /\ fun' \in [Pins -> Functions]
               /\ \A p \in Pins \ Selects :
                     fun'[p] = fun[p] \/ fun'[p] \notin {"in", "out"}
    BY <1>2 DEF PinsInv, PinsTypeOK, Functions
  <1>3. \/ fun' = fun
        \/ \E s \in Selects : fun' = Muxed(s) \/ fun' = [fun EXCEPT ![s] = "out"]
        \/ fun' = [p \in Pins |-> IF p \in SpiBus THEN "spi" ELSE fun[p]]
    BY DEF SpiStep, SpiTypeOK, SpiBegin, SpiEnd, BeginTransaction,
           EndTransaction, Transfer, SetDataMode, SetClockDivider
  <1>4. CASE fun' = fun
    BY <1>4, MuxingKeepsPins DEF SpiStep, PinsInv, PinsTypeOK
  <1> QED
    BY <1>1, <1>2, <1>3, <1>4, MuxingKeepsPins DEF SpiStep

-----------------------------------------------------------------------------
(* The queue: what was offered, as long as it fits; and the buffer, whose  *)
(* cursors never wrap, since each reply starts at its first byte.          *)
TxInv ==
    /\ _txbuf \in Seq(Byte) /\ offered \in Seq(Byte)
    /\ Len(_txbuf) <= TxSize
    /\ _txoverflow => Len(offered) > Len(_txbuf)
    /\ ~_txoverflow => _txbuf = offered

RxInv ==
    /\ _rxbuf \in [RxSlots -> Byte]
    /\ _rxhead \in RxSlots /\ _rxtail \in RxSlots /\ _rxtail <= _rxhead
    /\ reply \in Seq(Byte) /\ Len(reply) = _rxhead - _rxtail
    /\ \A i \in 1 .. Len(reply) : _rxbuf[_rxtail + i - 1] = reply[i]

(* The sizes, without their powers of two. *)
LEMMA BufferSizes == TxSize \in Nat \ {0} /\ RxSize \in Nat /\ RxSize > 1
  BY WireAssumption

(* The ring arithmetic of a cursor that does not wrap. *)
LEMMA BelowRing == \A a \in RxSlots : a % RxSize = a
  BY BufferSizes DEF RxSlots

(* Both hold at power-on. *)
LEMMA WireStart == WireInit => TxInv /\ RxInv
  <1> SUFFICES ASSUME WireInit PROVE TxInv /\ RxInv
    OBVIOUS
  <1>1. TxInv
    BY BufferSizes DEF WireInit, TxInv
  <1>2. RxInv
    BY WireAssumption, BufferSizes DEF WireInit, RxInv, RxSlots
  <1> QED
    BY <1>1, <1>2

(* The queue under every call. *)
LEMMA WireStepKeepsQueue ==
  ASSUME TxInv, WireStep
  PROVE  TxInv'
  <1>1. CASE Emptied
    BY <1>1, BufferSizes DEF Emptied, TxInv
  <1>2. ASSUME NEW b \in Byte, WriteByte(b)
        PROVE  TxInv'
    <2>1. /\ offered' = Append(offered, b) /\ offered' \in Seq(Byte)
          /\ Len(offered') = Len(offered) + 1
      BY <1>2 DEF WriteByte, TxInv
    <2>2. CASE Len(_txbuf) >= TxSize
      <3>1. _txbuf' = _txbuf /\ _txoverflow'
        BY <1>2, <2>2 DEF WriteByte
      <3>2. Len(offered) >= Len(_txbuf)
        BY DEF TxInv
      <3> QED
        BY <2>1, <3>1, <3>2 DEF TxInv
    <2>3. CASE ~(Len(_txbuf) >= TxSize)
      <3>1. _txbuf' = Append(_txbuf, b) /\ _txoverflow' = _txoverflow
        BY <1>2, <2>3, Zenon DEF WriteByte
      <3>3. _txbuf' \in Seq(Byte) /\ Len(_txbuf') = Len(_txbuf) + 1
        BY <3>1 DEF TxInv
      <3>2. Len(_txbuf) + 1 <= TxSize
        BY <2>3, BufferSizes DEF TxInv
      <3> QED
        BY <2>1, <3>1, <3>3, <3>2 DEF TxInv
    <2> QED
      BY <2>2, <2>3
  <1>3. CASE UNCHANGED tx
    BY <1>3 DEF tx, TxInv
  <1> QED
    BY <1>1, <1>2, <1>3
       DEF WireStep, BeginTransmission, EndTransmission, WireRead, RequestFrom

(* The buffer under every call. *)
LEMMA WireStepKeepsBuffer ==
  ASSUME RxInv, WireStep
  PROVE  RxInv'
  <1>1. CASE UNCHANGED rxq
    BY <1>1 DEF rxq, RxInv
  <1>2. CASE WireRead
    <2>1. reply # << >>
      BY <1>2 DEF WireRead, RxInv, RxSlots
    <2>2. /\ Tail(reply) \in Seq(Byte) /\ Len(Tail(reply)) = Len(reply) - 1
          /\ \A i \in 1 .. Len(reply) - 1 : Tail(reply)[i] = reply[i + 1]
      BY <2>1 DEF RxInv
    <2>3. _rxtail' = _rxtail + 1 /\ _rxtail' \in RxSlots /\ _rxtail' <= _rxhead
      <3>1. _rxtail + 1 \in RxSlots /\ _rxtail + 1 <= _rxhead
        BY <1>2, BufferSizes DEF WireRead, RxInv, RxSlots
      <3> QED
        BY <1>2, <3>1, BelowRing DEF WireRead
    <2>4. _rxbuf' = _rxbuf /\ _rxhead' = _rxhead /\ reply' = Tail(reply)
      BY <1>2 DEF WireRead
    <2>5. ASSUME NEW i \in 1 .. Len(reply')
          PROVE  _rxbuf'[_rxtail' + i - 1] = reply'[i]
      <3>1. Len(reply) \in Nat /\ _rxtail \in Int /\ Len(reply') = Len(reply) - 1
        BY <2>2, <2>4, BufferSizes DEF RxInv, RxSlots
      <3>2. i \in 1 .. Len(reply) - 1 /\ i + 1 \in 1 .. Len(reply)
        BY <3>1
      <3>3. _rxbuf[_rxtail + (i + 1) - 1] = reply[i + 1]
        BY <3>2 DEF RxInv
      <3>4. _rxtail' + i - 1 = _rxtail + (i + 1) - 1
        BY <2>3, <3>1, <3>2
      <3>5. reply'[i] = reply[i + 1]
        BY <2>2, <2>4, <3>2
      <3> QED
        BY <2>4, <3>3, <3>4, <3>5
    <2> QED
      BY <2>2, <2>3, <2>4, <2>5 DEF RxInv, RxSlots
  <1>3. ASSUME NEW n \in 0 .. RxSize, NEW ok \in BOOLEAN,
               NEW s \in [1 .. Clamped(n) -> Byte], RequestFrom(n, s, ok)
        PROVE  RxInv'
    <2>1. Clamped(n) \in Nat /\ Clamped(n) < RxSize
      BY BufferSizes DEF Clamped
    <2>2. s \in Seq(Byte) /\ Len(s) = Clamped(n)
      BY <2>1, SeqDef
    <2>3. /\ Filled(s) \in [RxSlots -> Byte]
          /\ \A i \in 1 .. Len(s) : Filled(s)[i - 1] = s[i]
      BY <2>1, <2>2, BufferSizes DEF Filled, RxInv, RxSlots
    <2>4. CASE ok
      <3>1. /\ _rxbuf' = Filled(s) /\ _rxtail' = 0 /\ _rxhead' = Clamped(n)
            /\ reply' = s
        BY <1>3, <2>4 DEF RequestFrom
      <3> QED
        BY <2>1, <2>2, <2>3, <3>1, BufferSizes DEF RxInv, RxSlots
    <2>5. CASE ~ok
      <3>1. /\ _rxbuf' = Filled(s) /\ _rxtail' = 0 /\ _rxhead' = 0
            /\ reply' = << >>
        BY <1>3, <2>5 DEF RequestFrom
      <3> QED
        BY <2>3, <3>1, BufferSizes DEF RxInv, RxSlots
    <2> QED
      BY <2>4, <2>5
  <1> QED
    BY <1>1, <1>2, <1>3
       DEF WireStep, BeginTransmission, EndTransmission, WriteByte

(* What the two say to the sketch. *)
LEMMA WirePromises ==
  ASSUME TxInv, RxInv
  PROVE  QueueIsHonest /\ ReplyIsFresh
  <1>1. QueueIsHonest
    BY DEF TxInv, QueueIsHonest, Results
  <1>2. Pending = Len(reply)
    <2>1. _rxhead - _rxtail \in RxSlots
      BY BufferSizes DEF RxInv, RxSlots
    <2> QED
      BY <2>1, BelowRing DEF RxInv, Pending
  <1>3. \A i \in 1 .. Len(reply) : (_rxtail + i - 1) % RxSize = _rxtail + i - 1
    <2>1. \A i \in 1 .. Len(reply) : _rxtail + i - 1 \in RxSlots
      BY BufferSizes DEF RxInv, RxSlots
    <2> QED
      BY <2>1, BelowRing
  <1> QED
    BY <1>1, <1>2, <1>3 DEF ReplyIsFresh, RxInv

-----------------------------------------------------------------------------
(* The steps inside the calls of each part. *)
TimerLabels == {"timer.replace", "timer.init", "timer.go", "timer.started",
                "timer.stopped"}
InterruptLabels == {"attach.mode", "attach.arm", "detach.mask"}
BleLabels == {"end.adv", "end.conn", "end.class"}
WiFiLabels == {"begin.connect", "begin.ssid"}

(* The sketch goes on inside a call of another part, or returns from it.   *)
Outside(labels) ==
    pc' = pc \/ (pc.at \notin labels /\ pc'.at \notin labels)

-----------------------------------------------------------------------------
(* The timer.  Whatever crossed what, a timer that counts is set up and    *)
(* known to be started, and one that is set up has the period asked for;   *)
(* inside a call the flags are those the next step is about to set.        *)
TimerTypeOK ==
    /\ s_inited \in BOOLEAN /\ s_started \in BOOLEAN /\ crossed \in BOOLEAN
    /\ wanted \in Nat
    /\ timer \in [period: Nat, counts: BOOLEAN]

TimerInv ==
    /\ TimerTypeOK
    /\ s_inited => timer.period = wanted
    /\ timer.counts => s_inited
    /\ pc.at = "timer.replace" => pc.period \in Periods
    /\ pc.at = "timer.init" => ~s_inited /\ ~s_started /\ ~timer.counts
    /\ pc.at = "timer.go" => s_inited /\ ~s_started /\ ~timer.counts
    /\ pc.at = "timer.started" => (~crossed => timer.counts)
    /\ pc.at = "timer.stopped" => ~timer.counts
    /\ pc.at \notin {"timer.init", "timer.go", "timer.started", "timer.stopped"} =>
         /\ timer.counts => s_started
         /\ ~crossed => (s_started => timer.counts)

(* Nothing is set up at power-on. *)
LEMMA TimerStart == TimerInit /\ pc = [at |-> "loop"] => TimerInv
  <1> SUFFICES ASSUME TimerInit, pc = [at |-> "loop"] PROVE TimerInv
    OBVIOUS
  <1>1. ~s_inited /\ ~s_started /\ ~timer.counts /\ pc.at = "loop"
    BY DEF TimerInit, Unset
  <1>2. TimerTypeOK
    <2>1. FALSE \in BOOLEAN /\ 0 \in Nat
      OBVIOUS
    <2> QED
      BY <2>1, Zenon DEF TimerInit, TimerTypeOK, Unset
  <1> QED
    BY <1>1, <1>2 DEF TimerInv

(* What the sketch's own calls do to the timer. *)
LEMMA TimerCallsKeepTimer ==
  ASSUME TimerInv,
         \/ \E period \in Periods : timer_begin(period) \/ timer_set_period(period)
         \/ TimerReplace
         \/ \E ok \in BOOLEAN : TimerSetUp(ok) \/ TimerGo(ok)
         \/ TimerStarted \/ timer_start \/ timer_stop \/ TimerStopped
  PROVE  TimerInv'
  <1> USE DEF TimerInv, TimerTypeOK, At, Goto, Return, InLoop
  <1>1. CASE \E period \in Periods : timer_begin(period) \/ timer_set_period(period)
    BY <1>1 DEF timer_begin, timer_set_period, timerVars
  <1>2. CASE TimerReplace
    <2>1. pc.period \in Nat /\ wanted' = pc.period
      BY <1>2, PeriodsAssumption DEF TimerReplace, TimerTeardown
    <2>2. timer' = Unset /\ Unset \in [period: Nat, counts: BOOLEAN]
      BY <1>2 DEF TimerReplace, TimerTeardown, Unset
    <2> QED
      BY <1>2, <2>1, <2>2 DEF TimerReplace, TimerTeardown, Unset
  <1>3. ASSUME NEW ok \in BOOLEAN, TimerSetUp(ok)
        PROVE  TimerInv'
    <2>1. CASE ok
      <3>1. /\ timer' = [timer EXCEPT !.period = wanted]
            /\ timer' \in [period: Nat, counts: BOOLEAN]
            /\ timer'.period = wanted /\ ~timer'.counts
        BY <1>3, <2>1 DEF TimerSetUp
      <3>2. s_inited' /\ s_inited' \in BOOLEAN /\ pc'.at \in {"timer.go", "loop"}
        BY <1>3, <2>1 DEF TimerSetUp
      <3>3. s_started' = s_started /\ wanted' = wanted /\ crossed' = crossed
        BY <1>3 DEF TimerSetUp
      <3>4. ~s_started
        BY <1>3 DEF TimerSetUp
      <3> QED
        BY <3>1, <3>2, <3>3, <3>4
    <2>2. CASE ~ok
      BY <1>3, <2>2 DEF TimerSetUp
    <2> QED
      BY <2>1, <2>2
  <1>4. ASSUME NEW ok \in BOOLEAN, TimerGo(ok)
        PROVE  TimerInv'
    <2>1. CASE ok
      <3>1. /\ timer' = [timer EXCEPT !.counts = TRUE]
            /\ timer' \in [period: Nat, counts: BOOLEAN]
            /\ timer'.period = timer.period /\ timer'.counts
        BY <1>4, <2>1 DEF TimerGo
      <3>2. ~crossed' /\ crossed' \in BOOLEAN /\ pc'.at = "timer.started"
        <4>1. crossed' = FALSE /\ pc' = [at |-> "timer.started"]
          BY <1>4, <2>1, Zenon DEF TimerGo
        <4>2. FALSE \in BOOLEAN
          OBVIOUS
        <4> QED
          BY <4>1, <4>2
      <3>3. s_started' = s_started /\ wanted' = wanted /\ s_inited' = s_inited
        BY <1>4 DEF TimerGo
      <3>4. s_inited
        BY <1>4 DEF TimerGo
      <3> QED
        BY <3>1, <3>2, <3>3, <3>4
    <2>2. CASE ~ok
      BY <1>4, <2>2 DEF TimerGo
    <2> QED
      BY <2>1, <2>2
  <1>5. CASE TimerStarted
    BY <1>5 DEF TimerStarted
  <1>6. CASE timer_start
    BY <1>6 DEF timer_start, timerVars
  <1>7. CASE timer_stop
    BY <1>7 DEF timer_stop
  <1>8. CASE TimerStopped
    BY <1>8 DEF TimerStopped
  <1> QED
    BY <1>1, <1>2, <1>3, <1>4, <1>5, <1>6, <1>7, <1>8

(* What the callback does to it, in the middle of a call or between two. *)
LEMMA CallbackKeepsTimer ==
  ASSUME TimerInv,
         \/ CallbackStops
         \/ \E ok \in BOOLEAN : CallbackStarts(ok)
         \/ \E period \in Periods, initialised, counting \in BOOLEAN :
               CallbackReplaces(period, initialised, counting)
  PROVE  TimerInv'
  <1> USE DEF TimerInv, TimerTypeOK, At
  <1>1. CASE CallbackStops
    <2>1. /\ timer' \in [period: Nat, counts: BOOLEAN]
          /\ timer'.period = timer.period /\ ~timer'.counts
          /\ ~s_started' /\ s_started' \in BOOLEAN
          /\ crossed' \in BOOLEAN
          /\ (crossed' <=> crossed \/ pc.at = "timer.started")
      BY <1>1 DEF CallbackStops
    <2>2. pc' = pc /\ s_inited' = s_inited /\ wanted' = wanted
      BY <1>1 DEF CallbackStops
    <2>3. pc.at \notin {"timer.init", "timer.go", "timer.stopped"}
      BY <1>1 DEF CallbackStops
    <2> QED
      BY <2>1, <2>2, <2>3
  <1>2. ASSUME NEW ok \in BOOLEAN, CallbackStarts(ok)
        PROVE  TimerInv'
    BY <1>2 DEF CallbackStarts
  <1>3. ASSUME NEW period \in Periods, NEW initialised \in BOOLEAN,
               NEW counting \in BOOLEAN,
               CallbackReplaces(period, initialised, counting)
        PROVE  TimerInv'
    <2>1. /\ timer' \in [period: Nat, counts: BOOLEAN]
          /\ initialised => timer'.period = period
          /\ timer'.counts = counting
      BY <1>3, PeriodsAssumption DEF CallbackReplaces
    <2>2. /\ wanted' = period /\ wanted' \in Nat
          /\ s_inited' = initialised /\ s_started' = counting
          /\ counting => initialised /\ pc' = pc
      BY <1>3, PeriodsAssumption DEF CallbackReplaces
    <2>3. crossed' \in BOOLEAN /\ (crossed' <=> crossed \/ pc.at = "timer.started")
      BY <1>3 DEF CallbackReplaces
    <2>4. pc.at \notin {"timer.init", "timer.go", "timer.stopped"} /\ pc' = pc
      BY <1>3 DEF CallbackReplaces
    <2> QED
      BY <2>1, <2>2, <2>3, <2>4
  <1> QED
    BY <1>1, <1>2, <1>3

(* The calls of the other parts. *)
LEMMA TimerUndisturbed ==
  ASSUME TimerInv, UNCHANGED timerVars, Outside(TimerLabels)
  PROVE  TimerInv'
  BY DEF TimerInv, TimerTypeOK, timerVars, Outside, TimerLabels

(* The property, between two calls. *)
LEMMA TimerPromise == TimerInv => FlagsTellTheTimer
  <1> SUFFICES ASSUME TimerInv, InLoop, ~crossed
               PROVE  /\ s_started = timer.counts
                      /\ s_inited => timer.period = wanted
                      /\ timer.counts => s_inited
    BY DEF FlagsTellTheTimer
  <1>1. pc.at = "loop"
    BY DEF InLoop
  <1>2. s_started <=> timer.counts
    BY <1>1 DEF TimerInv
  <1>3. s_started \in BOOLEAN /\ timer.counts \in BOOLEAN
    BY DEF TimerInv, TimerTypeOK
  <1> QED
    BY <1>2, <1>3 DEF TimerInv

-----------------------------------------------------------------------------
(* The pin interrupt.  Between the reading and the arming nothing is known *)
(* of the edge; afterwards the pin waits for the right one, or the edge is *)
(* latched already, or was missed (late).                                  *)
InterruptInv ==
    /\ level \in {0, 1} /\ latched \in BOOLEAN /\ late \in BOOLEAN
    /\ attached \in BOOLEAN
    /\ isr.at \in {"idle", "arm", "call"}
    /\ isr.at = "idle" => isr = [at |-> "idle"]
    /\ isr.at = "arm" => mode = "CHANGE"
    /\ isr.at # "idle" => armed # Masked
    /\ pc.at \in {"attach.mode", "attach.arm"} => attached
    /\ armed # Masked /\ pc.at # "detach.mask" => attached
    /\ armed # Masked /\ pc.at \notin {"attach.arm", "detach.mask"} =>
         IF mode = "CHANGE"
         THEN \/ isr.at = "arm" \/ latched \/ late
              \/ armed = EdgeFrom(level) /\ (isr.at = "idle" => seen = level)
         ELSE armed = mode

(* Nothing is attached at power-on. *)
LEMMA InterruptStart == InterruptInit /\ pc = [at |-> "loop"] => InterruptInv
  <1> SUFFICES ASSUME InterruptInit, pc = [at |-> "loop"] PROVE InterruptInv
    OBVIOUS
  <1>1. attached = FALSE /\ latched = FALSE /\ late = FALSE /\ FALSE \in BOOLEAN
    BY Zenon DEF InterruptInit
  <1>2. /\ attached \in BOOLEAN /\ latched \in BOOLEAN /\ late \in BOOLEAN
        /\ ~attached /\ armed = Masked
    BY <1>1 DEF InterruptInit
  <1> QED
    BY <1>2 DEF InterruptInit, InterruptInv

(* The pin, and the handler. *)
LEMMA HandlerKeepsInterrupt ==
  ASSUME InterruptInv, IsrEnters \/ IsrArms \/ IsrCalls \/ PinChanges
  PROVE  InterruptInv'
  <1> USE DEF InterruptInv, EdgeFrom, Masked
  <1>1. CASE IsrEnters
    BY <1>1 DEF IsrEnters, IsrIdle, Fires, entry
  <1>2. CASE IsrArms
    BY <1>2 DEF IsrArms, entry, pad
  <1>3. CASE IsrCalls
    BY <1>3 DEF IsrCalls, entry, pad
  <1>4. CASE PinChanges
    BY <1>4 DEF PinChanges, entry
  <1> QED
    BY <1>1, <1>2, <1>3, <1>4

(* The calls, which the handler does not overlap. *)
LEMMA CallsKeepInterrupt ==
  ASSUME InterruptInv, IsrIdle,
         \/ \E m \in InterruptModes : attachInterrupt(m)
         \/ AttachMode \/ AttachArm \/ detachInterrupt \/ DetachMask
  PROVE  InterruptInv'
  <1> USE DEF InterruptInv, EdgeFrom, Masked, IsrIdle, At, Goto, Return, InLoop
  <1>1. CASE \E m \in InterruptModes : attachInterrupt(m)
    BY <1>1 DEF attachInterrupt, pad
  <1>2. CASE AttachMode
    BY <1>2 DEF AttachMode, pad
  <1>3. CASE AttachArm
    BY <1>3 DEF AttachArm, entry, pad
  <1>4. CASE detachInterrupt
    BY <1>4 DEF detachInterrupt, pad
  <1>5. CASE DetachMask
    BY <1>5 DEF DetachMask, entry
  <1> QED
    BY <1>1, <1>2, <1>3, <1>4, <1>5

(* The calls of the other parts. *)
LEMMA InterruptUndisturbed ==
  ASSUME InterruptInv, UNCHANGED interruptVars, Outside(InterruptLabels)
  PROVE  InterruptInv'
  BY DEF InterruptInv, interruptVars, entry, pad, Outside, InterruptLabels, EdgeFrom

(* The property, between two calls. *)
LEMMA InterruptPromise == InterruptInv => ChangesAreSeen
  BY DEF InterruptInv, ChangesAreSeen, InLoop, IsrIdle

-----------------------------------------------------------------------------
(* BLE.  Once end() has stopped the advertising nothing starts it again,   *)
(* and when it has forgotten the connection it remembers who was left.     *)
BleTypeOK ==
    /\ BLE_started \in BOOLEAN /\ BLE_connected \in BOOLEAN
    /\ ble_started \in BOOLEAN /\ s_adv_started \in BOOLEAN
    /\ s_conn \in BOOLEAN /\ enabling \in BOOLEAN /\ adv \in BOOLEAN
    /\ link \in BOOLEAN /\ left \in BOOLEAN /\ swapped \in BOOLEAN

Advertising ==
    /\ pc.at \notin BleLabels =>
         /\ s_adv_started => adv \/ link
         /\ ~ble_started => ~adv /\ ~s_adv_started
    /\ pc.at \in BleLabels => ~adv
    /\ pc.at \in {"end.conn", "end.class"} => ~s_adv_started

Connection ==
    /\ pc.at # "end.class" =>
         /\ BLE_connected <=> link /\ ~left
         /\ s_conn <=> link /\ ~left
    /\ pc.at = "end.class" =>
         /\ link => left
         /\ ~s_conn

BleInv == BleTypeOK /\ (swapped \/ (Advertising /\ Connection))

(* Closed and alone at power-on. *)
LEMMA BleStart == BleInit /\ pc = [at |-> "loop"] => BleInv
  <1> SUFFICES ASSUME BleInit, pc = [at |-> "loop"] PROVE BleInv
    OBVIOUS
  <1>1. FALSE \in BOOLEAN
    OBVIOUS
  <1>2. BleTypeOK
    BY <1>1, Zenon DEF BleInit, BleTypeOK
  <1>3. Advertising /\ Connection
    BY DEF BleInit, Advertising, Connection, BleLabels
  <1> QED
    BY <1>2, <1>3 DEF BleInv

(* Flags stay flags. *)
LEMMA BleTypesStay ==
  ASSUME BleTypeOK, BleStep
  PROVE  BleTypeOK'
  <1>0. FALSE \in BOOLEAN /\ TRUE \in BOOLEAN
    OBVIOUS
  <1> USE DEF BleTypeOK, bleFlags
  <1>1. ASSUME NEW ok \in BOOLEAN, Ready(ok) PROVE BleTypeOK'
    BY <1>0, <1>1 DEF Ready
  <1>2. CASE ReadyFails
    BY <1>0, <1>2 DEF ReadyFails
  <1>3. CASE Connected
    BY <1>0, <1>3 DEF Connected
  <1>4. CASE Disconnected
    BY <1>0, <1>4 DEF Disconnected
  <1>5. CASE BleBegin
    BY <1>0, <1>5 DEF BleBegin
  <1>6. CASE BleEnd
    BY <1>0, <1>6 DEF BleEnd
  <1>7. CASE EndAdv
    BY <1>0, <1>7 DEF EndAdv
  <1>8. CASE EndConn
    BY <1>0, <1>8 DEF EndConn
  <1>9. CASE EndClass
    BY <1>0, <1>9 DEF EndClass
  <1> QED
    BY <1>1, <1>2, <1>3, <1>4, <1>5, <1>6, <1>7, <1>8, <1>9 DEF BleStep

(* A callback that crosses end() is remembered; without one, every step    *)
(* keeps what is known of the advertising and of the connection.           *)
LEMMA BleStepKeepsState ==
  ASSUME BleTypeOK, Advertising, Connection, BleStep, ~swapped'
  PROVE  Advertising' /\ Connection'
  <1> USE DEF BleTypeOK, Advertising, Connection, BleLabels, InEnd, bleFlags,
              At, Goto, Return, InLoop
  <1>1. ASSUME NEW ok \in BOOLEAN, Ready(ok) PROVE Advertising' /\ Connection'
    BY <1>1 DEF Ready
  <1>2. CASE ReadyFails
    BY <1>2 DEF ReadyFails
  <1>3. CASE Connected
    BY <1>3 DEF Connected
  <1>4. CASE Disconnected
    BY <1>4 DEF Disconnected
  <1>5. CASE BleBegin
    BY <1>5 DEF BleBegin
  <1>6. CASE BleEnd
    BY <1>6 DEF BleEnd
  <1>7. CASE EndAdv
    BY <1>7 DEF EndAdv
  <1>8. CASE EndConn
    BY <1>8 DEF EndConn
  <1>9. CASE EndClass
    BY <1>9 DEF EndClass
  <1> QED
    BY <1>1, <1>2, <1>3, <1>4, <1>5, <1>6, <1>7, <1>8, <1>9 DEF BleStep

(* Once remembered, it stays so. *)
LEMMA SwappedStays ==
  ASSUME BleStep, swapped
  PROVE  swapped'
  BY DEF BleStep, Ready, ReadyFails, Connected, Disconnected, BleBegin, BleEnd,
         EndAdv, EndConn, EndClass

(* Every step of BLE. *)
LEMMA BleStepKeepsBle ==
  ASSUME BleInv, BleStep
  PROVE  BleInv'
  BY BleTypesStay, BleStepKeepsState, SwappedStays DEF BleInv

(* The calls of the other parts. *)
LEMMA BleUndisturbed ==
  ASSUME BleInv, UNCHANGED bleVars, Outside(BleLabels)
  PROVE  BleInv'
  BY DEF BleInv, BleTypeOK, Advertising, Connection, bleVars, bleFlags, Outside,
         BleLabels

(* The properties, between two calls. *)
LEMMA BlePromises == BleInv => FindableWhileOpen /\ ConnectedIsTheLink
  <1> SUFFICES ASSUME BleInv PROVE FindableWhileOpen /\ ConnectedIsTheLink
    OBVIOUS
  <1>1. FindableWhileOpen
    BY DEF BleInv, Advertising, BleLabels, FindableWhileOpen, InEnd
  <1>2. ASSUME ~InEnd, ~swapped
        PROVE  BLE_connected = (link /\ ~left) /\ s_conn = (link /\ ~left)
    <2>1. (BLE_connected <=> link /\ ~left) /\ (s_conn <=> link /\ ~left)
      BY <1>2 DEF BleInv, Connection, InEnd
    <2>2. BLE_connected \in BOOLEAN /\ s_conn \in BOOLEAN
      BY DEF BleInv, BleTypeOK
    <2> QED
      BY <2>1, <2>2
  <1> QED
    BY <1>1, <1>2 DEF ConnectedIsTheLink

-----------------------------------------------------------------------------
(* WiFi.  Until the manager has started there is nothing in the queue but  *)
(* the event that starts it, and no access point; afterwards that event    *)
(* does not come again.                                                    *)
Codes == {"INIT_DONE", "PROV_SSID", "CONNECTED", "DISCONNECT", "GOT_IP"}
States == {"DISCONNECT", "CONNECTING", "IP_GETTING", "IP_GOT", "PSK_ERROR",
           "NO_AP_FOUND"}
EventSet == [code: Codes, ssid: SSIDs \cup {None}]
Off == [state |-> "DISCONNECT", ap |-> None]

WiFiTypeOK ==
    /\ events \in Seq(EventSet)
    /\ sta \in [state: States, ap: SSIDs \cup {None}]
    /\ request \in SSIDs \cup {None} /\ stored \in SSIDs \cup {None}
    /\ s_connected_ssid \in SSIDs \cup {None}
    /\ started \in {0, 1}
    /\ pc.at = "begin.ssid" => pc.ssid \in SSIDs

StartsOnce ==
    /\ started = 0 =>
         /\ sta = Off /\ stored = None
         /\ s_wifi_started => events = <<Event("INIT_DONE")>>
         /\ ~s_wifi_started => events = << >>
    /\ started = 1 =>
         /\ s_wifi_started
         /\ \A i \in 1 .. Len(events) : events[i].code # "INIT_DONE"

(* The last PROV_SSID under way names the access point the station is at;  *)
(* when it has been handled, the library names it: or will, when begin()   *)
(* stores what it has asked for.                                           *)
At_AP == sta.state \in {"IP_GETTING", "IP_GOT"}
IsProv(e) == e.code = "PROV_SSID"
HasProv(q) == \E i \in 1 .. Len(q) : IsProv(q[i])
LastProvIs(q, ap) ==
    \A i \in 1 .. Len(q) :
        IsProv(q[i]) /\ (\A j \in 1 .. Len(q) : j > i => ~IsProv(q[j]))
            => q[i].ssid = ap

Named == IF pc.at = "begin.ssid" THEN pc.ssid ELSE s_connected_ssid

NamesAP ==
    At_AP =>
        /\ LastProvIs(events, sta.ap)
        /\ request = None /\ ~HasProv(events) => Named = sta.ap \/ overtaken

(* A station that has an address, and is not about to leave, has told so,  *)
(* or GOT_IP is the last event under way.                                  *)
TellsAddress ==
    sta.state = "IP_GOT" /\ request = None /\ pc.at # "begin.connect" =>
        /\ events = << >> => WiFi_status = "CONNECTED"
        /\ events # << >> => events[Len(events)].code = "GOT_IP"

WiFiInv == WiFiTypeOK /\ StartsOnce /\ NamesAP /\ TellsAddress

(* Appending to the queue, and taking its head. *)
LEMMA Posting ==
  ASSUME NEW q \in Seq(EventSet), NEW codes \in Seq(EventSet)
  PROVE  /\ q \o codes \in Seq(EventSet)
         /\ Len(q \o codes) = Len(q) + Len(codes)
         /\ Len(q) \in Nat /\ Len(codes) \in Nat
         /\ \A i \in 1 .. Len(q) : (q \o codes)[i] = q[i]
         /\ \A i \in 1 .. Len(codes) : (q \o codes)[Len(q) + i] = codes[i]
  OBVIOUS

(* ... and what is left of it. *)
LEMMA Handling ==
  ASSUME NEW q \in Seq(EventSet), q # << >>
  PROVE  /\ Tail(q) \in Seq(EventSet) /\ Len(q) \in Nat
         /\ Len(Tail(q)) = Len(q) - 1 /\ Len(q) >= 1
         /\ \A i \in 1 .. Len(q) - 1 : Tail(q)[i] = q[i + 1]
         /\ Head(q) = q[1] /\ q[1] \in EventSet
  OBVIOUS

(* Handling the head leaves the last PROV_SSID the last, or was its turn.  *)
LEMMA HandlingProv ==
  ASSUME NEW q \in Seq(EventSet), q # << >>, NEW ap, LastProvIs(q, ap)
  PROVE  /\ LastProvIs(Tail(q), ap)
         /\ ~HasProv(Tail(q)) /\ IsProv(Head(q)) => Head(q).ssid = ap
         /\ ~HasProv(Tail(q)) /\ ~IsProv(Head(q)) => ~HasProv(q)
  <1>1. ASSUME NEW i \in 1 .. Len(Tail(q)), IsProv(Tail(q)[i]),
               \A j \in 1 .. Len(Tail(q)) : j > i => ~IsProv(Tail(q)[j])
        PROVE  Tail(q)[i].ssid = ap
    <2>1. i + 1 \in 1 .. Len(q) /\ IsProv(q[i + 1]) /\ Tail(q)[i] = q[i + 1]
      BY <1>1, Handling
    <2>2. ASSUME NEW j \in 1 .. Len(q), j > i + 1 PROVE ~IsProv(q[j])
      <3>1. j - 1 \in 1 .. Len(Tail(q)) /\ j - 1 > i /\ Tail(q)[j - 1] = q[j]
        BY <2>2, Handling
      <3> QED
        BY <1>1, <3>1
    <2> QED
      BY <2>1, <2>2 DEF LastProvIs
  <1>2. LastProvIs(Tail(q), ap)
    BY <1>1 DEF LastProvIs
  <1>3. ASSUME NEW j \in 1 .. Len(q), j > 1
        PROVE  j - 1 \in 1 .. Len(Tail(q)) /\ Tail(q)[j - 1] = q[j]
    BY <1>3, Handling
  <1>4. ~HasProv(Tail(q)) => \A j \in 1 .. Len(q) : j > 1 => ~IsProv(q[j])
    BY <1>3 DEF HasProv
  <1>5. ~HasProv(Tail(q)) /\ IsProv(Head(q)) => Head(q).ssid = ap
    <2>1. 1 \in 1 .. Len(q) /\ Head(q) = q[1]
      BY Handling
    <2> QED
      BY <1>4, <2>1 DEF LastProvIs
  <1>6. ~HasProv(Tail(q)) /\ ~IsProv(Head(q)) => ~HasProv(q)
    <2>1. Head(q) = q[1] /\ \A j \in 1 .. Len(q) : j = 1 \/ j > 1
      BY Handling
    <2> QED
      BY <1>4, <2>1 DEF HasProv
  <1> QED
    BY <1>2, <1>5, <1>6

(* The events of the code are events. *)
LEMMA EventIsEvent ==
  ASSUME NEW code \in Codes
  PROVE  Event(code) \in EventSet /\ Event(code).code = code
  BY DEF Event, EventSet

(* Nothing has happened at power-on. *)
LEMMA WiFiStart == WiFiInit /\ pc = [at |-> "loop"] => WiFiInv
  <1> SUFFICES ASSUME WiFiInit, pc = [at |-> "loop"] PROVE WiFiInv
    OBVIOUS
  <1>1. ~s_wifi_started
    BY DEF WiFiInit
  <1>2. /\ started = 0 /\ sta = Off /\ stored = None /\ events = << >>
        /\ request = None /\ s_connected_ssid = None
    BY DEF WiFiInit, Off
  <1>3. WiFiTypeOK
    BY <1>2 DEF WiFiTypeOK, Off, States
  <1>4. StartsOnce
    BY <1>1, <1>2 DEF StartsOnce
  <1>5. NamesAP /\ TellsAddress
    BY <1>2 DEF NamesAP, TellsAddress, At_AP, Off
  <1> QED
    BY <1>3, <1>4, <1>5 DEF WiFiInv

(* The calls of the sketch. *)
LEMMA WiFiCallsKeepWiFi ==
  ASSUME WiFiInv,
         \/ BeginStarts \/ BeginNames \/ WiFiDisconnect \/ Status
         \/ \E ssid \in SSIDs : BeginConnects(ssid)
  PROVE  WiFiInv'
  <1> USE DEF InLoop, At, Goto, Return
  <1>1. CASE BeginStarts
    <2>1. /\ UNCHANGED <<s_connected_ssid, started, sta, request, stored, overtaken>>
          /\ s_wifi_started' /\ pc.at = "loop" /\ pc'.at = "begin.connect"
      BY <1>1 DEF BeginStarts, sdk
    <2>2. CASE s_wifi_started
      <3>1. events' = events
        BY <1>1, <2>2 DEF BeginStarts
      <3> QED
        BY <2>1, <2>2, <3>1 DEF WiFiInv, WiFiTypeOK, StartsOnce, NamesAP, Named,
           TellsAddress, At_AP
    <2>3. CASE ~s_wifi_started
      <3>1. started = 0 /\ events = << >> /\ sta = Off /\ stored = None
        BY <2>3 DEF WiFiInv, WiFiTypeOK, StartsOnce
      <3>2. events' = <<Event("INIT_DONE")>>
        BY <1>1, <2>3, <3>1 DEF BeginStarts, Post
      <3>3. Event("INIT_DONE") \in EventSet
        BY EventIsEvent DEF Codes
      <3>4. events' \in Seq(EventSet)
        BY <3>2, <3>3
      <3> QED
        BY <2>1, <3>1, <3>2, <3>4 DEF WiFiInv, WiFiTypeOK, StartsOnce, NamesAP,
           TellsAddress, At_AP, Off
    <2> QED
      BY <2>2, <2>3
  <1>2. CASE BeginNames
    <2>1. /\ UNCHANGED <<WiFi_status, s_wifi_started, started, sta, request, stored,
                         events, overtaken>>
          /\ s_connected_ssid' = pc.ssid
          /\ pc.at = "begin.ssid" /\ pc'.at = "loop"
      BY <1>2 DEF BeginNames, sdk
    <2> QED
      BY <2>1 DEF WiFiInv, WiFiTypeOK, StartsOnce, NamesAP, Named, TellsAddress, At_AP
  <1>3. CASE WiFiDisconnect
    <2>1. /\ UNCHANGED <<s_wifi_started, s_connected_ssid, started, stored,
                         overtaken, pc>>
          /\ pc.at = "loop" /\ sta' = Off /\ request' = None
      BY <1>3 DEF WiFiDisconnect, Off
    <2>2. CASE sta.ap = None
      <3>1. events' = events
        BY <1>3, <2>2 DEF WiFiDisconnect
      <3> QED
        BY <2>1, <3>1 DEF WiFiInv, WiFiTypeOK, StartsOnce, NamesAP, TellsAddress,
           At_AP, Off, States
    <2>3. CASE sta.ap # None
      <3>1. started = 1
        BY <2>3 DEF WiFiInv, WiFiTypeOK, StartsOnce, Off
      <3>2. events' = events \o <<Event("DISCONNECT")>>
        BY <1>3, <2>3 DEF WiFiDisconnect, Post
      <3>3. /\ Event("DISCONNECT") \in EventSet
            /\ Event("DISCONNECT").code = "DISCONNECT"
        BY EventIsEvent DEF Codes
      <3>4. /\ events' \in Seq(EventSet)
            /\ \A i \in 1 .. Len(events') : events'[i].code # "INIT_DONE"
        BY <3>1, <3>2, <3>3 DEF WiFiInv, WiFiTypeOK, StartsOnce
      <3> QED
        BY <2>1, <3>1, <3>4 DEF WiFiInv, WiFiTypeOK, StartsOnce, NamesAP,
           TellsAddress, At_AP, Off, States
    <2> QED
      BY <2>2, <2>3
  <1>4. CASE Status
    <2>1. /\ UNCHANGED <<s_wifi_started, s_connected_ssid, started, sta, request,
                         stored, events, overtaken, pc>>
          /\ WiFi_status' = StatusOf(sta.state)
      BY <1>4 DEF Status, sdk
    <2> QED
      BY <2>1 DEF WiFiInv, WiFiTypeOK, StartsOnce, NamesAP, Named, TellsAddress,
         At_AP, StatusOf
  <1>5. ASSUME NEW ssid \in SSIDs, BeginConnects(ssid)
        PROVE  WiFiInv'
    <2>1. /\ UNCHANGED <<WiFi_status, s_wifi_started, s_connected_ssid, started,
                         sta, stored, events, overtaken>>
          /\ request' = ssid /\ request' # None
          /\ pc'.at = "begin.ssid" /\ pc'.ssid = ssid
      BY <1>5, WiFiAssumption DEF BeginConnects, flags
    <2> QED
      BY <2>1 DEF WiFiInv, WiFiTypeOK, StartsOnce, NamesAP, TellsAddress, At_AP
  <1> QED
    BY <1>1, <1>2, <1>3, <1>4, <1>5

(* The library handles an event. *)
LEMMA EventKeepsWiFi ==
  ASSUME WiFiInv, WiFiEvent
  PROVE  WiFiInv'
  <1> DEFINE e == Head(events)
  <1>1. /\ events # << >> /\ events' = Tail(events) /\ events \in Seq(EventSet)
        /\ UNCHANGED <<pc, s_wifi_started, sta, request, stored>>
        /\ started' = IF e.code = "INIT_DONE" THEN started + 1 ELSE started
        /\ WiFi_status' = AfterEvent(e.code)
    BY DEF WiFiEvent, WiFiInv, WiFiTypeOK
  <1>2. /\ events' \in Seq(EventSet) /\ Len(events) \in Nat /\ Len(events) >= 1
        /\ Len(events') = Len(events) - 1
        /\ \A i \in 1 .. Len(events) - 1 : events'[i] = events[i + 1]
        /\ e = events[1] /\ e \in EventSet
    BY <1>1, Handling
  <1>3. TellsAddress'
    <2>1. CASE Len(events) = 1
      BY <1>1, <1>2, <2>1 DEF WiFiInv, TellsAddress, AfterEvent
    <2>2. CASE Len(events) > 1
      <3>1. events' # << >> /\ events'[Len(events')] = events[Len(events)]
        BY <1>2, <2>2
      <3> QED
        BY <1>1, <3>1 DEF WiFiInv, TellsAddress
    <2> QED
      BY <1>2, <2>1, <2>2
  <1>4. CASE IsProv(e)
    <2>1. /\ s_connected_ssid' = e.ssid
          /\ overtaken' = (pc.at = "begin.ssid" /\ pc.ssid # e.ssid)
      BY <1>4 DEF WiFiEvent, IsProv, At
    <2>2. started = 1 /\ started' = 1
      <3>1. e.code # "INIT_DONE"
        BY <1>4 DEF IsProv
      <3>2. started # 0
        BY <1>1, <1>2, <3>1 DEF WiFiInv, StartsOnce, Event
      <3> QED
        BY <1>1, <3>1, <3>2 DEF WiFiInv, WiFiTypeOK
    <2>3. WiFiTypeOK'
      BY <1>1, <1>2, <2>1, <2>2 DEF WiFiInv, WiFiTypeOK, EventSet
    <2>4. StartsOnce'
      BY <1>1, <1>2, <2>2 DEF WiFiInv, StartsOnce
    <2>5. ASSUME At_AP'
          PROVE  /\ LastProvIs(events', sta.ap)
                 /\ ~HasProv(events') => Named' = sta.ap \/ overtaken'
      <3>1. LastProvIs(events, sta.ap)
        BY <1>1, <2>5 DEF WiFiInv, NamesAP, At_AP
      <3>2. /\ LastProvIs(events', sta.ap)
            /\ ~HasProv(events') => e.ssid = sta.ap
        BY <1>1, <1>4, <3>1, HandlingProv
      <3> QED
        BY <1>1, <2>1, <3>2 DEF Named
    <2>6. NamesAP'
      BY <1>1, <2>5 DEF NamesAP
    <2> QED
      BY <1>3, <2>3, <2>4, <2>6 DEF WiFiInv
  <1>5. CASE ~IsProv(e)
    <2>1. UNCHANGED <<s_connected_ssid, overtaken>>
      BY <1>5 DEF WiFiEvent, IsProv
    <2>2. CASE started = 0
      <3>1. sta = Off /\ stored = None /\ s_wifi_started /\ e.code = "INIT_DONE"
        BY <1>1, <1>2, <2>2 DEF WiFiInv, StartsOnce, Event
      <3>2. Len(events) = 1
        BY <1>1, <2>2, <3>1 DEF WiFiInv, StartsOnce
      <3>3. started' = 1 /\ Len(events') = 0
        BY <1>1, <1>2, <2>2, <3>1, <3>2
      <3> QED
        BY <1>1, <1>2, <2>1, <3>1, <3>3 DEF WiFiInv, WiFiTypeOK, StartsOnce,
           NamesAP, TellsAddress, At_AP, Off
    <2>3. CASE started = 1
      <3>1. e.code # "INIT_DONE" /\ started' = 1
        BY <1>1, <1>2, <2>3 DEF WiFiInv, StartsOnce
      <3>2. WiFiTypeOK'
        BY <1>1, <1>2, <2>1, <3>1 DEF WiFiInv, WiFiTypeOK
      <3>3. StartsOnce'
        BY <1>1, <1>2, <2>3, <3>1 DEF WiFiInv, StartsOnce
      <3>4. ASSUME At_AP'
            PROVE  /\ LastProvIs(events', sta.ap)
                   /\ ~HasProv(events') => ~HasProv(events)
        <4>1. LastProvIs(events, sta.ap)
          BY <1>1, <3>4 DEF WiFiInv, NamesAP, At_AP
        <4> QED
          BY <1>1, <1>5, <4>1, HandlingProv
      <3>5. NamesAP'
        BY <1>1, <2>1, <3>4 DEF WiFiInv, NamesAP, Named, At_AP
      <3> QED
        BY <1>3, <3>2, <3>3, <3>5 DEF WiFiInv
    <2> QED
      BY <2>2, <2>3 DEF WiFiInv, WiFiTypeOK
  <1> QED
    BY <1>4, <1>5

(* The manager.  It posts nothing, and is at no access point, before it is *)
(* started; what it posts later is not the event that starts it.           *)
LEMMA ManagerKeepsWiFi ==
  ASSUME WiFiInv,
         \/ TakesRequest \/ LosesRequest \/ Autoconnects \/ Associates \/ GetsAddress
         \/ \E state \in {"PSK_ERROR", "NO_AP_FOUND", "DISCONNECT"} :
               FailsOrDrops(state)
  PROVE  WiFiInv'
  <1>0. /\ UNCHANGED <<pc, WiFi_status, s_wifi_started, s_connected_ssid, started,
                       overtaken>>
        /\ events \in Seq(EventSet)
    BY DEF TakesRequest, LosesRequest, Autoconnects, Associates, GetsAddress,
           FailsOrDrops, Manager, flags, WiFiInv, WiFiTypeOK
  <1> USE DEF Manager
  <1>1. CASE TakesRequest
    <2>1. /\ sta' = [state |-> "CONNECTING", ap |-> request]
          /\ request' = None /\ stored' = stored /\ events' = events
          /\ started = 1
      BY <1>1 DEF TakesRequest, WiFiInv, WiFiTypeOK
    <2> QED
      BY <1>0, <2>1 DEF WiFiInv, WiFiTypeOK, StartsOnce, NamesAP, TellsAddress,
         At_AP, States
  <1>2. CASE LosesRequest
    <2>1. /\ sta' = sta /\ sta = Off /\ request' = None /\ stored' = stored
          /\ events' = events
      BY <1>2 DEF LosesRequest, WiFiInv, StartsOnce
    <2> QED
      BY <1>0, <2>1 DEF WiFiInv, WiFiTypeOK, StartsOnce, NamesAP, TellsAddress,
         At_AP, Off
  <1>3. CASE Autoconnects
    <2>1. /\ sta' = [state |-> "CONNECTING", ap |-> stored]
          /\ request' = request /\ stored' = stored /\ events' = events
          /\ started = 1
      BY <1>3 DEF Autoconnects, WiFiInv, WiFiTypeOK
    <2> QED
      BY <1>0, <2>1 DEF WiFiInv, WiFiTypeOK, StartsOnce, NamesAP, TellsAddress,
         At_AP, States
  <1>4. ASSUME sta.state # "DISCONNECT"
        PROVE  started = 1
    BY <1>4 DEF WiFiInv, WiFiTypeOK, StartsOnce, Off
  <1>5. ASSUME NEW codes \in Seq(EventSet), events' = events \o codes, started = 1,
               \A i \in 1 .. Len(codes) : codes[i].code # "INIT_DONE"
        PROVE  /\ events' \in Seq(EventSet)
               /\ \A i \in 1 .. Len(events') : events'[i].code # "INIT_DONE"
    <2>1. \A i \in 1 .. Len(events') :
            \/ i \in 1 .. Len(events)
            \/ i - Len(events) \in 1 .. Len(codes)
      BY <1>0, <1>5, Posting
    <2>2. ASSUME NEW i \in 1 .. Len(events') PROVE events'[i].code # "INIT_DONE"
      <3>1. CASE i \in 1 .. Len(events)
        BY <1>0, <1>5, <3>1, Posting DEF WiFiInv, StartsOnce
      <3>2. CASE i - Len(events) \in 1 .. Len(codes)
        <4>1. /\ events'[Len(events) + (i - Len(events))] = codes[i - Len(events)]
              /\ Len(events) + (i - Len(events)) = i
          BY <1>0, <1>5, <3>2, Posting
        <4> QED
          BY <1>5, <3>2, <4>1
      <3> QED
        BY <2>1, <3>1, <3>2
    <2> QED
      BY <1>0, <1>5, <2>2, Posting
  <1>6. CASE Associates
    <2> DEFINE prov == [code |-> "PROV_SSID", ssid |-> sta.ap]
               codes == <<prov, Event("CONNECTED")>>
    <2>1. /\ sta' = [sta EXCEPT !.state = "IP_GETTING"]
          /\ sta.state = "CONNECTING" /\ started = 1
          /\ request' = request /\ stored' = sta.ap /\ events' = events \o codes
      BY <1>4, <1>6 DEF Associates, Post
    <2>2. sta' \in [state: States, ap: SSIDs \cup {None}] /\ sta'.ap = sta.ap
          /\ sta'.state = "IP_GETTING" /\ sta.ap \in SSIDs \cup {None}
      BY <2>1 DEF WiFiInv, WiFiTypeOK, States
    <2>3. /\ prov \in EventSet /\ IsProv(prov) /\ prov.code # "INIT_DONE"
          /\ Event("CONNECTED") \in EventSet /\ ~IsProv(Event("CONNECTED"))
          /\ Event("CONNECTED").code # "INIT_DONE"
      BY <2>2, EventIsEvent DEF EventSet, Codes, IsProv
    <2> HIDE DEF prov
    <2>4. /\ codes \in Seq(EventSet) /\ Len(codes) = 2
          /\ codes[1] = prov /\ codes[2] = Event("CONNECTED")
          /\ 1 \in 1 .. Len(codes) /\ 2 \in 1 .. Len(codes)
          /\ \A i \in 1 .. Len(codes) : codes[i].code # "INIT_DONE"
      BY <2>3
    <2> HIDE DEF codes
    <2>5. /\ events' \in Seq(EventSet)
          /\ \A i \in 1 .. Len(events') : events'[i].code # "INIT_DONE"
      BY <1>5, <2>1, <2>4
    <2>6. /\ Len(events') = Len(events) + 2 /\ Len(events) \in Nat
          /\ events'[Len(events) + 1] = prov
          /\ events'[Len(events) + 2] = Event("CONNECTED")
      <3>1. /\ Len(events \o codes) = Len(events) + Len(codes) /\ Len(events) \in Nat
            /\ \A i \in 1 .. Len(events) : (events \o codes)[i] = events[i]
            /\ \A i \in 1 .. Len(codes) :
                  (events \o codes)[Len(events) + i] = codes[i]
        BY <1>0, <2>4, Posting
      <3>2. (events \o codes)[Len(events) + 1] = codes[1]
        BY <2>4, <3>1
      <3>3. (events \o codes)[Len(events) + 2] = codes[2]
        BY <2>4, <3>1
      <3> QED
        BY <2>1, <2>4, <3>1, <3>2, <3>3
    <2>7. LastProvIs(events', sta.ap) /\ HasProv(events')
      <3>1. Len(events) + 1 \in 1 .. Len(events')
        BY <2>6
      <3>2. ASSUME NEW i \in 1 .. Len(events'), IsProv(events'[i]),
                   \A j \in 1 .. Len(events') : j > i => ~IsProv(events'[j])
            PROVE  events'[i].ssid = sta.ap
        <4>1. i = Len(events) + 1
          BY <2>3, <2>6, <3>1, <3>2
        <4> QED
          BY <2>6, <4>1 DEF prov
      <3> QED
        BY <2>3, <2>6, <3>1, <3>2 DEF LastProvIs, HasProv
    <2>8. WiFiTypeOK' /\ StartsOnce'
      BY <1>0, <2>1, <2>2, <2>5 DEF WiFiInv, WiFiTypeOK, StartsOnce
    <2>9. NamesAP' /\ TellsAddress'
      BY <2>2, <2>7 DEF NamesAP, TellsAddress
    <2> QED
      BY <2>8, <2>9 DEF WiFiInv
  <1>7. CASE GetsAddress
    <2> DEFINE codes == <<Event("GOT_IP")>>
    <2>1. /\ sta' = [sta EXCEPT !.state = "IP_GOT"]
          /\ sta.state = "IP_GETTING" /\ started = 1
          /\ request' = request /\ stored' = stored /\ events' = events \o codes
      BY <1>4, <1>7 DEF GetsAddress, Post
    <2>2. sta' \in [state: States, ap: SSIDs \cup {None}] /\ sta'.ap = sta.ap
          /\ sta'.state = "IP_GOT"
      BY <2>1 DEF WiFiInv, WiFiTypeOK, States
    <2>3. /\ Event("GOT_IP") \in EventSet /\ Event("GOT_IP").code = "GOT_IP"
          /\ ~IsProv(Event("GOT_IP"))
      BY EventIsEvent DEF Codes, IsProv
    <2>4. /\ codes \in Seq(EventSet) /\ Len(codes) = 1
          /\ codes[1] = Event("GOT_IP") /\ 1 \in 1 .. Len(codes)
          /\ \A i \in 1 .. Len(codes) : codes[i].code # "INIT_DONE"
      BY <2>3
    <2> HIDE DEF codes
    <2>5. /\ events' \in Seq(EventSet)
          /\ \A i \in 1 .. Len(events') : events'[i].code # "INIT_DONE"
      BY <1>5, <2>1, <2>4
    <2>6. /\ Len(events') = Len(events) + 1 /\ Len(events) \in Nat
          /\ events'[Len(events) + 1] = Event("GOT_IP")
          /\ \A i \in 1 .. Len(events) : events'[i] = events[i]
      <3>1. /\ Len(events \o codes) = Len(events) + Len(codes) /\ Len(events) \in Nat
            /\ \A i \in 1 .. Len(events) : (events \o codes)[i] = events[i]
            /\ \A i \in 1 .. Len(codes) :
                  (events \o codes)[Len(events) + i] = codes[i]
        BY <1>0, <2>4, Posting
      <3>2. (events \o codes)[Len(events) + 1] = codes[1]
        BY <2>4, <3>1
      <3> QED
        BY <2>1, <2>4, <3>1, <3>2
    <2>7. LastProvIs(events, sta.ap) => LastProvIs(events', sta.ap)
      BY <2>3, <2>6 DEF LastProvIs
    <2>8. ~HasProv(events') => ~HasProv(events)
      BY <2>3, <2>6 DEF HasProv
    <2>9. WiFiTypeOK' /\ StartsOnce'
      BY <1>0, <2>1, <2>2, <2>5 DEF WiFiInv, WiFiTypeOK, StartsOnce
    <2>10. NamesAP'
      BY <1>0, <2>1, <2>2, <2>7, <2>8 DEF WiFiInv, NamesAP, At_AP, Named
    <2>11. TellsAddress'
      BY <2>3, <2>6 DEF TellsAddress
    <2> QED
      BY <2>9, <2>10, <2>11 DEF WiFiInv
  <1>8. ASSUME NEW state \in {"PSK_ERROR", "NO_AP_FOUND", "DISCONNECT"},
               FailsOrDrops(state)
        PROVE  WiFiInv'
    <2>1. /\ sta' = [state |-> state, ap |-> None] /\ started = 1
          /\ request' = request /\ stored' = stored
          /\ events' = events \o <<Event("DISCONNECT")>>
      BY <1>4, <1>8 DEF FailsOrDrops, Post
    <2>2. /\ Event("DISCONNECT") \in EventSet
          /\ Event("DISCONNECT").code = "DISCONNECT"
      BY EventIsEvent DEF Codes
    <2> DEFINE codes == <<Event("DISCONNECT")>>
    <2>4. /\ codes \in Seq(EventSet) /\ events' = events \o codes
          /\ \A i \in 1 .. Len(codes) : codes[i].code # "INIT_DONE"
      BY <2>1, <2>2
    <2> HIDE DEF codes
    <2>3. /\ events' \in Seq(EventSet)
          /\ \A i \in 1 .. Len(events') : events'[i].code # "INIT_DONE"
      BY <1>5, <2>1, <2>4
    <2> QED
      BY <1>0, <2>1, <2>3 DEF WiFiInv, WiFiTypeOK, StartsOnce, NamesAP,
         TellsAddress, At_AP, States
  <1> QED
    BY <1>1, <1>2, <1>3, <1>6, <1>7, <1>8

(* The calls of the other parts. *)
LEMMA WiFiUndisturbed ==
  ASSUME WiFiInv, UNCHANGED wifiVars, Outside(WiFiLabels)
  PROVE  WiFiInv'
  BY DEF WiFiInv, WiFiTypeOK, StartsOnce, NamesAP, Named, TellsAddress, At_AP,
         wifiVars, flags, sdk, Outside, WiFiLabels

(* The property, when the queue is empty. *)
LEMMA WiFiPromise == WiFiInv => SSIDNamesTheNetwork
  <1> SUFFICES ASSUME WiFiInv PROVE SSIDNamesTheNetwork
    OBVIOUS
  <1>1. started <= 1
    BY DEF WiFiInv, WiFiTypeOK
  <1>2. ASSUME InLoop, events = << >>, request = None, sta.state = "IP_GOT"
        PROVE  (s_connected_ssid = sta.ap \/ overtaken) /\ WiFi_status = "CONNECTED"
    <2>1. pc.at = "loop" /\ ~HasProv(events)
      BY <1>2 DEF InLoop, HasProv
    <2> QED
      BY <1>2, <2>1 DEF WiFiInv, NamesAP, At_AP, Named, TellsAddress
  <1> QED
    BY <1>1, <1>2 DEF SSIDNamesTheNetwork

-----------------------------------------------------------------------------
(* The whole. *)
BoardInv == PinsInv /\ SpiInv /\ TxInv /\ RxInv

IInv == BoardInv /\ TimerInv /\ InterruptInv /\ BleInv /\ WiFiInv

(* The calls of the other parts. *)
LEMMA BoardUndisturbed ==
  ASSUME BoardInv, UNCHANGED boardVars
  PROVE  BoardInv'
  <1>1. PinsInv'
    BY MuxingKeepsPins DEF BoardInv, boardVars, onPins, pinVars, PinsInv, PinsTypeOK
  <1>2. SpiInv'
    BY DEF BoardInv, boardVars, onPins, spiVars, settings, history, SpiInv, SpiTypeOK,
       Strays, ControllerFollowsSettings, OneSlaveListens, DuringTransfer, Selected,
       Enabled
  <1>3. TxInv' /\ RxInv'
    BY DEF BoardInv, boardVars, wireVars, TxInv, RxInv
  <1> QED
    BY <1>1, <1>2, <1>3 DEF BoardInv

(* A call on the board. *)
LEMMA BoardStepKeepsBoard ==
  ASSUME BoardInv, BoardStep
  PROVE  BoardInv'
  <1>1. ASSUME UNCHANGED spiVars PROVE SpiInv'
    BY <1>1 DEF BoardInv, spiVars, settings, history, SpiInv, SpiTypeOK, Strays,
       ControllerFollowsSettings, OneSlaveListens, DuringTransfer, Selected, Enabled
  <1>2. ASSUME UNCHANGED wireVars PROVE TxInv' /\ RxInv'
    BY <1>2 DEF BoardInv, wireVars, TxInv, RxInv
  <1>3. ASSUME NEW p \in Pins \ Selects, PinStep(p), UNCHANGED <<spiVars, wireVars>>
        PROVE  BoardInv'
    BY <1>1, <1>2, <1>3, PinStepKeepsPins DEF BoardInv
  <1>4. ASSUME NEW f \in Freqs, AnalogWriteFrequency(f),
               UNCHANGED <<spiVars, wireVars>>
        PROVE  BoardInv'
    BY <1>1, <1>2, <1>4, FrequencyKeepsPins DEF BoardInv
  <1>5. CASE SpiStep /\ UNCHANGED wireVars
    <2>1. SpiInv'
      BY <1>5, SpiStepKeepsTypes, SpiStepKeepsController, SpiStepKeepsSelects
         DEF BoardInv, SpiInv
    <2>2. PinsInv'
      BY <1>5, SpiStepKeepsPins DEF BoardInv, SpiInv
    <2> QED
      BY <1>2, <1>5, <2>1, <2>2 DEF BoardInv
  <1>6. CASE WireBegin /\ UNCHANGED wireVars
    <2>1. /\ fun' \in [Pins -> Functions]
          /\ \A p \in Pins \ Selects :
                fun'[p] = fun[p] \/ fun'[p] \notin {"in", "out"}
      BY <1>6 DEF WireBegin, BoardInv, PinsInv, PinsTypeOK, Functions
    <2>2. PinsInv'
      BY <1>6, <2>1, MuxingKeepsPins DEF WireBegin, BoardInv
    <2>3. UNCHANGED spiVars
      BY <1>6 DEF WireBegin
    <2> QED
      BY <1>1, <1>2, <1>6, <2>2, <2>3 DEF BoardInv
  <1>7. CASE WireStep /\ UNCHANGED onPins
    <2>1. TxInv' /\ RxInv'
      BY <1>7, WireStepKeepsQueue, WireStepKeepsBuffer DEF BoardInv
    <2>2. UNCHANGED spiVars /\ UNCHANGED pinVars
      BY <1>7 DEF onPins
    <2>3. PinsInv'
      BY <2>2, MuxingKeepsPins DEF BoardInv, pinVars, PinsInv, PinsTypeOK
    <2> QED
      BY <1>1, <2>1, <2>2, <2>3 DEF BoardInv
  <1> QED
    BY <1>3, <1>4, <1>5, <1>6, <1>7 DEF BoardStep, OnPins

(* Each part moves the sketch only between its own steps and the loop. *)
Within(labels) ==
    pc' = pc \/ (pc.at \in labels \cup {"loop"} /\ pc'.at \in labels \cup {"loop"})

(* The timer. *)
LEMMA TimerWithin == TimerStep => Within(TimerLabels)
  BY DEF TimerStep, timer_begin, timer_set_period, TimerReplace, TimerTeardown,
     TimerSetUp, TimerGo, TimerStarted, timer_start, timer_stop, TimerStopped,
     CallbackStops, CallbackStarts, CallbackReplaces, InLoop, At, Goto, Return,
     Within, TimerLabels

(* The pin interrupt. *)
LEMMA InterruptWithin == InterruptStep => Within(InterruptLabels)
  BY DEF InterruptStep, IsrEnters, IsrArms, IsrCalls, PinChanges, attachInterrupt,
     AttachMode, AttachArm, detachInterrupt, DetachMask, InLoop, At, Goto, Return,
     Within, InterruptLabels

(* BLE. *)
LEMMA BleWithin == BleStep => Within(BleLabels)
  BY DEF BleStep, Ready, ReadyFails, Connected, Disconnected, BleBegin, BleEnd,
     EndAdv, EndConn, EndClass, InLoop, At, Goto, Return, Within, BleLabels

(* WiFi. *)
LEMMA WiFiWithin == WiFiStep => Within(WiFiLabels)
  BY DEF WiFiStep, BeginStarts, BeginConnects, BeginNames, WiFiDisconnect, Status,
     WiFiEvent, TakesRequest, LosesRequest, Autoconnects, Associates, GetsAddress,
     FailsOrDrops, Manager, InLoop, At, Goto, Return, Within, WiFiLabels

(* The steps of the parts are told apart by their names. *)
LEMMA Apart ==
  /\ Within(TimerLabels) => /\ Outside(InterruptLabels) /\ Outside(BleLabels)
                            /\ Outside(WiFiLabels)
  /\ Within(InterruptLabels) => /\ Outside(TimerLabels) /\ Outside(BleLabels)
                                /\ Outside(WiFiLabels)
  /\ Within(BleLabels) => /\ Outside(TimerLabels) /\ Outside(InterruptLabels)
                          /\ Outside(WiFiLabels)
  /\ Within(WiFiLabels) => /\ Outside(TimerLabels) /\ Outside(InterruptLabels)
                           /\ Outside(BleLabels)
  BY DEF Within, Outside, TimerLabels, InterruptLabels, BleLabels, WiFiLabels

(* Power-on. *)
LEMMA IInvStart == Init => IInv
  BY PinsStart, SpiStart, WireStart, TimerStart, InterruptStart, BleStart, WiFiStart
     DEF Init, IInv, BoardInv

(* Every step keeps the invariant of its part, and leaves the others.      *)
LEMMA IInvStep ==
  ASSUME IInv, [Next]_vars
  PROVE  IInv'
  <1>0. CASE UNCHANGED vars
    <2>1. pc' = pc /\ UNCHANGED boardVars /\ UNCHANGED timerVars
          /\ UNCHANGED interruptVars /\ UNCHANGED bleVars /\ UNCHANGED wifiVars
      BY <1>0 DEF vars
    <2> QED
      BY <2>1, BoardUndisturbed, TimerUndisturbed, InterruptUndisturbed,
         BleUndisturbed, WiFiUndisturbed DEF IInv, Outside
  <1>1. CASE OfBoard(BoardStep)
    <2>1. /\ BoardStep /\ pc' = pc /\ UNCHANGED timerVars
          /\ UNCHANGED interruptVars /\ UNCHANGED bleVars /\ UNCHANGED wifiVars
      BY <1>1 DEF OfBoard
    <2> QED
      BY <2>1, BoardStepKeepsBoard, TimerUndisturbed, InterruptUndisturbed,
         BleUndisturbed, WiFiUndisturbed DEF IInv, Outside
  <1>2. CASE OfTimer(TimerStep)
    <2>1. /\ TimerStep /\ UNCHANGED boardVars
          /\ UNCHANGED interruptVars /\ UNCHANGED bleVars /\ UNCHANGED wifiVars
      BY <1>2 DEF OfTimer
    <2>2. TimerInv'
      BY <2>1, TimerCallsKeepTimer, CallbackKeepsTimer DEF IInv, TimerStep
    <2> QED
      BY <2>1, <2>2, TimerWithin, Apart, BoardUndisturbed, InterruptUndisturbed,
         BleUndisturbed, WiFiUndisturbed DEF IInv
  <1>3. CASE OfInterrupt(InterruptStep)
    <2>1. /\ InterruptStep /\ UNCHANGED boardVars
          /\ UNCHANGED timerVars /\ UNCHANGED bleVars /\ UNCHANGED wifiVars
      BY <1>3 DEF OfInterrupt
    <2>2. InterruptInv'
      BY <2>1, HandlerKeepsInterrupt, CallsKeepInterrupt DEF IInv, InterruptStep
    <2> QED
      BY <2>1, <2>2, InterruptWithin, Apart, BoardUndisturbed, TimerUndisturbed,
         BleUndisturbed, WiFiUndisturbed DEF IInv
  <1>4. CASE OfBle(BleStep)
    <2>1. /\ BleStep /\ UNCHANGED boardVars
          /\ UNCHANGED timerVars /\ UNCHANGED interruptVars /\ UNCHANGED wifiVars
      BY <1>4 DEF OfBle
    <2> QED
      BY <2>1, BleWithin, Apart, BleStepKeepsBle, BoardUndisturbed,
         TimerUndisturbed, InterruptUndisturbed, WiFiUndisturbed DEF IInv
  <1>5. CASE OfWiFi(WiFiStep)
    <2>1. /\ WiFiStep /\ UNCHANGED boardVars
          /\ UNCHANGED timerVars /\ UNCHANGED interruptVars /\ UNCHANGED bleVars
      BY <1>5 DEF OfWiFi
    <2>2. WiFiInv'
      BY <2>1, WiFiCallsKeepWiFi, EventKeepsWiFi, ManagerKeepsWiFi DEF IInv, WiFiStep
    <2> QED
      BY <2>1, <2>2, WiFiWithin, Apart, BoardUndisturbed, TimerUndisturbed,
         InterruptUndisturbed, BleUndisturbed DEF IInv
  <1> QED
    BY <1>0, <1>1, <1>2, <1>3, <1>4, <1>5 DEF Next

(* The state of every part is the one its code takes it for. *)
THEOREM Inductive == Spec => []IInv
  BY IInvStart, IInvStep, PTL DEF Spec

(* The caches and flags keep their types; the multiplexer gives every pin  *)
(* one function.                                                           *)
TypesCorrect == PinsTypeOK /\ SpiTypeOK /\ TimerTypeOK /\ BleTypeOK /\ WiFiTypeOK
THEOREM TypeCorrect == Spec => []TypesCorrect
  <1>1. IInv => TypesCorrect
    BY DEF IInv, BoardInv, PinsInv, SpiInv, TimerInv, BleInv, WiFiInv, TypesCorrect
  <1> QED
    BY <1>1, Inductive, PTL

(* analogWrite() and analogWriteFrequency(): whoever owns a channel has    *)
(* its frequency and its duty, whichever pins took it from each other.     *)
THEOREM ChannelCorrect == Spec => []ChannelFollowsOwner
  <1>1. IInv => ChannelFollowsOwner
    BY DEF IInv, BoardInv, PinsInv
  <1> QED
    BY <1>1, Inductive, PTL

(* digitalWrite() and digitalRead(): the cache of directions, whatever     *)
(* PWM, the ADC, SPI and I2C took and gave back.                           *)
THEOREM DirectionCorrect == Spec => []CacheTellsDirection
  <1>1. IInv => CacheTellsDirection
    BY DEF IInv, BoardInv, PinsInv
  <1> QED
    BY <1>1, Inductive, PTL

(* SPI: the controller works with the settings made last. *)
THEOREM ControllerCorrect == Spec => []ControllerFollowsSettings
  <1>1. IInv => ControllerFollowsSettings
    BY DEF IInv, BoardInv, SpiInv
  <1> QED
    BY <1>1, Inductive, PTL

(* SPI: the bytes go to the slave of begin() and to no other. *)
THEOREM SelectCorrect == Spec => []OneSlaveListens
  <1>1. IInv => OneSlaveListens
    BY DEF IInv, BoardInv, SpiInv
  <1> QED
    BY <1>1, Inductive, PTL

(* Wire: no byte is dropped without endTransmission() telling. *)
THEOREM QueueCorrect == Spec => []QueueIsHonest
  <1>1. IInv => QueueIsHonest
    BY WirePromises DEF IInv, BoardInv
  <1> QED
    BY <1>1, Inductive, PTL

(* Wire: what can be read is of the last reply. *)
THEOREM ReplyCorrect == Spec => []ReplyIsFresh
  <1>1. IInv => ReplyIsFresh
    BY WirePromises DEF IInv, BoardInv
  <1> QED
    BY <1>1, Inductive, PTL

(* The hardware timer's flags, whatever failed and whatever the callback   *)
(* did in the middle of a call.                                            *)
THEOREM TimerCorrect == Spec => []FlagsTellTheTimer
  <1>1. IInv => FlagsTellTheTimer
    BY TimerPromise DEF IInv
  <1> QED
    BY <1>1, Inductive, PTL

(* CHANGE: the pin's changes are seen, and the next edge is waited for. *)
THEOREM ChangesCorrect == Spec => []ChangesAreSeen
  <1>1. IInv => ChangesAreSeen
    BY InterruptPromise DEF IInv
  <1> QED
    BY <1>1, Inductive, PTL

(* BLE: on the air while open, and off it after end(). *)
THEOREM AdvertisingCorrect == Spec => []FindableWhileOpen
  <1>1. IInv => FindableWhileOpen
    BY BlePromises DEF IInv
  <1> QED
    BY <1>1, Inductive, PTL

(* BLE: connected() and send() know the central. *)
THEOREM ConnectionCorrect == Spec => []ConnectedIsTheLink
  <1>1. IInv => ConnectedIsTheLink
    BY BlePromises DEF IInv
  <1> QED
    BY <1>1, Inductive, PTL

(* WiFi: once everything is handled, SSID() and status() tell the network, *)
(* with any number of events and of access points.                         *)
THEOREM StationCorrect == Spec => []SSIDNamesTheNetwork
  <1>1. IInv => SSIDNamesTheNetwork
    BY WiFiPromise DEF IInv
  <1> QED
    BY <1>1, Inductive, PTL
=============================================================================
