-------------------------------- MODULE Pins --------------------------------
(***************************************************************************)
(* The functions a pin can have: digital I/O (wiring_digital.c), PWM and   *)
(* the ADC (wiring_analog.c).  Each keeps a cache of what it has set up,   *)
(* over the one pin multiplexer of the chip that all of them write.        *)
(***************************************************************************)
EXTENDS Integers, FiniteSets

CONSTANTS
    Pins,       \* GPIO numbers; the board's pin numbers are the same
    Free,       \* 0xFF
    Channels,   \* PWM channels: GPIO numbers modulo this
    AdcPins,    \* pins with an ADC channel
    Values,     \* bound: the positive values analogWrite() is called with
    Freqs       \* bound: frequencies, after the clamping of the code

ASSUME PinsAssumption ==
    /\ Pins \subseteq Nat /\ Free \notin Pins /\ AdcPins \subseteq Pins
    /\ Channels \in Nat \ {0}
    /\ Values \subseteq Nat \ {0}
    /\ Freqs \subseteq Nat \ {0} /\ Freqs # {}

VARIABLES
    fun,          \* the multiplexer: the function of each pin
    pin_modes,    \* wiring_digital.c's cache, pull-ups taken for inputs
    pwm_freq, pwm_channel_pin, pwm_channel_val,
    pwm,          \* the PWM controller's channels
    full,         \* history: channels whose last value was above 255
    adc_inited, adc_chan_added

pwmVars == <<pwm_freq, pwm_channel_pin, pwm_channel_val, pwm, full>>
adcVars == <<adc_inited, adc_chan_added>>
pinVars == <<fun, pin_modes, pwmVars, adcVars>>

Ch(p) == p % Channels
Chans == 0 .. Channels - 1

Stopped == [on |-> FALSE, freq |-> 0, duty |-> 0]

(* The duty of a value, in 255ths; the cache keeps the low byte of it. *)
DutyOf(v) == IF v >= 255 THEN 255 ELSE v
LowByte(v) == v % 256

PinsInit ==
    /\ fun = [p \in Pins |-> "reset"]
    /\ pin_modes = [p \in Pins |-> "in"]
    /\ pwm_freq = CHOOSE f \in Freqs : TRUE
    /\ pwm_channel_pin = [c \in Chans |-> Free]
    /\ pwm_channel_val = [c \in Chans |-> 0]
    /\ pwm = [c \in Chans |-> Stopped]
    /\ full = {}
    /\ adc_inited = FALSE
    /\ adc_chan_added = {}

-----------------------------------------------------------------------------
(* pinMode(). *)
PinMode(p, mode) ==
    /\ fun' = [fun EXCEPT ![p] = mode]
    /\ pin_modes' = [pin_modes EXCEPT ![p] = mode]
    /\ UNCHANGED <<pwmVars, adcVars>>

(* digitalWrite() and digitalRead(): configure the pin when the cache says *)
(* that it is not an output, or an input.                                  *)
Digital_ForgetsMode(p, mode) ==
    /\ fun' = IF pin_modes[p] # mode THEN [fun EXCEPT ![p] = mode] ELSE fun
    /\ UNCHANGED <<pin_modes, pwmVars, adcVars>>

Digital(p, mode) ==
    IF pin_modes[p] # mode THEN PinMode(p, mode) ELSE UNCHANGED pinVars

-----------------------------------------------------------------------------
(* bl_pwm_init() muxes the pin and sets the channel's frequency;           *)
(* bl_pwm_set_duty() and bl_pwm_start() follow in both callers.            *)
Running(freq, duty) == [on |-> TRUE, freq |-> freq, duty |-> duty]

(* analogWrite() of 0 or less: the channel is stopped by its owner only. *)
AnalogWriteOff(p) ==
    LET c == Ch(p) IN
    /\ IF pwm_channel_pin[c] = p
       THEN /\ pwm' = [pwm EXCEPT ![c] = Stopped]
            /\ pwm_channel_pin' = [pwm_channel_pin EXCEPT ![c] = Free]
            /\ pwm_channel_val' = [pwm_channel_val EXCEPT ![c] = 0]
            /\ full' = full \ {c}
       ELSE UNCHANGED <<pwm, pwm_channel_pin, pwm_channel_val, full>>
    /\ UNCHANGED <<fun, pin_modes, pwm_freq, adcVars>>

(* analogWrite() of a positive value: takes the channel, from its owner if *)
(* it has another one; an owner's pin is not set up again.                 *)
AnalogWriteOn(p, v) ==
    LET c == Ch(p)
        mine == pwm_channel_pin[c] = p
    IN  /\ fun' = IF mine THEN fun ELSE [fun EXCEPT ![p] = "pwm"]
        /\ pwm' = [pwm EXCEPT ![c] =
                     Running(IF mine THEN @.freq ELSE pwm_freq, DutyOf(v))]
        /\ pwm_channel_pin' = [pwm_channel_pin EXCEPT ![c] = p]
        /\ pwm_channel_val' = [pwm_channel_val EXCEPT ![c] = LowByte(v)]
        /\ full' = IF v > 255 THEN full \cup {c} ELSE full \ {c}
        /\ UNCHANGED <<pin_modes, pwm_freq, adcVars>>

(* analogWriteFrequency(): every owned channel is set up again. *)
AnalogWriteFrequency_NextOnly(f) ==
    /\ pwm_freq' = f
    /\ UNCHANGED <<fun, pin_modes, pwm, pwm_channel_pin, pwm_channel_val, full, adcVars>>

AnalogWriteFrequency(f) ==
    LET owned == {c \in Chans : pwm_channel_pin[c] # Free} IN
    /\ pwm_freq' = f
    /\ fun' = [p \in Pins |-> IF pwm_channel_pin[Ch(p)] = p THEN "pwm" ELSE fun[p]]
    /\ pwm' = [c \in Chans |-> IF c \in owned
                               THEN Running(f, DutyOf(pwm_channel_val[c]))
                               ELSE pwm[c]]
    /\ UNCHANGED <<pin_modes, pwm_channel_pin, pwm_channel_val, full, adcVars>>

-----------------------------------------------------------------------------
(* adc_read_mv(): initialises the ADC, which muxes the pin, and adds the   *)
(* pin's channel; either may fail and is tried again by the next call.     *)
AdcInitFails(p) ==
    /\ p \in AdcPins /\ ~adc_inited
    /\ UNCHANGED pinVars

AdcAdd(p, ok) ==
    /\ p \in AdcPins /\ p \notin adc_chan_added
    /\ fun' = [fun EXCEPT ![p] = "analog"]
    /\ adc_inited' = TRUE
    /\ adc_chan_added' = IF ok THEN adc_chan_added \cup {p} ELSE adc_chan_added
    /\ UNCHANGED <<pin_modes, pwmVars>>

PinStep(p) ==
    \/ \E mode \in {"in", "out"} : PinMode(p, mode) \/ Digital(p, mode)
    \/ AnalogWriteOff(p)
    \/ \E v \in Values : AnalogWriteOn(p, v)
    \/ AdcInitFails(p)
    \/ \E ok \in BOOLEAN : AdcAdd(p, ok)

-----------------------------------------------------------------------------
(* A channel that a pin owns runs at the frequency set last, with the duty *)
(* of the value written last, whichever pins stole it from each other and  *)
(* however often the frequency changed; a channel nobody owns is off.      *)
(* (Not so after a value above 255: the cache holds its low byte, which    *)
(* analogWriteFrequency() then applies.)                                   *)
ChannelFollowsOwner ==
    \A c \in Chans :
        IF pwm_channel_pin[c] = Free
        THEN ~pwm[c].on
        ELSE /\ Ch(pwm_channel_pin[c]) = c
             /\ pwm[c].on
             /\ pwm[c].freq = pwm_freq
             /\ c \notin full => pwm[c].duty = pwm_channel_val[c]
=============================================================================
