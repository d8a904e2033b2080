-------------------------------- MODULE Board --------------------------------
(***************************************************************************)
(* The peripherals a sketch drives by itself, from one task: the pins with *)
(* PWM and ADC, SPI on the same multiplexer, and I2C.  Nothing comes       *)
(* between the steps of their calls that touches them: a call is a step.   *)
(***************************************************************************)
EXTENDS SPI, Wire

CONSTANT I2cBus  \* SDA and SCL; by default two of the pins of SPI

ASSUME I2cAssumption == I2cBus \subseteq Pins

onPins == <<pinVars, spiVars>>
boardVars == <<onPins, wireVars>>

(* Wire.begin(), and setClock() once it was called: hosal_i2c_init() takes *)
(* the pins.  The queue and the buffer are left as they are.               *)
WireBegin ==
    /\ fun' = [p \in Pins |-> IF p \in I2cBus THEN "i2c" ELSE fun[p]]
    /\ UNCHANGED <<pin_modes, pwmVars, adcVars, spiVars>>

OnPins ==
    \/ \E p \in Pins \ Selects : PinStep(p) /\ UNCHANGED spiVars
    \/ \E f \in Freqs : AnalogWriteFrequency(f) /\ UNCHANGED spiVars
    \/ SpiStep
    \/ WireBegin

BoardStep ==
    \/ OnPins /\ UNCHANGED wireVars
    \/ WireStep /\ UNCHANGED onPins

(* As long as a pin is digital at all, the cache of wiring_digital.c tells *)
(* its direction, so that digitalWrite() reaches the pin and digitalRead() *)
(* reads it: whatever PWM, ADC, SPI and I2C took and gave back in between. *)
(* (A chip select is made an output behind the cache; a pin never used is  *)
(* taken for an input; and a pin that PWM or the ADC has is not given back *)
(* by digitalWrite() when the cache says that it is an output already.)    *)
CacheTellsDirection ==
    \A p \in Pins \ Selects :
        fun[p] \in {"in", "out"} => fun[p] = pin_modes[p]
=============================================================================
