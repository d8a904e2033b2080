---------------------------- MODULE MCPeripherals ----------------------------
(* Pins 3 and 13 share the PWM channel 3 of five; 3 is also a pin of SPI   *)
(* and of I2C and has an ADC channel, 4 is the default chip select, 14 a   *)
(* second one.                                                             *)
EXTENDS Peripherals

(* The parts share nothing but the sketch, whose calls do not overlap:     *)
(* their states need not be combined with each other's.                    *)
PinsAtRest == PinsInit /\ SpiInit
BoardAtRest == PinsAtRest /\ WireInit
StacksAtRest == BleInit /\ WiFiInit
HandlersAtRest == TimerInit /\ InterruptInit

MCNext ==
    \/ /\ HandlersAtRest /\ StacksAtRest
       /\ \/ WireInit /\ OfBoard(OnPins /\ UNCHANGED wireVars)
          \/ PinsAtRest /\ OfBoard(WireStep /\ UNCHANGED onPins)
    \/ /\ BoardAtRest /\ StacksAtRest
       /\ \/ InterruptInit /\ OfTimer(TimerStep)
          \/ TimerInit /\ OfInterrupt(InterruptStep)
    \/ /\ BoardAtRest /\ HandlersAtRest
       /\ \/ WiFiInit /\ OfBle(BleStep)
          \/ BleInit /\ OfWiFi(WiFiStep)

MCSpec == Init /\ [][MCNext]_vars
==============================================================================
