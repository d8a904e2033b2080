----------------------------- MODULE Peripherals -----------------------------
(***************************************************************************)
(* A sketch, the peripherals it drives, and what comes between the steps   *)
(* of its calls: the interrupts of the timer and of a pin, the callbacks   *)
(* of the BLE stack's task, and the events of the WiFi manager.            *)
(***************************************************************************)
EXTENDS Board, Timer, PinInterrupt, BLE, WiFi

vars == <<pc, boardVars, timerVars, interruptVars, bleVars, wifiVars>>

Init ==
    /\ pc = [at |-> "loop"]
    /\ PinsInit /\ SpiInit /\ WireInit
    /\ TimerInit /\ InterruptInit /\ BleInit /\ WiFiInit

(* A step of one part leaves the others alone, and while the handler of    *)
(* the pin interrupt runs, nothing else does.                              *)
OfBoard(A) ==
    /\ InLoop /\ A
    /\ UNCHANGED <<pc, timerVars, interruptVars, bleVars, wifiVars>>
OfTimer(A) == A /\ UNCHANGED <<boardVars, interruptVars, bleVars, wifiVars>>
OfInterrupt(A) == A /\ UNCHANGED <<boardVars, timerVars, bleVars, wifiVars>>
OfBle(A) == A /\ UNCHANGED <<boardVars, timerVars, interruptVars, wifiVars>>
OfWiFi(A) == A /\ UNCHANGED <<boardVars, timerVars, interruptVars, bleVars>>

Next ==
    \/ OfInterrupt(InterruptStep)
    \/ IsrIdle /\ OfBoard(BoardStep)
    \/ IsrIdle /\ OfTimer(TimerStep)
    \/ IsrIdle /\ OfBle(BleStep)
    \/ IsrIdle /\ OfWiFi(WiFiStep)

Spec == Init /\ [][Next]_vars
=============================================================================
