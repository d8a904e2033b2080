-------------------------------- MODULE Tasks --------------------------------
(***************************************************************************)
(* A sketch that uses SoftwareSerial and tone() at once: its calls are     *)
(* preempted by the receiver, and both by the player.                      *)
(***************************************************************************)
EXTENDS SoftwareSerial, Tone

vars == <<rx, player, pc, port, sound>>

Init ==
    /\ pc = [at |-> "loop"]
    /\ PortInit
    /\ ToneInit

PortOnly(A) == A /\ UNCHANGED <<player, sound>>
ToneOnly(A) == A /\ UNCHANGED <<rx, port>>

(* What the scheduler lets each task do, and what its calls go on doing. *)
Receive == PortOnly(RxStep /\ UNCHANGED pc)
Play == ToneOnly(PlayerStep)
Continue == PortOnly(PortContinues) \/ ToneOnly(ToneContinues)
Call == PortOnly(PortCalled) \/ ToneOnly(ToneCalled)
Line == PortOnly((Tick \/ StartFrame) /\ UNCHANGED pc)

Next == Receive \/ Play \/ Continue \/ Call \/ Line

(* The player goes on, and the line's time passes.  While the player       *)
(* sleeps the receiver has the CPU for a tick, far more than one of its    *)
(* steps takes: hence strong fairness.  Nothing is assumed of what the     *)
(* line brings, of what the sketch calls or that it goes on.               *)
Fairness ==
    /\ WF_vars(Play)
    /\ WF_vars(PortOnly(Tick /\ UNCHANGED pc))
    /\ SF_vars(Receive)

Spec == Init /\ [][Next]_vars /\ Fairness

-----------------------------------------------------------------------------
(* When the line falls silent and no tone plays for ever, the sketch gets  *)
(* the CPU again and again, although the receiver polls at a higher        *)
(* priority and the player holds the CPU: counted tones end, and the       *)
(* receiver rests.  Without the premises it need not: bytes that follow    *)
(* each other within 200 ms keep the receiver polling, and taskYIELD()     *)
(* does not let the sketch run; nor can the sketch stop a tone.            *)
SketchKeepsRunning ==
    (<>[](line = Quiet) /\ <>[]~PlaysForEver) => []<>SketchRuns
=============================================================================
