---------------------------- MODULE PinInterrupt ----------------------------
(***************************************************************************)
(* cores/arduino/wiring_interrupt.c: the interrupt of one pin (the pins    *)
(* share the vector; their entries share nothing).  CHANGE is emulated:    *)
(* the handler reads the level and arms the opposite edge, and the pin may *)
(* change between the two.  External: the driver clears the latched edge   *)
(* before it calls the handler, and attaching unmasks the pin.             *)
(***************************************************************************)
EXTENDS Sketch, Integers

VARIABLES
    attached, mode, \* irq_entries[pin], fn # NULL
    armed,          \* the hardware: what the pin waits for, if anything
    level,
    latched,        \* the edge it waited for came
    isr,            \* the handler
    seen,           \* the level when the sketch's function last ran
    late            \* history: the pin changed before the handler had armed
                    \* it, or was high when CHANGE was attached

entry == <<attached, mode>>
pad == <<level, latched>>
interruptVars == <<entry, armed, pad, isr, seen, late>>

InterruptModes == {"RISING", "FALLING", "LOW", "HIGH", "CHANGE"}
EdgeFrom(l) == IF l = 0 THEN "RISING" ELSE "FALLING"
Masked == "masked"
IsrIdle == isr.at = "idle"

InterruptInit ==
    /\ attached = FALSE /\ mode = "LOW"
    /\ armed = Masked
    /\ level \in {0, 1} /\ latched = FALSE
    /\ isr = [at |-> "idle"]
    /\ seen = level /\ late = FALSE

(* External: the pin changes; an edge that is not waited for is lost. *)
PinChanges ==
    /\ level' = 1 - level
    /\ latched' = (latched \/ armed = EdgeFrom(level))
    /\ UNCHANGED <<pc, entry, armed, isr, seen, late>>

-----------------------------------------------------------------------------
(* arduino_isr_dispatch(), which interrupts the sketch wherever it is. *)
Fires ==
    /\ armed # Masked
    /\ latched \/ armed = (IF level = 0 THEN "LOW" ELSE "HIGH")

IsrEnters ==
    /\ IsrIdle /\ Fires
    /\ latched' = FALSE
    /\ isr' = IF mode = "CHANGE" THEN [at |-> "arm", read |-> level]
                                 ELSE [at |-> "call"]
    /\ UNCHANGED <<pc, entry, armed, level, seen, late>>

IsrArms_SameEdge ==
    /\ isr.at = "arm"
    /\ late' = (isr.read # level)
    /\ isr' = [at |-> "call"]
    /\ UNCHANGED <<pc, entry, armed, pad, seen>>

IsrArms ==
    /\ isr.at = "arm"
    /\ armed' = EdgeFrom(isr.read)
    /\ late' = (isr.read # level)
    /\ isr' = [at |-> "call"]
    /\ UNCHANGED <<pc, entry, pad, seen>>

IsrCalls ==
    /\ isr.at = "call"
    /\ seen' = IF attached THEN level ELSE seen
    /\ isr' = [at |-> "idle"]
    /\ UNCHANGED <<pc, entry, armed, pad, late>>

-----------------------------------------------------------------------------
(* attachInterrupt(): the function, the mode, then the hardware. *)
attachInterrupt(m) ==
    /\ InLoop
    /\ attached' = TRUE
    /\ pc' = [at |-> "attach.mode", mode |-> m]
    /\ UNCHANGED <<mode, armed, pad, isr, seen, late>>

AttachMode ==
    /\ At("attach.mode")
    /\ mode' = pc.mode
    /\ Goto("attach.arm")
    /\ UNCHANGED <<attached, armed, pad, isr, seen, late>>

AttachArm ==
    /\ At("attach.arm")
    /\ armed' = IF mode = "CHANGE" THEN "RISING" ELSE mode
    /\ seen' = level
    /\ late' = (mode = "CHANGE" /\ level = 1)
    /\ Return
    /\ UNCHANGED <<entry, pad, isr>>

(* detachInterrupt(): the function, then the hardware. *)
detachInterrupt ==
    /\ InLoop
    /\ attached' = FALSE
    /\ Goto("detach.mask")
    /\ UNCHANGED <<mode, armed, pad, isr, seen, late>>

DetachMask ==
    /\ At("detach.mask")
    /\ armed' = Masked
    /\ latched' = FALSE
    /\ Return
    /\ UNCHANGED <<entry, level, isr, seen, late>>

InterruptStep ==
    \/ IsrEnters \/ IsrArms \/ IsrCalls \/ PinChanges
    \/ /\ IsrIdle
       /\ \/ \E m \in InterruptModes : attachInterrupt(m)
          \/ AttachMode \/ AttachArm \/ detachInterrupt \/ DetachMask

-----------------------------------------------------------------------------
(* With CHANGE attached, when the handler is done and no edge is waiting,  *)
(* the sketch's function has seen the level the pin has, and the pin waits *)
(* for the opposite edge: changes that come while an interrupt is pending, *)
(* while the handler runs, or between the stores of another attach are     *)
(* made up for.  (Not so when the pin changes between the reading and the  *)
(* arming, or is high when CHANGE is attached: the next edge is lost too.) *)
(* In every other mode the pin waits for what that mode says.              *)
ChangesAreSeen ==
    (InLoop /\ IsrIdle /\ armed # Masked /\ ~latched) =>
        IF mode = "CHANGE"
        THEN late \/ (armed = EdgeFrom(level) /\ seen = level)
        ELSE armed = mode
=============================================================================
