------------------------------- MODULE Sketch -------------------------------
(***************************************************************************)
(* The sketch, one task that calls the library: in loop(), or between two  *)
(* steps of a call that interrupts and other tasks may come between.       *)
(***************************************************************************)
VARIABLE pc

InLoop == pc = [at |-> "loop"]
At(step) == pc.at = step
Goto(step) == pc' = [at |-> step]
Return == pc' = [at |-> "loop"]
=============================================================================
