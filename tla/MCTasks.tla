------------------------------- MODULE MCTasks -------------------------------
(* Frames of two data bits, among them one whose last sample is low, after *)
(* which the receiver takes the rest of the frame for another start bit,   *)
(* in a ring of two slots, one of which stays free.                        *)
EXTENDS Tasks, TLC

MCSent == {<<1, 0>>}
==============================================================================
