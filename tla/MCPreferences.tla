---------------------------- MODULE MCPreferences ----------------------------
(* The sizes TLC gives keys and values.  In 14 bytes of region two short   *)
(* values fit when nothing dead lies between them, and a long one fits     *)
(* alone; in 18 bytes a short and a long one do.  One key is the empty     *)
(* string.                                                                 *)
EXTENDS Preferences, TLC

CONSTANTS emptyKey, long

MCKeyLen == [k \in Keys |-> IF k = emptyKey THEN 0 ELSE 1]
MCDataLen == [v \in Values |-> IF v = long THEN 4 ELSE 1]

(* The two objects, the two namespaces and the two keys of equal length    *)
(* are interchangeable, and no property of the run is a liveness property. *)
MCSymmetry ==
    Permutations(Instances) \cup Permutations(Names) \cup Permutations(Keys \ {emptyKey})
=============================================================================
