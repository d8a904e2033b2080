------------------------------- MODULE MCText -------------------------------
(* Longs of 5 bits and long longs of 8, so that every long is printed;     *)
(* doubles around the carries of 0, 1 and 2 decimals, of both signs; texts *)
(* of "a", "b" and the end of a line, and targets that occur in them       *)
(* overlapping themselves, one that does not restart well among them.      *)
EXTENDS Text

MCNumbers == Signed(Longs)
MCThousandths == {5, 950, 994, 9996, -4, -1500, -9995}
A == 97
B == 98
MCSent == [1 .. 3 -> {A, B, LF}] \cup {<<A, A, A, B>>, <<A, B, A, LF>>}
MCTargets == {<< >>, <<A>>, <<A, B>>, <<A, A>>, <<A, B, A>>, <<A, A, B>>}
MCTerminators == {<<LF>>, <<LF, B>>}
MCLengths == {NoLength, 0, 2}

(* The Strings and the stream share nothing. *)
MCNext ==
    \/ OnStream /\ StringInit
    \/ OnString /\ StreamInit

MCSpec == Init /\ [][MCNext]_vars /\ Fairness
=============================================================================
