----------------------------- MODULE ByteStream -----------------------------
(***************************************************************************)
(* What a receive path promises a sketch, without its buffers: bytes come  *)
(* off the line numbered 1, 2, 3, ... per port; a byte may be dropped      *)
(* while it waits, but what read() returns is always the oldest byte still *)
(* waiting.  So a sketch sees the line's bytes in order, each at most      *)
(* once, with holes where the receiver was too slow.                       *)
(***************************************************************************)
EXTENDS Naturals, Sequences

CONSTANT Ports

VARIABLES
    arrived,    \* [Ports -> Nat]: bytes the line has brought so far
    waiting,    \* [Ports -> Seq(Nat)]: received and neither read nor dropped
    delivered   \* [Ports -> Seq(Nat)]: what read() has returned

vars == <<arrived, waiting, delivered>>

Elements(s) == {s[i] : i \in DOMAIN s}

(* A subsequence, for sequences whose elements are distinct and increasing. *)
Increasing(s) == \A i, j \in DOMAIN s : i < j => s[i] < s[j]

Init ==
    /\ arrived = [p \in Ports |-> 0]
    /\ waiting = [p \in Ports |-> << >>]
    /\ delivered = [p \in Ports |-> << >>]

(* The line brings the next byte; it waits, or is lost at once. *)
Receive(p) ==
    /\ arrived' = [arrived EXCEPT ![p] = @ + 1]
    /\ \/ waiting' = [waiting EXCEPT ![p] = Append(@, arrived[p] + 1)]
       \/ UNCHANGED waiting
    /\ UNCHANGED delivered

(* Some waiting bytes are dropped, on any of the ports. *)
Drop ==
    /\ \A p \in Ports : /\ Increasing(waiting'[p])
                        /\ Elements(waiting'[p]) \subseteq Elements(waiting[p])
    /\ UNCHANGED <<arrived, delivered>>

(* read() returns the oldest waiting byte. *)
Deliver(p) ==
    /\ waiting[p] # << >>
    /\ delivered' = [delivered EXCEPT ![p] = Append(@, Head(waiting[p]))]
    /\ waiting' = [waiting EXCEPT ![p] = Tail(@)]
    /\ UNCHANGED arrived

Next == Drop \/ \E p \in Ports : Receive(p) \/ Deliver(p)

Spec == Init /\ [][Next]_vars
=============================================================================
