---------------------------- MODULE KeyValueStore ----------------------------
(***************************************************************************)
(* What Preferences promises, without its table: a working map that put(), *)
(* remove() and clear() change and a durable map that only a commit        *)
(* replaces.  A commit forgets the durable map before it stores the new    *)
(* one, so one that is interrupted may leave nothing, or a part of the     *)
(* working map: the store is not crash-atomic, and says so here.           *)
(***************************************************************************)
EXTENDS Naturals

CONSTANTS Names, NoName, Keys, Values, Damaged

VARIABLES
    working, durable,   \* a namespace and its map from keys to values
    committing          \* a commit is under way

vars == <<working, durable, committing>>

Empty == [k \in {} |-> NoName]
Table(n, m) == [ns |-> n, map |-> m]
Nothing == Table(NoName, Empty)

Without(m, k) == [j \in DOMAIN m \ {k} |-> m[j]]
With(m, k, v) == [j \in DOMAIN m \cup {k} |-> IF j = k THEN v ELSE m[j]]
PartOf(m, whole) == DOMAIN m \subseteq DOMAIN whole
                    /\ \A k \in DOMAIN m : m[k] \in {whole[k], Damaged}

Init == working = Nothing /\ durable = Nothing /\ committing = FALSE

Edit(m) == ~committing /\ working' = m /\ UNCHANGED <<durable, committing>>

(* begin(): the namespace's durable map, or an empty one. *)
Load(n) == Edit(IF durable.ns = n THEN durable ELSE Table(n, Empty))

Put(k, v) == Edit([working EXCEPT !.map = With(@, k, v)])
Remove(k) == Edit([working EXCEPT !.map = Without(@, k)])
Clear(n) == Edit(Table(n, Empty))

StartCommit ==
    /\ ~committing /\ committing' = TRUE
    /\ durable' = Nothing
    /\ UNCHANGED working

Commit ==
    /\ committing /\ committing' = FALSE
    /\ durable' = working
    /\ UNCHANGED working

(* What an interrupted commit may leave. *)
Interrupted ==
    \/ durable' = Nothing
    \/ /\ durable'.ns = working.ns
       /\ PartOf(durable'.map, working.map)

FailCommit ==
    /\ committing /\ committing' = FALSE
    /\ Interrupted
    /\ UNCHANGED working

(* The erase itself fails: the old map is still there, or is gone. *)
FailErase ==
    /\ ~committing /\ durable' \in {durable, Nothing}
    /\ UNCHANGED <<working, committing>>

(* Power is lost; outside a commit the durable map survives. *)
Restart ==
    /\ committing' = FALSE
    /\ IF committing THEN Interrupted ELSE UNCHANGED durable
    /\ working' = Nothing

Call ==
    \/ \E n \in Names : Load(n)
    \/ \E n \in Names \cup {NoName} : Clear(n)
    \/ \E k \in Keys : Remove(k) \/ \E v \in Values : Put(k, v)
    \/ StartCommit \/ Commit \/ FailCommit \/ FailErase

Next == Call \/ Restart

Spec == Init /\ [][Next]_vars
=============================================================================
