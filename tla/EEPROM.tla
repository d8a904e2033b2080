------------------------------- MODULE EEPROM -------------------------------
(***************************************************************************)
(* libraries/EEPROM: a RAM shadow of the first bytes of the DATA flash     *)
(* partition.  commit() erases every sector the shadow touches, then       *)
(* writes the shadow back; power may fail at any moment.                   *)
(*                                                                         *)
(* A cell stands for some bytes of the partition.                          *)
(***************************************************************************)
EXTENDS Integers

CONSTANTS
    SectorSize, \* cells of an erase sector
    Partition,  \* cells of the DATA partition: info.size
    Sizes,      \* sizes the sketch calls begin() with
    Values,     \* what the sketch writes into a cell
    Erased,     \* an erased cell: 0xFF
    NoData      \* NULL

ASSUME PartitionAssumption ==
    /\ SectorSize \in Nat \ {0} /\ Partition \in Nat
    /\ Sizes \subseteq Nat \ {0}
ASSUME ErasedAssumption == Erased \in Values /\ NoData \notin Values

VARIABLES
    flash,      \* the partition
    open, data, size, dirty,    \* _handle, _data, _size, _dirty
    pc,         \* "idle", or "write": commit() has erased
    resized     \* history: a begin() has set _size under a loaded shadow

vars == <<flash, open, data, size, dirty, pc, resized>>

Cells == 0 .. Partition - 1

Init ==
    /\ flash = [c \in Cells |-> Erased]
    /\ open = FALSE /\ data = NoData /\ size = 0 /\ dirty = FALSE
    /\ pc = "idle" /\ resized = FALSE

-----------------------------------------------------------------------------
(* begin(): open the partition and load the shadow, unless there is one:   *)
(* then only the size changes, and may come to exceed the allocation.      *)
(* `opens' and `loads' are the success of bl_mtd_open() and of             *)
(* bl_mtd_info() and malloc().                                             *)
Clamped(n) == IF n < Partition THEN n ELSE Partition

Load(n) ==
    /\ size' = Clamped(n)
    /\ data' = [a \in 0 .. Clamped(n) - 1 |-> flash[a]]
    /\ dirty' = FALSE
    /\ UNCHANGED resized

Resize(n) ==
    /\ size' = n
    /\ resized' = (resized \/ (data # NoData /\ n # size))
    /\ UNCHANGED <<data, dirty>>

Begin(n, opens, loads) ==
    /\ pc = "idle" /\ (open \/ opens)
    /\ open' = TRUE
    /\ IF data = NoData /\ loads THEN Load(n) ELSE Resize(n)
    /\ UNCHANGED <<flash, pc>>

(* end(): changes that were not committed are dropped. *)
End ==
    /\ pc = "idle"
    /\ open' = FALSE /\ data' = NoData /\ size' = 0 /\ dirty' = FALSE
    /\ resized' = FALSE
    /\ UNCHANGED <<flash, pc>>

(* What is in the shadow at a.  Behind the allocation it is anything; a     *)
(* write there corrupts the heap, which is outside the model.              *)
Peek(a) == IF a \in DOMAIN data THEN {data[a]} ELSE Values
Poke(s, a, v) == [b \in DOMAIN s |-> IF b = a THEN v ELSE s[b]]

(* write() and update(), for an address inside the size, of a new value. *)
Write(a, v) ==
    /\ pc = "idle" /\ data # NoData /\ a < size
    /\ Peek(a) # {v}
    /\ data' = Poke(data, a, v)
    /\ dirty' = TRUE
    /\ UNCHANGED <<flash, open, size, pc, resized>>

(* put() of an object of two cells: all of it, or nothing. *)
Put(a, v, w) ==
    /\ pc = "idle" /\ data # NoData /\ a + 2 <= size
    /\ Peek(a) # {v} \/ Peek(a + 1) # {w}
    /\ data' = Poke(Poke(data, a, v), a + 1, w)
    /\ dirty' = TRUE
    /\ UNCHANGED <<flash, open, size, pc, resized>>

-----------------------------------------------------------------------------
(* The sectors an erase of n cells takes. *)
Touched(n) == {c \in Cells : c \div SectorSize <= (n - 1) \div SectorSize}

AfterErase == [c \in Cells |-> IF c \in Touched(size) THEN Erased ELSE flash[c]]

(* The cells a write of the first k cells of the shadow leaves in flash. *)
AfterWrite(k) ==
    {[c \in Cells |-> IF c >= k THEN flash[c]
                      ELSE IF c \in DOMAIN data THEN data[c] ELSE junk] : junk \in Values}

MayCommit == pc = "idle" /\ data # NoData /\ open /\ dirty

CommitErase_Partition ==
    /\ MayCommit
    /\ flash' = [c \in Cells |-> Erased]
    /\ pc' = "write"
    /\ UNCHANGED <<open, data, size, dirty, resized>>

CommitErase ==
    /\ MayCommit
    /\ flash' = AfterErase
    /\ pc' = "write"
    /\ UNCHANGED <<open, data, size, dirty, resized>>

CommitEraseFails ==
    /\ MayCommit
    /\ flash' \in {flash, AfterErase}
    /\ UNCHANGED <<open, data, size, dirty, pc, resized>>

CommitWrite ==
    /\ pc = "write"
    /\ flash' \in AfterWrite(size)
    /\ dirty' = FALSE
    /\ pc' = "idle"
    /\ UNCHANGED <<open, data, size, resized>>

CommitWriteFails_Clears ==
    /\ pc = "write"
    /\ \E k \in 0 .. size - 1 : flash' \in AfterWrite(k)
    /\ pc' = "idle" /\ dirty' = FALSE
    /\ UNCHANGED <<open, data, size, resized>>

CommitWriteFails ==
    /\ pc = "write"
    /\ \E k \in 0 .. size - 1 : flash' \in AfterWrite(k)
    /\ pc' = "idle"
    /\ UNCHANGED <<open, data, size, dirty, resized>>

PowerLoss ==
    /\ IF pc = "write"
       THEN \E k \in 0 .. size : flash' \in AfterWrite(k)
       ELSE UNCHANGED flash
    /\ open' = FALSE /\ data' = NoData /\ size' = 0 /\ dirty' = FALSE
    /\ pc' = "idle" /\ resized' = FALSE

Call ==
    \/ \E n \in Sizes, opens, loads \in BOOLEAN : Begin(n, opens, loads)
    \/ End
    \/ \E a \in Cells, v \in Values : Write(a, v) \/ \E w \in Values : Put(a, v, w)
    \/ CommitErase \/ CommitEraseFails \/ CommitWrite \/ CommitWriteFails

Next == Call \/ PowerLoss

Spec == Init /\ [][Next]_vars

-----------------------------------------------------------------------------
(* Every variable keeps its type; a shadow belongs to an open partition    *)
(* and is as long as size says, unless a begin() has resized it.           *)
TypeOK ==
    /\ DOMAIN flash = Cells
    /\ open \in BOOLEAN /\ dirty \in BOOLEAN /\ resized \in BOOLEAN
    /\ size \in {0} \cup Sizes \cup {Partition}
    /\ data # NoData => open /\ (resized \/ DOMAIN data = 0 .. size - 1)
    /\ pc \in {"idle", "write"}

(* A change is never left unmarked: a shadow that is not dirty is what the *)
(* partition holds, so a commit() that does nothing loses nothing, and a   *)
(* committed change survives a loss of power.  A resized shadow is         *)
(* excepted: a commit() of the smaller size erases cells it does not write *)
(* back, and a begin() of the larger one does not load them again.         *)
CleanShadowIsFlash ==
    data # NoData /\ ~dirty /\ ~resized => \A a \in DOMAIN data : data[a] = flash[a]
=============================================================================
