--------------------------- MODULE EEPROM_proofs ---------------------------
(***************************************************************************)
(* Proofs about the DATA partition, for every sector size, partition size  *)
(* and contents, as long as the sketch asks EEPROM for one sector at most. *)
(***************************************************************************)
EXTENDS DataPartition, TLAPS

(* The sketch keeps to sector 0, and there is a sector 1. *)
OneSector == (\A n \in Sizes : n <= SectorSize) /\ SectorSize < Partition

(* The cells EEPROM erases or writes lie below the cell of Preferences. *)
Confined == size \in Nat /\ size <= SectorSize

(* commit() is in its second half only with a shadow that is still dirty. *)
WritesDirty == pc = "write" => dirty /\ data # NoData

IInv == TypeOK /\ Confined /\ WritesDirty /\ CleanShadowIsFlash

USE PartitionAssumption DEF OneSector

(* A sector's worth of cells never reaches the next sector. *)
LEMMA FirstSectorOnly ==
  ASSUME OneSector, NEW n \in Nat, n <= SectorSize
  PROVE  PrefsCell \notin Touched(n)
  <1>1. SectorSize \div SectorSize = 1
    OBVIOUS
  <1>2. (n - 1) \div SectorSize < 1
    OBVIOUS
  <1> QED
    BY <1>1, <1>2 DEF Touched, PrefsCell, Cells

(* No step of EEPROM reaches the cell of Preferences. *)
LEMMA EEPROMStaysOff ==
  ASSUME OneSector, Confined, Call \/ PowerLoss
  PROVE  flash'[PrefsCell] = flash[PrefsCell]
  <1>1. PrefsCell \in Cells
    BY DEF PrefsCell, Cells
  <1>2. AfterErase[PrefsCell] = flash[PrefsCell]
    BY <1>1, FirstSectorOnly DEF AfterErase, Confined
  <1>3. ASSUME NEW k \in 0 .. size, flash' \in AfterWrite(k)
        PROVE  flash'[PrefsCell] = flash[PrefsCell]
    BY <1>1, <1>3 DEF AfterWrite, Confined, PrefsCell
  <1>4. CASE CommitErase
    BY <1>2, <1>4 DEF CommitErase
  <1>5. CASE CommitEraseFails
    BY <1>2, <1>5 DEF CommitEraseFails
  <1>6. CASE CommitWrite
    BY <1>3, <1>6 DEF CommitWrite, Confined
  <1>7. CASE CommitWriteFails
    BY <1>3, <1>7 DEF CommitWriteFails, Confined
  <1>8. CASE PowerLoss
    BY <1>3, <1>8 DEF PowerLoss
  <1> QED
    BY <1>4, <1>5, <1>6, <1>7, <1>8 DEF Call, Begin, End, Write, Put

(* Without a shadow there is nothing to show: power-on, end(), power loss.  *)
Bare ==
    /\ DOMAIN flash = Cells
    /\ open = FALSE /\ data = NoData /\ size = 0 /\ dirty = FALSE
    /\ resized = FALSE /\ pc = "idle"

LEMMA BareIInv == Bare => IInv
  <1> SUFFICES ASSUME Bare PROVE IInv
    OBVIOUS
  <1>1. TypeOK
    BY DEF Bare, TypeOK
  <1>2. Confined
    BY DEF Bare, Confined
  <1>3. WritesDirty /\ CleanShadowIsFlash
    BY DEF Bare, WritesDirty, CleanShadowIsFlash
  <1> QED
    BY <1>1, <1>2, <1>3 DEF IInv

LEMMA NextBareIInv == Bare' => IInv'
  BY BareIInv, PTL

LEMMA InitIInv == PartitionInit => IInv
  BY BareIInv DEF PartitionInit, Init, Bare

(* The steps that load, drop or change the shadow. *)
LEMMA ShadowIInv ==
  ASSUME OneSector, IInv,
         \/ \E n \in Sizes, opens, loads \in BOOLEAN : Begin(n, opens, loads)
         \/ End
         \/ \E a \in Cells, v \in Values : Write(a, v) \/ \E w \in Values : Put(a, v, w)
  PROVE  IInv'
  <1> USE DEF IInv, TypeOK, Confined, WritesDirty, CleanShadowIsFlash
  <1>1. ASSUME NEW n \in Sizes, NEW opens \in BOOLEAN, NEW loads \in BOOLEAN,
               Begin(n, opens, loads)
        PROVE  IInv'
    <2>1. CASE Load(n)
      <3>1. TypeOK'
        BY <1>1, <2>1 DEF Begin, Load, Clamped
      <3>2. Confined' /\ WritesDirty'
        BY <1>1, <2>1 DEF Begin, Load, Clamped
      <3>3. CleanShadowIsFlash'
        BY <1>1, <2>1 DEF Begin, Load
      <3> QED
        BY <3>1, <3>2, <3>3
    <2>2. CASE Resize(n)
      BY <1>1, <2>2 DEF Begin, Resize
    <2> QED
      BY <1>1, <2>1, <2>2 DEF Begin
  <1>2. CASE End
    <2>1. Bare'
      BY <1>2 DEF End, Bare
    <2> QED
      BY <2>1, NextBareIInv
  <1>3. ASSUME NEW a \in Cells, NEW v \in Values, Write(a, v)
        PROVE  IInv'
    BY <1>3 DEF Write, Poke
  <1>4. ASSUME NEW a \in Cells, NEW v \in Values, NEW w \in Values, Put(a, v, w)
        PROVE  IInv'
    BY <1>4 DEF Put, Poke
  <1> QED
    BY <1>1, <1>2, <1>3, <1>4

(* commit() and a loss of power. *)
LEMMA CommitIInv ==
  ASSUME OneSector, IInv,
         CommitErase \/ CommitEraseFails \/ CommitWrite \/ CommitWriteFails \/ PowerLoss
  PROVE  IInv'
  <1> USE DEF IInv, TypeOK, Confined, WritesDirty, CleanShadowIsFlash
  <1>1. CASE CommitErase
    BY <1>1 DEF CommitErase, MayCommit, AfterErase
  <1>2. CASE CommitEraseFails
    BY <1>2 DEF CommitEraseFails, MayCommit, AfterErase
  <1>3. CASE CommitWrite
    <2>1. DOMAIN flash' = Cells
      BY <1>3 DEF CommitWrite, AfterWrite
    <2>2. ASSUME ~resized, NEW a \in DOMAIN data
          PROVE  flash'[a] = data[a]
      <3>1. a \in 0 .. size - 1 /\ a \in Cells
        BY <1>3, <2>2 DEF CommitWrite, Cells
      <3> QED
        BY <1>3, <2>2, <3>1 DEF CommitWrite, AfterWrite
    <2> QED
      BY <1>3, <2>1, <2>2 DEF CommitWrite
  <1>4. CASE CommitWriteFails
    <2>1. DOMAIN flash' = Cells
      BY <1>4 DEF CommitWriteFails, AfterWrite
    <2> QED
      BY <1>4, <2>1 DEF CommitWriteFails
  <1>5. CASE PowerLoss
    <2>1. DOMAIN flash' = Cells
      BY <1>5 DEF PowerLoss, AfterWrite
    <2>2. Bare'
      BY <1>5, <2>1 DEF PowerLoss, Bare
    <2> QED
      BY <2>2, NextBareIInv
  <1> QED
    BY <1>1, <1>2, <1>3, <1>4, <1>5

(* Preferences writes behind the shadow. *)
LEMMA StoreIInv ==
  ASSUME OneSector, IInv, PreferencesCall \/ PowerCutInStore
  PROVE  IInv'
  <1>1. CASE PreferencesCall
    <2>1. DOMAIN flash' = DOMAIN flash
      BY <1>1 DEF PreferencesCall
    <2>2. \A a \in Cells : a # PrefsCell => flash'[a] = flash[a]
      BY <1>1 DEF PreferencesCall, IInv, TypeOK
    <2>3. UNCHANGED <<open, data, size, dirty, pc, resized>>
      BY <1>1 DEF PreferencesCall
    <2>4. CleanShadowIsFlash'
      <3>1. SUFFICES ASSUME data # NoData, ~dirty, ~resized, NEW a \in DOMAIN data
                     PROVE  data[a] = flash'[a]
        BY <2>3 DEF CleanShadowIsFlash
      <3>2. a \in 0 .. size - 1
        BY <3>1 DEF IInv, TypeOK
      <3> QED
        BY <2>2, <3>1, <3>2 DEF IInv, CleanShadowIsFlash, Confined, PrefsCell, Cells
    <2> QED
      BY <2>1, <2>3, <2>4 DEF IInv, TypeOK, Confined, WritesDirty
  <1>2. CASE PowerCutInStore
    <2>1. Bare'
      BY <1>2 DEF PowerCutInStore, Bare, IInv, TypeOK
    <2> QED
      BY <2>1, NextBareIInv
  <1> QED
    BY <1>1, <1>2

LEMMA NextIInv ==
  ASSUME OneSector
  PROVE  IInv /\ [PartitionNext]_partition => IInv'
  <1> SUFFICES ASSUME IInv, [PartitionNext]_partition PROVE IInv'
    OBVIOUS
  <1>1. CASE EEPROMCall
    BY <1>1, ShadowIInv, CommitIInv DEF EEPROMCall, Call
  <1>2. CASE PreferencesCall \/ PowerCutInStore
    BY <1>2, StoreIInv
  <1>3. CASE PowerCut
    BY <1>3, CommitIInv DEF PowerCut
  <1>4. CASE UNCHANGED partition
    BY <1>4 DEF partition, vars, IInv, TypeOK, Confined, WritesDirty, CleanShadowIsFlash
  <1> QED
    BY <1>1, <1>2, <1>3, <1>4 DEF PartitionNext

LEMMA Invariance == ASSUME OneSector PROVE PartitionSpec => []IInv
  BY InitIInv, NextIInv, PTL DEF PartitionSpec

-----------------------------------------------------------------------------
(* Type correctness: a shadow belongs to an open partition and is as long  *)
(* as _size says unless a begin() has resized it.                          *)
THEOREM TypeCorrect == ASSUME OneSector PROVE PartitionSpec => []TypeOK
  BY Invariance, PTL DEF IInv

(* Whatever fails and wherever power is lost, a change of the shadow that  *)
(* the partition does not hold is marked for the next commit().            *)
THEOREM CleanShadow == ASSUME OneSector PROVE PartitionSpec => []CleanShadowIsFlash
  BY Invariance, PTL DEF IInv

(* No call of EEPROM changes what Preferences has stored.                  *)
THEOREM Undisturbed == ASSUME OneSector PROVE PartitionSpec => StoreUndisturbed
  <1>1. IInv /\ (EEPROMCall \/ PowerCut) => UNCHANGED Durable
    BY EEPROMStaysOff DEF IInv, EEPROMCall, PowerCut, Durable
  <1>2. IInv => [EEPROMCall \/ PowerCut => UNCHANGED Durable]_partition
    BY <1>1
  <1> QED
    BY Invariance, <1>2, PTL DEF StoreUndisturbed, PartitionSpec
=============================================================================
