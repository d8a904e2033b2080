---------------------------- MODULE DataPartition ----------------------------
(***************************************************************************)
(* EEPROM and Preferences on the one DATA partition: the EEPROM library    *)
(* owns its first sector, Preferences keeps its table in the second        *)
(* ("sector 0 is owned by the EEPROM library, sector 1 is used here").     *)
(* Preferences is the store it was shown to implement, its durable table   *)
(* the first cell of sector 1.  The sketch calls the two libraries from    *)
(* one task, so a call of the one ends before a call of the other begins;  *)
(* a loss of power restarts both.                                          *)
(***************************************************************************)
EXTENDS EEPROM

CONSTANTS Names, NoName, Keys, PrefValues, Damaged

VARIABLES working, committing   \* the store's, as in KeyValueStore

partition == <<vars, working, committing>>

PrefsCell == SectorSize

(* A sector that does not begin with the magic holds no table. *)
Maps == UNION {[D -> PrefValues \cup {Damaged}] : D \in SUBSET Keys}
Tables == [ns: Names, map: Maps]
Nothing == [ns |-> NoName, map |-> [k \in {} |-> NoName]]
Durable == IF flash[PrefsCell] \in Values THEN Nothing ELSE flash[PrefsCell]

Store == INSTANCE KeyValueStore WITH Values <- PrefValues, durable <- Durable

PartitionInit == Init /\ working = Nothing /\ committing = FALSE

EEPROMCall == Call /\ ~committing /\ UNCHANGED <<working, committing>>

PreferencesCall ==
    /\ pc = "idle"
    /\ \E t \in Tables \cup {Erased, flash[PrefsCell]} :
          flash' = [flash EXCEPT ![PrefsCell] = t]
    /\ Store!Call
    /\ UNCHANGED <<open, data, size, dirty, pc, resized>>

PowerCut ==
    /\ PowerLoss
    /\ working' = Nothing /\ committing' = FALSE

(* Power is lost during a commit of Preferences. *)
PowerCutInStore ==
    /\ pc = "idle" /\ committing
    /\ \E t \in Tables \cup {Erased} : flash' = [flash EXCEPT ![PrefsCell] = t]
    /\ open' = FALSE /\ data' = NoData /\ size' = 0 /\ dirty' = FALSE
    /\ resized' = FALSE
    /\ Store!Restart
    /\ UNCHANGED pc

PartitionNext == EEPROMCall \/ PreferencesCall \/ PowerCut \/ PowerCutInStore

PartitionSpec == PartitionInit /\ [][PartitionNext]_partition

-----------------------------------------------------------------------------
(* The libraries do not disturb each other: no call of EEPROM, and no loss *)
(* of power inside one, changes what the sketch has committed to           *)
(* Preferences ("sector 0 is owned by the EEPROM library, sector 1 is used *)
(* here", Preferences.cpp:26-27).                                          *)
StoreUndisturbed == [][EEPROMCall \/ PowerCut => UNCHANGED Durable]_partition
=============================================================================
