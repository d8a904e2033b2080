---------------------------- MODULE OneWireSearch ----------------------------
(***************************************************************************)
(* libraries/OneWire: the ROM search.  A call of search() walks the bits   *)
(* of one ROM code; at each bit every device still taking part drives its  *)
(* bit and then its complement on the open-drain bus, which reads 1 only   *)
(* when nobody pulls it low.  Repeated calls walk the tree of the codes.   *)
(*                                                                         *)
(* Devices may be taken off the bus at any time and put on it between two  *)
(* calls.                                                                  *)
(***************************************************************************)
EXTENDS Naturals

CONSTANTS
    Bits,       \* bits of a ROM code
    FamilyBits, \* bits of its first byte, the family code
    Devices     \* bound: the codes of the devices that may be on the bus

ROMs == [1 .. Bits -> {0, 1}]

ASSUME BitsAssumption == Bits \in Nat /\ FamilyBits \in 1 .. Bits
ASSUME DevicesAssumption == Devices \subseteq ROMs

VARIABLES
    present,    \* the devices on the bus
    lastDiscrepancy, lastDeviceFlag, rom,    \* _lastDiscrepancy, _lastDeviceFlag, _rom
    call,       \* the call of search() under way
    found,      \* history: codes reported since the pass over the bus began
    over,       \* history: the pass has ended, search() returned false
    began,      \* history: the devices on the bus when the call began
    stable      \* history: nobody has left or joined during the pass

cursor == <<lastDiscrepancy, lastDeviceFlag, rom>>
vars == <<present, cursor, call, found, over, began, stable>>

Idle == [at |-> "idle"]
AtBit(n, zero, on) == [at |-> "bit", n |-> n, zero |-> zero, on |-> on]

Init ==
    /\ present \in SUBSET Devices
    /\ lastDiscrepancy = 0 /\ lastDeviceFlag = FALSE
    /\ rom = [n \in 1 .. Bits |-> 0]
    /\ call = Idle
    /\ found = {} /\ over = FALSE
    /\ began = {} /\ stable = TRUE

-----------------------------------------------------------------------------
(* The bus. *)
Leave(d) ==
    /\ d \in present
    /\ present' = present \ {d}
    /\ call' = IF call.at = "bit" THEN [call EXCEPT !.on = @ \ {d}] ELSE call
    /\ stable' = FALSE
    /\ UNCHANGED <<cursor, found, over, began>>

Join(d) ==
    /\ call = Idle /\ d \notin present
    /\ present' = present \cup {d}
    /\ stable' = FALSE
    /\ UNCHANGED <<cursor, call, found, over, began>>

ReadsOne(on, n, bit) == \A d \in on : d[n] = bit

-----------------------------------------------------------------------------
(* reset_search(), which search() does itself when it fails. *)
Rewound ==
    /\ lastDiscrepancy' = 0
    /\ lastDeviceFlag' = FALSE

reset_search ==
    /\ call = Idle
    /\ Rewound
    /\ found' = {} /\ over' = FALSE /\ stable' = TRUE
    /\ UNCHANGED <<present, rom, call, began>>

Fails ==
    /\ Rewound
    /\ call' = Idle
    /\ over' = TRUE

(* search() without a device to look for: the last call reported the last  *)
(* one, or nobody answers the reset pulse.  A search after one that failed *)
(* is a new pass over the bus.                                             *)
SearchEnds ==
    /\ call = Idle
    /\ lastDeviceFlag \/ present = {}
    /\ Fails
    /\ found' = IF over THEN {} ELSE found
    /\ stable' = (over \/ stable)
    /\ began' = present
    /\ UNCHANGED <<present, rom>>

SearchBegins ==
    /\ call = Idle
    /\ ~lastDeviceFlag /\ present # {}
    /\ call' = AtBit(1, 0, present)
    /\ found' = IF over THEN {} ELSE found
    /\ stable' = (over \/ stable)
    /\ over' = FALSE
    /\ began' = present
    /\ UNCHANGED <<present, cursor>>

(* The branch taken where both bits read 0: as in the last pass before its *)
(* last discrepancy, 1 there, 0 behind it.                                 *)
Branch_AlwaysAsBefore(n) == IF n <= lastDiscrepancy THEN rom[n] ELSE 0
Branch(n) ==
    IF n < lastDiscrepancy THEN rom[n]
    ELSE IF n = lastDiscrepancy THEN 1 ELSE 0

Follows_NeverClears(n, bit, zero) ==
    /\ rom' = [rom EXCEPT ![n] = IF bit = 1 THEN 1 ELSE @]
    /\ call' = AtBit(n + 1, zero, {d \in call.on : d[n] = bit})
    /\ UNCHANGED <<present, lastDiscrepancy, lastDeviceFlag, found, over, began, stable>>

Follows(n, bit, zero) ==
    /\ rom' = [rom EXCEPT ![n] = bit]
    /\ call' = AtBit(n + 1, zero, {d \in call.on : d[n] = bit})
    /\ UNCHANGED <<present, lastDiscrepancy, lastDeviceFlag, found, over, began, stable>>

(* Every device still on agrees on the bit. *)
Agree ==
    /\ call.at = "bit" /\ call.n <= Bits
    /\ \E bit \in {0, 1} :
         /\ ReadsOne(call.on, call.n, bit) /\ ~ReadsOne(call.on, call.n, 1 - bit)
         /\ Follows(call.n, bit, call.zero)

LastZero_First(n) == IF Branch(n) = 0 /\ call.zero = 0 THEN n ELSE call.zero
LastZero(n) == IF Branch(n) = 0 THEN n ELSE call.zero

Discrepancy ==
    /\ call.at = "bit" /\ call.n <= Bits
    /\ \A bit \in {0, 1} : ~ReadsOne(call.on, call.n, bit)
    /\ Follows(call.n, Branch(call.n), LastZero(call.n))

(* Nobody holds the bus low for either bit: the devices have left. *)
NobodyAnswers ==
    /\ call.at = "bit" /\ call.n <= Bits
    /\ call.on = {}
    /\ Fails
    /\ UNCHANGED <<present, rom, found, began, stable>>

(* All bits are read.  A code of family 0 is taken for no device. *)
ZeroFamily(d) == \A n \in 1 .. FamilyBits : d[n] = 0

Reports ==
    /\ call.at = "bit" /\ call.n = Bits + 1
    /\ ~ZeroFamily(rom)
    /\ lastDiscrepancy' = call.zero
    /\ lastDeviceFlag' = (call.zero = 0)
    /\ call' = Idle
    /\ found' = found \cup {rom}
    /\ UNCHANGED <<present, rom, over, began, stable>>

RejectsFamily ==
    /\ call.at = "bit" /\ call.n = Bits + 1
    /\ ZeroFamily(rom)
    /\ Fails
    /\ UNCHANGED <<present, rom, found, began, stable>>

search ==
    \/ SearchEnds \/ SearchBegins
    \/ Agree \/ Discrepancy \/ NobodyAnswers
    \/ Reports \/ RejectsFamily

Next ==
    \/ \E d \in Devices : Leave(d) \/ Join(d)
    \/ reset_search
    \/ search

Spec == Init /\ [][Next]_vars

-----------------------------------------------------------------------------
(* Every variable keeps its type. *)
TypeOK ==
    /\ present \subseteq Devices /\ began \subseteq Devices /\ found \subseteq ROMs
    /\ lastDiscrepancy \in 0 .. Bits
    /\ lastDeviceFlag \in BOOLEAN /\ over \in BOOLEAN /\ stable \in BOOLEAN
    /\ rom \in ROMs
    /\ call \in {Idle} \cup [at: {"bit"}, n: 1 .. Bits + 1, zero: 0 .. Bits, on: SUBSET Devices]

(* search() reports no phantom: even when devices leave under it, the code *)
(* it reports was on the bus when the call began.                          *)
ReportsOnlyDevices == [][Reports => rom \in began]_vars

(* While nobody joins or leaves, a pass reports no device twice.           *)
NeverTwice == [][Reports /\ stable => rom \notin found]_vars

(* "Repeating the call walks every ROM present" (the comment on search()): *)
(* when search() returns false, every device of a bus that nobody joined   *)
(* or left has been reported, provided none is of family 0.                *)
WalksEveryROM ==
    over /\ stable /\ (\A d \in began : ~ZeroFamily(d)) => found = began
=============================================================================
