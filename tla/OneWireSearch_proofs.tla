------------------------ MODULE OneWireSearch_proofs ------------------------
(***************************************************************************)
(* The ROM search, for every length of the code and every population of   *)
(* the bus: types, that it reports no phantom, that a pass reports every   *)
(* device, and each of them once.                                          *)
(*                                                                         *)
(* A search that ends has followed, bit by bit, devices that were on the   *)
(* bus when the call began: at each bit at least one device drove the bit  *)
(* that was followed, and all the devices still on agree with the bits     *)
(* before it.  The calls of a pass visit the codes in the order of their   *)
(* first different bits, and the cursor alone tells which were found.      *)
(***************************************************************************)
EXTENDS OneWireSearch, TLAPS

USE BitsAssumption, DevicesAssumption

(* The codes read so far: those of the devices still on, and the code of   *)
(* some device that was there when the call began.                         *)
AgreesBelow(d, r, n) == \A m \in 1 .. n - 1 : d[m] = r[m]

Followed ==
    call.at = "bit" =>
        /\ call.on \subseteq began
        /\ \A d \in call.on : AgreesBelow(d, rom, call.n)
        /\ \E d \in began : AgreesBelow(d, rom, call.n)

IInv == TypeOK /\ Followed

-----------------------------------------------------------------------------
(* A branch taken is a bit. *)
LEMMA BranchIsBit ==
    ASSUME TypeOK, NEW n \in 1 .. Bits
    PROVE  Branch(n) \in {0, 1} /\ LastZero(n) \in 0 .. Bits \cup {call.zero}
BY DEF TypeOK, Branch, LastZero, ROMs

(* Where not every device reads as 1 - bit, one drives the bit. *)
LEMMA SomebodyDrives ==
    ASSUME NEW on \in SUBSET Devices, NEW n \in 1 .. Bits, NEW bit \in {0, 1},
           ~ReadsOne(on, n, 1 - bit)
    PROVE  \E d \in on : d[n] = bit
BY DEF ReadsOne, ROMs

(* Following a bit that somebody drives keeps the invariant. *)
LEMMA FollowsPreserves ==
    ASSUME IInv, call.at = "bit", call.n <= Bits,
           NEW bit \in {0, 1}, NEW zero \in 0 .. Bits,
           \E d \in call.on : d[call.n] = bit,
           Follows(call.n, bit, zero)
    PROVE  IInv'
<1>1. call.n \in 1 .. Bits /\ call.on \in SUBSET Devices
  BY DEF IInv, TypeOK, Idle
<1>2. /\ call' = AtBit(call.n + 1, zero, {d \in call.on : d[call.n] = bit})
      /\ rom' = [rom EXCEPT ![call.n] = bit]
  BY DEF Follows
<1>3. TypeOK'
  <2>1. rom' \in ROMs
    BY <1>1, <1>2 DEF IInv, TypeOK, ROMs
  <2>2. call' \in [at: {"bit"}, n: 1 .. Bits + 1, zero: 0 .. Bits, on: SUBSET Devices]
    BY <1>1, <1>2 DEF AtBit
  <2> QED  BY <2>1, <2>2 DEF IInv, TypeOK, Follows
<1>4. \A d \in call.on : d[call.n] = bit => AgreesBelow(d, rom', call.n + 1)
  BY <1>1, <1>2 DEF IInv, TypeOK, Followed, AgreesBelow, ROMs
<1>5. PICK d \in call.on : d[call.n] = bit
  OBVIOUS
<1>6. began' = began /\ call.on \subseteq began
  BY DEF Follows, IInv, Followed
<1>7. /\ call'.n = call.n + 1
      /\ call'.on = {e \in call.on : e[call.n] = bit}
  BY <1>2 DEF AtBit
<1>8. Followed'
  <2>1. \A e \in call'.on : AgreesBelow(e, rom', call'.n)
    BY <1>4, <1>7
  <2>2. \E e \in began' : AgreesBelow(e, rom', call'.n)
    BY <1>4, <1>5, <1>6, <1>7
  <2>3. call'.on \subseteq began'
    BY <1>6, <1>7
  <2> QED  BY <2>1, <2>2, <2>3 DEF Followed
<1> QED  BY <1>3, <1>8 DEF IInv

-----------------------------------------------------------------------------
LEMMA InitIInv == Init => IInv
<1> SUFFICES ASSUME Init  PROVE IInv
  OBVIOUS
<1>1. Bits \in Nat /\ 0 \in 0 .. Bits
  OBVIOUS
<1>2. rom \in ROMs
  BY DEF Init, ROMs
<1>3. call.at # "bit"
  BY DEF Init, Idle
<1> QED  BY <1>1, <1>2, <1>3 DEF Init, IInv, TypeOK, Followed

(* Between two calls the cursor and the histories only need their types. *)
LEMMA IdleIInv ==
    ASSUME TypeOK, call' = Idle, rom' = rom, present' = present,
           lastDiscrepancy' \in 0 .. Bits, lastDeviceFlag' \in BOOLEAN,
           began' \subseteq Devices, found' \subseteq ROMs,
           over' \in BOOLEAN, stable' \in BOOLEAN
    PROVE  IInv'
<1>1. call'.at # "bit"
  BY DEF Idle
<1>2. TypeOK'
  BY DEF TypeOK
<1> QED  BY <1>1, <1>2 DEF IInv, Followed

LEMMA NextIInv == IInv /\ [Next]_vars => IInv'
<1> SUFFICES ASSUME IInv, [Next]_vars  PROVE IInv'
  OBVIOUS
<1> USE DEF IInv
<1>0. /\ 0 \in 0 .. Bits /\ 1 \in 1 .. Bits + 1
      /\ over \in BOOLEAN /\ stable \in BOOLEAN
      /\ (over \/ stable) \in BOOLEAN
      /\ (IF over THEN {} ELSE found) \subseteq ROMs
      /\ present \subseteq Devices /\ began \subseteq Devices /\ found \subseteq ROMs
  BY DEF TypeOK
<1>1. ASSUME NEW d \in Devices, Leave(d)  PROVE IInv'
  <2>1. TypeOK'
    <3>1. call.at = "bit" => call \in [at: {"bit"}, n: 1 .. Bits + 1, zero: 0 .. Bits,
                                       on: SUBSET Devices]
      BY DEF IInv, TypeOK, Idle
    <3> QED  BY <1>1, <3>1 DEF IInv, TypeOK, Leave, cursor, Idle
  <2>2. CASE call.at = "bit"
    <3>1. /\ call'.n = call.n /\ call'.on \subseteq call.on /\ call'.at = "bit"
      BY <1>1, <2>2 DEF Leave, IInv, TypeOK, Idle
    <3>2. rom' = rom /\ began' = began
      BY <1>1 DEF Leave, cursor
    <3>3. Followed'
      BY <2>2, <3>1, <3>2 DEF IInv, Followed, AgreesBelow
    <3> QED  BY <2>1, <3>3 DEF IInv
  <2>3. CASE call.at # "bit"
    BY <1>1, <2>1, <2>3 DEF Leave, IInv, Followed
  <2> QED  BY <2>2, <2>3
<1>2. ASSUME NEW d \in Devices, Join(d)  PROVE IInv'
  BY <1>2 DEF Join, cursor, IInv, TypeOK, Followed, Idle
<1>3. ASSUME reset_search  PROVE IInv'
  BY <1>0, <1>3, IdleIInv DEF reset_search, Rewound
<1>4. ASSUME SearchEnds  PROVE IInv'
  BY <1>0, <1>4, IdleIInv DEF SearchEnds, Fails, Rewound
<1>5. ASSUME SearchBegins  PROVE IInv'
  <2>1. call' = AtBit(1, 0, present) /\ began' = present /\ present # {}
    BY <1>5 DEF SearchBegins
  <2>2. TypeOK'
    <3>1. call' \in [at: {"bit"}, n: 1 .. Bits + 1, zero: 0 .. Bits, on: SUBSET Devices]
      BY <1>0, <2>1 DEF AtBit
    <3> QED  BY <1>0, <1>5, <3>1 DEF SearchBegins, cursor, TypeOK
  <2>3. \A d : AgreesBelow(d, rom', 1)
    BY DEF AgreesBelow
  <2>4. call'.n = 1 /\ call'.on = present
    BY <2>1 DEF AtBit
  <2>5. Followed'
    BY <2>1, <2>3, <2>4 DEF Followed
  <2> QED  BY <2>2, <2>5 DEF IInv
<1>6. ASSUME Agree  PROVE IInv'
  <2>1. PICK bit \in {0, 1} : ~ReadsOne(call.on, call.n, 1 - bit)
                              /\ Follows(call.n, bit, call.zero)
    BY <1>6 DEF Agree
  <2>2. /\ call.at = "bit" /\ call.n \in 1 .. Bits
        /\ call.on \in SUBSET Devices /\ call.zero \in 0 .. Bits
    BY <1>6 DEF Agree, IInv, TypeOK, Idle
  <2>3. \E d \in call.on : d[call.n] = bit
    BY <2>1, <2>2, SomebodyDrives
  <2> QED  BY <2>1, <2>2, <2>3, FollowsPreserves
<1>7. ASSUME Discrepancy  PROVE IInv'
  <2>1. /\ call.at = "bit" /\ call.n \in 1 .. Bits
        /\ call.on \in SUBSET Devices /\ call.zero \in 0 .. Bits
    BY <1>7 DEF Discrepancy, IInv, TypeOK, Idle
  <2>2. Branch(call.n) \in {0, 1} /\ LastZero(call.n) \in 0 .. Bits
    BY <2>1, BranchIsBit DEF IInv
  <2>3. ~ReadsOne(call.on, call.n, 1 - Branch(call.n))
    BY <1>7, <2>2 DEF Discrepancy
  <2>4. \E d \in call.on : d[call.n] = Branch(call.n)
    BY <2>1, <2>2, <2>3, SomebodyDrives
  <2>5. Follows(call.n, Branch(call.n), LastZero(call.n))
    BY <1>7 DEF Discrepancy
  <2> QED  BY <2>1, <2>2, <2>4, <2>5, FollowsPreserves
<1>8. ASSUME NobodyAnswers  PROVE IInv'
  BY <1>0, <1>8, IdleIInv DEF NobodyAnswers, Fails, Rewound
<1>9. ASSUME Reports  PROVE IInv'
  BY <1>9 DEF Reports, IInv, TypeOK, Followed, Idle
<1>10. ASSUME RejectsFamily  PROVE IInv'
  BY <1>0, <1>10, IdleIInv DEF RejectsFamily, Fails, Rewound
<1>11. CASE UNCHANGED vars
  BY <1>11 DEF vars, cursor, IInv, TypeOK, Followed
<1> QED
  BY <1>1, <1>2, <1>3, <1>4, <1>5, <1>6, <1>7, <1>8, <1>9, <1>10, <1>11 DEF Next, search

-----------------------------------------------------------------------------
(* Every variable of the search keeps its type: the cursor stays within    *)
(* the code, whoever leaves or joins.                                      *)
THEOREM TypeCorrect == Spec => []TypeOK
<1>1. IInv => TypeOK
  BY DEF IInv
<1> QED  BY InitIInv, NextIInv, <1>1, PTL DEF Spec

(* A code read to its end is that of a device. *)
LEMMA FollowedIsDevice ==
    ASSUME IInv, call.at = "bit", call.n = Bits + 1
    PROVE  rom \in began
<1>1. PICK d \in began : AgreesBelow(d, rom, call.n)
  BY DEF IInv, Followed
<1>2. d \in ROMs /\ rom \in ROMs
  BY DEF IInv, TypeOK
<1>3. \A m \in 1 .. Bits : d[m] = rom[m]
  BY <1>1 DEF AgreesBelow
<1>4. d = rom
  BY <1>2, <1>3 DEF ROMs
<1> QED  BY <1>4

(* search() reports no phantom: the code it reports was on the bus when    *)
(* the call began.                                                         *)
THEOREM NoPhantom == Spec => ReportsOnlyDevices
<1>1. ASSUME IInv, Reports  PROVE rom \in began
  BY <1>1, FollowedIsDevice DEF Reports
<1>2. IInv /\ [Next]_vars => [Reports => rom \in began]_vars
  BY <1>1
<1> QED  BY InitIInv, NextIInv, <1>2, PTL DEF Spec, ReportsOnlyDevices

-----------------------------------------------------------------------------
(* That a pass over the bus walks every code.  search() visits the codes   *)
(* in the order of their first different bits, 0 before 1, and remembers   *)
(* of a pass only the code it found last and, in lastDiscrepancy, the last *)
(* bit where it took the 0 and could have taken the 1.                     *)
Before(a, b, n) == \E m \in 1 .. n - 1 : a[m] = 0 /\ b[m] = 1 /\ AgreesBelow(a, b, m)

Compared(S, r, n) ==
    \A d \in S : AgreesBelow(d, r, n) \/ Before(d, r, n) \/ Before(r, d, n)

(* Of the bits below n of the code r, z is the last where a device of S    *)
(* that agrees with r so far has a 1 and r a 0, or there is none.          *)
Zero(S, r, z, n) ==
    /\ z # 0 => z \in 1 .. n - 1 /\ r[z] = 0 /\ \E d \in S : AgreesBelow(d, r, z) /\ d[z] = 1
    /\ \A m \in z + 1 .. n - 1, d \in S : r[m] = 0 /\ AgreesBelow(d, r, m) => d[m] = 0

(* Between two calls: r is the code found last, f are those found so far. *)
Reported(S, r, f, z) ==
    /\ r \in S /\ Compared(S, r, Bits + 1) /\ Zero(S, r, z, Bits + 1)
    /\ f = {d \in S : d = r \/ Before(d, r, Bits + 1)}

(* In a call, behind the last discrepancy z: what was found lies before    *)
(* the bits up to z, and from there on the least codes are followed.       *)
Past(S, r, f, z, n) ==
    /\ Compared(S, r, n)
    /\ f = {d \in S : Before(d, r, z + 1)}
    /\ \A m \in z + 1 .. n - 1, d \in S : r[m] = 1 /\ AgreesBelow(d, r, m) => d[m] = 1

(* Up to the last discrepancy a call repeats the bits of the last one. *)
Walking(S, r, f, z, n) ==
    IF n <= z THEN Reported(S, r, f, z) ELSE Past(S, r, f, z, n)

OverOK == over => call = Idle /\ lastDiscrepancy = 0 /\ ~lastDeviceFlag

BetweenOK ==
    stable /\ call = Idle /\ ~over =>
        \/ found = {} /\ lastDiscrepancy = 0 /\ ~lastDeviceFlag
        \/ /\ Reported(present, rom, found, lastDiscrepancy)
           /\ lastDeviceFlag <=> lastDiscrepancy = 0

WalkOK ==
    stable /\ call.at = "bit" =>
        /\ began = present
        /\ call.on = {d \in present : AgreesBelow(d, rom, call.n)} /\ call.on # {}
        /\ Zero(present, rom, call.zero, call.n)
        /\ Walking(present, rom, found, lastDiscrepancy, call.n)

PassInv == IInv /\ OverOK /\ BetweenOK /\ WalkOK /\ WalksEveryROM

-----------------------------------------------------------------------------
(* One more bit. *)
LEMMA OneMore ==
    ASSUME NEW n \in Nat, n >= 1
    PROVE  \A a, b :
             /\ AgreesBelow(a, b, n + 1) <=> AgreesBelow(a, b, n) /\ a[n] = b[n]
             /\ Before(a, b, n + 1) <=>
                  Before(a, b, n) \/ (a[n] = 0 /\ b[n] = 1 /\ AgreesBelow(a, b, n))
<1>1. 1 .. (n + 1) - 1 = (1 .. n - 1) \cup {n}
  OBVIOUS
<1> QED  BY <1>1 DEF AgreesBelow, Before

(* Codes with the same bits compare alike. *)
LEMMA SameBits ==
    ASSUME NEW n \in Nat, NEW r, NEW q, AgreesBelow(q, r, n)
    PROVE  \A k \in 1 .. n : \A d :
             /\ AgreesBelow(d, q, k) <=> AgreesBelow(d, r, k)
             /\ Before(d, q, k) <=> Before(d, r, k)
             /\ Before(q, d, k) <=> Before(r, d, k)
<1> SUFFICES ASSUME NEW k \in 1 .. n, NEW d
             PROVE  /\ AgreesBelow(d, q, k) <=> AgreesBelow(d, r, k)
                    /\ Before(d, q, k) <=> Before(d, r, k)
                    /\ Before(q, d, k) <=> Before(r, d, k)
  OBVIOUS
<1>1. \A m \in 1 .. k - 1 : q[m] = r[m]
  BY DEF AgreesBelow
<1>2. ASSUME NEW j \in 1 .. k
      PROVE  /\ AgreesBelow(d, q, j) <=> AgreesBelow(d, r, j)
             /\ AgreesBelow(q, d, j) <=> AgreesBelow(r, d, j)
  <2>1. \A m \in 1 .. j - 1 : q[m] = r[m]
    BY <1>1
  <2> QED  BY <2>1 DEF AgreesBelow
<1>3. AgreesBelow(d, q, k) <=> AgreesBelow(d, r, k)
  BY <1>1 DEF AgreesBelow
<1>4. Before(d, q, k) <=> Before(d, r, k)
  BY <1>1, <1>2 DEF Before
<1>5. Before(q, d, k) <=> Before(r, d, k)
  BY <1>1, <1>2 DEF Before
<1> QED  BY <1>3, <1>4, <1>5

(* q is the code r after a bit of it was followed. *)
Takes(r, n, bit, q) ==
    /\ q \in ROMs /\ q[n] = bit
    /\ AgreesBelow(q, r, n)
    /\ r[n] = bit => q = r

LEMMA FollowedBit ==
    ASSUME NEW r \in ROMs, NEW n \in 1 .. Bits, NEW bit \in {0, 1}
    PROVE  Takes(r, n, bit, [r EXCEPT ![n] = bit])
BY DEF ROMs, Takes, AgreesBelow

LEMMA FollowedCompared ==
    ASSUME NEW S \in SUBSET ROMs, NEW r \in ROMs, NEW n \in 1 .. Bits, NEW bit \in {0, 1},
           NEW q, Takes(r, n, bit, q), Compared(S, r, n)
    PROVE  Compared(S, q, n + 1)
<1>1. /\ q \in ROMs /\ q[n] = bit /\ n \in Nat /\ n >= 1 /\ n \in 1 .. n
      /\ AgreesBelow(q, r, n) /\ \A m \in 1 .. n - 1 : q[m] = r[m]
  BY DEF Takes, AgreesBelow
<1>2. ASSUME NEW d \in S
      PROVE  AgreesBelow(d, q, n + 1) \/ Before(d, q, n + 1) \/ Before(q, d, n + 1)
  <2>1. AgreesBelow(d, q, n) \/ Before(d, q, n) \/ Before(q, d, n)
    BY <1>1, SameBits DEF Compared
  <2>2. AgreesBelow(d, q, n) => AgreesBelow(q, d, n)
    BY DEF AgreesBelow
  <2>3. d[n] \in {0, 1}
    BY DEF ROMs
  <2>4. /\ AgreesBelow(d, q, n + 1) <=> AgreesBelow(d, q, n) /\ d[n] = q[n]
        /\ Before(d, q, n + 1) <=> Before(d, q, n) \/ (d[n] = 0 /\ q[n] = 1 /\ AgreesBelow(d, q, n))
        /\ Before(q, d, n + 1) <=> Before(q, d, n) \/ (q[n] = 0 /\ d[n] = 1 /\ AgreesBelow(q, d, n))
    BY <1>1, OneMore
  <2> QED  BY <1>1, <2>1, <2>2, <2>3, <2>4
<1> QED  BY <1>2 DEF Compared

(* The last zero, at a bit where the devices still on agree, and at one    *)
(* where they do not. *)
LEMMA FollowedZero ==
    ASSUME NEW S \in SUBSET ROMs, NEW r \in ROMs, NEW n \in 1 .. Bits, NEW bit \in {0, 1},
           NEW q, Takes(r, n, bit, q), NEW y \in 0 .. Bits, Zero(S, r, y, n),
           NEW x, \/ x = y /\ \A d \in S : bit = 0 /\ AgreesBelow(d, r, n) => d[n] = 0
                  \/ x = n /\ bit = 0 /\ \E d \in S : AgreesBelow(d, r, n) /\ d[n] = 1
    PROVE  Zero(S, q, x, n + 1)
<1>1. /\ q \in ROMs /\ q[n] = bit /\ n \in Nat /\ n >= 1 /\ n \in 1 .. n
      /\ AgreesBelow(q, r, n) /\ \A m \in 1 .. n - 1 : q[m] = r[m]
  BY DEF Takes, AgreesBelow
<1>2. \A k \in 1 .. n : \A d : AgreesBelow(d, q, k) <=> AgreesBelow(d, r, k)
  BY <1>1, SameBits
<1>3. CASE x = y /\ \A d \in S : bit = 0 /\ AgreesBelow(d, r, n) => d[n] = 0
  <2>1. y # 0 => /\ y \in 1 .. n - 1 /\ y \in 1 .. (n + 1) - 1 /\ q[y] = 0
                 /\ \E d \in S : AgreesBelow(d, q, y) /\ d[y] = 1
    BY <1>1, <1>2 DEF Zero
  <2>2. ASSUME NEW m \in y + 1 .. (n + 1) - 1, NEW d \in S, q[m] = 0, AgreesBelow(d, q, m)
        PROVE  d[m] = 0
    <3>1. CASE m = n
      BY <1>1, <1>2, <1>3, <2>2, <3>1
    <3>2. CASE m # n
      <4>1. m \in y + 1 .. n - 1 /\ m \in 1 .. n - 1
        BY <1>1, <2>2, <3>2
      <4>2. r[m] = 0 /\ AgreesBelow(d, r, m)
        BY <1>1, <1>2, <2>2, <4>1
      <4> QED  BY <4>1, <4>2 DEF Zero
    <3> QED  BY <3>1, <3>2
  <2> QED  BY <1>3, <2>1, <2>2 DEF Zero
<1>4. CASE x = n /\ bit = 0 /\ \E d \in S : AgreesBelow(d, r, n) /\ d[n] = 1
  <2>1. n \in 1 .. (n + 1) - 1 /\ q[n] = 0
    BY <1>1, <1>4
  <2>2. \E d \in S : AgreesBelow(d, q, n) /\ d[n] = 1
    BY <1>1, <1>2, <1>4
  <2>3. n + 1 .. (n + 1) - 1 = {}
    BY <1>1
  <2> QED  BY <1>4, <2>1, <2>2, <2>3 DEF Zero
<1> QED  BY <1>3, <1>4

(* Before the last discrepancy the bits are those of the last call; there  *)
(* the devices still on do not agree. *)
LEMMA RepeatsBits ==
    ASSUME NEW S \in SUBSET ROMs, NEW r \in ROMs, NEW f, NEW z \in 0 .. Bits,
           NEW n \in 1 .. Bits, n <= z, Reported(S, r, f, z),
           NEW bit, NEW on, on = {d \in S : AgreesBelow(d, r, n)},
           ReadsOne(on, n, bit)
    PROVE  n # z /\ bit = r[n]
<1>1. AgreesBelow(r, r, n) /\ r \in S
  BY DEF Reported, AgreesBelow
<1>2. bit = r[n]
  BY <1>1 DEF ReadsOne
<1>3. ASSUME n = z  PROVE FALSE
  <2>1. r[n] = 0 /\ \E d \in S : AgreesBelow(d, r, n) /\ d[n] = 1
    BY <1>3 DEF Reported, Zero
  <2> QED  BY <1>2, <2>1 DEF ReadsOne
<1> QED  BY <1>2, <1>3

(* At the last discrepancy the other branch is taken: everything found     *)
(* lies before it. *)
LEMMA TakesOtherBranch ==
    ASSUME NEW S \in SUBSET ROMs, NEW r \in ROMs, NEW f, NEW z \in 1 .. Bits,
           Reported(S, r, f, z), NEW q, Takes(r, z, 1, q)
    PROVE  Past(S, q, f, z, z + 1)
<1>1. /\ q \in ROMs /\ q[z] = 1 /\ z \in Nat /\ z >= 1 /\ z \in 1 .. z /\ Bits \in Nat
      /\ AgreesBelow(q, r, z)
  BY DEF Takes
<1>2. r[z] = 0 /\ \A m \in z + 1 .. Bits, d \in S : r[m] = 0 /\ AgreesBelow(d, r, m) => d[m] = 0
  BY <1>1 DEF Reported, Zero
<1>3. \A d : /\ AgreesBelow(d, q, z) <=> AgreesBelow(d, r, z)
             /\ Before(d, q, z) <=> Before(d, r, z)
             /\ Before(q, d, z) <=> Before(r, d, z)
  BY <1>1, SameBits
<1>4. \A d : /\ AgreesBelow(d, q, z + 1) <=> AgreesBelow(d, q, z) /\ d[z] = 1
             /\ Before(d, q, z + 1) <=> Before(d, q, z) \/ (d[z] = 0 /\ AgreesBelow(d, q, z))
             /\ Before(q, d, z + 1) <=> Before(q, d, z)
  BY <1>1, OneMore
<1>5. ASSUME NEW d \in S, Before(d, r, Bits + 1)
      PROVE  Before(d, q, z + 1)
  <2>1. PICK m \in 1 .. Bits : d[m] = 0 /\ r[m] = 1 /\ AgreesBelow(d, r, m)
    BY <1>1, <1>5 DEF Before
  <2>2. CASE m < z
    <3>1. Before(d, r, z)
      BY <1>1, <2>1, <2>2 DEF Before
    <3> QED  BY <1>3, <1>4, <3>1
  <2>3. CASE m > z
    <3>1. AgreesBelow(d, r, z) /\ d[z] = r[z]
      BY <1>1, <2>1, <2>3 DEF AgreesBelow
    <3> QED  BY <1>2, <1>3, <1>4, <3>1
  <2> QED  BY <1>1, <1>2, <2>1, <2>2, <2>3
<1>6. ASSUME NEW d \in S, Before(r, d, Bits + 1)
      PROVE  AgreesBelow(d, q, z + 1) \/ Before(d, q, z + 1) \/ Before(q, d, z + 1)
  <2>1. PICK m \in 1 .. Bits : r[m] = 0 /\ d[m] = 1 /\ AgreesBelow(r, d, m)
    BY <1>1, <1>6 DEF Before
  <2>2. CASE m < z
    <3>1. Before(r, d, z)
      BY <1>1, <2>1, <2>2 DEF Before
    <3> QED  BY <1>3, <1>4, <3>1
  <2>3. CASE m = z
    <3>1. AgreesBelow(d, r, z)
      BY <2>1, <2>3 DEF AgreesBelow
    <3> QED  BY <1>3, <1>4, <2>1, <2>3, <3>1
  <2>4. CASE m > z
    <3>1. AgreesBelow(d, r, z) /\ d[z] = r[z]
      BY <1>1, <2>1, <2>4 DEF AgreesBelow
    <3> QED  BY <1>2, <1>3, <1>4, <3>1
  <2> QED  BY <1>1, <2>1, <2>2, <2>3, <2>4
<1>7. ASSUME NEW d \in S, d = r
      PROVE  Before(d, q, z + 1)
  BY <1>2, <1>3, <1>4, <1>7 DEF AgreesBelow
<1>8. ASSUME NEW d \in S, AgreesBelow(d, r, Bits + 1)
      PROVE  d = r
  <2>1. \A m \in 1 .. Bits : d[m] = r[m]
    BY <1>1, <1>8 DEF AgreesBelow
  <2> QED  BY <2>1 DEF ROMs
<1>9. Compared(S, q, z + 1)
  BY <1>5, <1>6, <1>7, <1>8 DEF Reported, Compared
<1>10. ASSUME NEW d \in S, Before(d, q, z + 1), d # r
       PROVE  Before(d, r, Bits + 1)
  <2>1. ~Before(r, d, Bits + 1)
    <3> SUFFICES ASSUME NEW m \in 1 .. Bits, r[m] = 0, d[m] = 1, AgreesBelow(r, d, m)
                 PROVE  FALSE
      BY <1>1 DEF Before
    <3>1. CASE Before(d, q, z)
      <4>1. PICK k \in 1 .. z - 1 : d[k] = 0 /\ r[k] = 1 /\ AgreesBelow(d, r, k)
        BY <1>3, <3>1 DEF Before
      <4> QED  BY <1>1, <4>1 DEF AgreesBelow
    <3>2. CASE d[z] = 0 /\ AgreesBelow(d, q, z)
      <4>1. AgreesBelow(d, r, z) /\ d[z] = 0
        BY <1>3, <3>2
      <4>2. m > z
        BY <1>1, <4>1 DEF AgreesBelow
      <4>3. AgreesBelow(d, r, m)
        BY DEF AgreesBelow
      <4> QED  BY <1>1, <1>2, <4>2, <4>3
    <3> QED  BY <1>4, <1>10, <3>1, <3>2
  <2> QED  BY <1>8, <1>10, <2>1 DEF Reported, Compared
<1>11. f = {d \in S : Before(d, q, z + 1)}
  BY <1>5, <1>7, <1>10 DEF Reported
<1>12. z + 1 .. (z + 1) - 1 = {}
  BY <1>1
<1> QED  BY <1>9, <1>11, <1>12 DEF Past

(* Behind the last discrepancy the least code is followed. *)
LEMMA FollowsLeast ==
    ASSUME NEW S \in SUBSET ROMs, NEW r \in ROMs, NEW f, NEW z \in 0 .. Bits,
           NEW n \in 1 .. Bits, NEW bit \in {0, 1}, NEW q, Takes(r, n, bit, q),
           z < n, Past(S, r, f, z, n),
           \A d \in S : bit = 1 /\ AgreesBelow(d, r, n) => d[n] = 1
    PROVE  Past(S, q, f, z, n + 1)
<1>1. /\ q \in ROMs /\ q[n] = bit /\ n \in Nat /\ n >= 1 /\ z + 1 \in 1 .. n
      /\ AgreesBelow(q, r, n) /\ \A m \in 1 .. n - 1 : q[m] = r[m]
  BY DEF Takes, AgreesBelow
<1>2. \A k \in 1 .. n : \A d :
        /\ AgreesBelow(d, q, k) <=> AgreesBelow(d, r, k)
        /\ Before(d, q, k) <=> Before(d, r, k)
  BY <1>1, SameBits
<1>3. Compared(S, q, n + 1)
  BY FollowedCompared DEF Past
<1>4. f = {d \in S : Before(d, q, z + 1)}
  BY <1>1, <1>2 DEF Past
<1>5. ASSUME NEW m \in z + 1 .. (n + 1) - 1, NEW d \in S, q[m] = 1, AgreesBelow(d, q, m)
      PROVE  d[m] = 1
  <2>1. CASE m = n
    BY <1>1, <1>2, <1>5, <2>1
  <2>2. CASE m # n
    <3>1. m \in z + 1 .. n - 1 /\ m \in 1 .. n - 1 /\ m \in 1 .. n
      BY <1>1, <1>5, <2>2
    <3>2. r[m] = 1 /\ AgreesBelow(d, r, m)
      BY <1>1, <1>2, <1>5, <3>1
    <3> QED  BY <3>1, <3>2 DEF Past
  <2> QED  BY <2>1, <2>2
<1> QED  BY <1>3, <1>4, <1>5 DEF Past

(* A call that repeats the last one up to its last discrepancy, takes the  *)
(* other branch there and the least one behind it keeps to the order.      *)
LEMMA KeepsTheOrder ==
    ASSUME NEW S \in SUBSET ROMs, NEW r \in ROMs, NEW f, NEW z \in 0 .. Bits,
           NEW n \in 1 .. Bits, NEW bit \in {0, 1}, NEW q, Takes(r, n, bit, q),
           Walking(S, r, f, z, n),
           n < z => bit = r[n],
           n = z => bit = 1,
           n > z => \A d \in S : bit = 1 /\ AgreesBelow(d, r, n) => d[n] = 1
    PROVE  Walking(S, q, f, z, n + 1)
<1>1. CASE n < z
  <2>1. q = r /\ n + 1 <= z /\ n <= z
    BY <1>1 DEF Takes
  <2> QED  BY <2>1 DEF Walking
<1>2. CASE n = z
  <2>1. Reported(S, r, f, z) /\ z \in 1 .. Bits /\ ~(n + 1 <= z) /\ Takes(r, z, 1, q)
    BY <1>2 DEF Walking
  <2>2. Past(S, q, f, z, z + 1)
    BY <2>1, TakesOtherBranch
  <2> QED  BY <1>2, <2>1, <2>2 DEF Walking
<1>3. CASE n > z
  <2>1. Past(S, r, f, z, n) /\ ~(n + 1 <= z) /\ z < n
    BY <1>3 DEF Walking
  <2>2. Past(S, q, f, z, n + 1)
    BY <1>3, <2>1, FollowsLeast
  <2> QED  BY <2>1, <2>2 DEF Walking
<1> QED  BY <1>1, <1>2, <1>3

(* Those still on are the devices that agree with the code. *)
LEMMA StillOn ==
    ASSUME NEW r \in ROMs, NEW n \in 1 .. Bits, NEW bit \in {0, 1},
           NEW q, Takes(r, n, bit, q)
    PROVE  \A d : AgreesBelow(d, q, n + 1) <=> AgreesBelow(d, r, n) /\ d[n] = bit
<1>1. /\ q[n] = bit /\ n \in Nat /\ n >= 1 /\ n \in 1 .. n /\ AgreesBelow(q, r, n)
  BY DEF Takes
<1>2. \A d : AgreesBelow(d, q, n) <=> AgreesBelow(d, r, n)
  BY <1>1, SameBits
<1>3. \A d : AgreesBelow(d, q, n + 1) <=> AgreesBelow(d, q, n) /\ d[n] = q[n]
  BY <1>1, OneMore
<1> QED  BY <1>1, <1>2, <1>3

(* At the end of a call the code is one that was not found yet, and the    *)
(* last of those found. *)
LEMMA ReadsNext ==
    ASSUME NEW S \in SUBSET ROMs, NEW r \in ROMs, NEW f, NEW z \in 0 .. Bits,
           NEW d \in S, AgreesBelow(d, r, Bits + 1),
           Past(S, r, f, z, Bits + 1), NEW y, Zero(S, r, y, Bits + 1)
    PROVE  r \notin f /\ Reported(S, r, f \cup {r}, y)
<1>1. \A e \in S : AgreesBelow(e, r, Bits + 1) => e = r
  <2> SUFFICES ASSUME NEW e \in S, AgreesBelow(e, r, Bits + 1)  PROVE e = r
    OBVIOUS
  <2>1. \A m \in 1 .. Bits : e[m] = r[m]
    BY DEF AgreesBelow
  <2> QED  BY <2>1 DEF ROMs
<1>2. r \in S
  BY <1>1
<1>3. r \notin f
  BY DEF Past, Before
<1>4. ASSUME NEW e \in S, Before(e, r, z + 1)  PROVE Before(e, r, Bits + 1)
  BY <1>4 DEF Before
<1>5. ASSUME NEW e \in S, Before(e, r, Bits + 1)  PROVE Before(e, r, z + 1)
  <2>1. PICK m \in 1 .. Bits : e[m] = 0 /\ r[m] = 1 /\ AgreesBelow(e, r, m)
    BY <1>5 DEF Before
  <2>2. ~(m \in z + 1 .. (Bits + 1) - 1)
    BY <2>1 DEF Past
  <2>3. m \in 1 .. (z + 1) - 1
    BY <2>2
  <2> QED  BY <2>1, <2>3 DEF Before
<1>6. f \cup {r} = {e \in S : e = r \/ Before(e, r, Bits + 1)}
  BY <1>2, <1>4, <1>5 DEF Past
<1> QED  BY <1>2, <1>3, <1>6 DEF Past, Reported

(* Without a discrepancy left nothing lies behind the last code. *)
LEMMA NothingLeft ==
    ASSUME NEW S \in SUBSET ROMs, NEW r \in ROMs, NEW f, Reported(S, r, f, 0)
    PROVE  f = S
<1>1. ASSUME NEW d \in S  PROVE ~Before(r, d, Bits + 1)
  <2> SUFFICES ASSUME NEW m \in 1 .. Bits, r[m] = 0, d[m] = 1, AgreesBelow(r, d, m)
               PROVE  FALSE
    BY DEF Before
  <2>1. AgreesBelow(d, r, m)
    BY DEF AgreesBelow
  <2>2. m \in 0 + 1 .. (Bits + 1) - 1
    OBVIOUS
  <2> QED  BY <2>1, <2>2 DEF Reported, Zero
<1>2. ASSUME NEW d \in S, AgreesBelow(d, r, Bits + 1)  PROVE d = r
  <2>1. \A m \in 1 .. Bits : d[m] = r[m]
    BY <1>2 DEF AgreesBelow
  <2> QED  BY <2>1 DEF ROMs
<1> QED  BY <1>1, <1>2 DEF Reported, Compared

-----------------------------------------------------------------------------
(* The invariant over the actions: first those between two calls. *)
LEMMA InitPass == Init => PassInv
<1> SUFFICES ASSUME Init  PROVE PassInv
  OBVIOUS
<1>1. IInv
  BY InitIInv
<1>2. OverOK /\ BetweenOK /\ WalkOK /\ WalksEveryROM
  BY DEF Init, OverOK, BetweenOK, WalkOK, WalksEveryROM, Idle
<1> QED  BY <1>1, <1>2 DEF PassInv

LEMMA LeavePass ==
    ASSUME PassInv, NEW d \in Devices, Leave(d)
    PROVE  OverOK' /\ BetweenOK' /\ WalkOK' /\ WalksEveryROM'
<1>1. stable' = FALSE /\ over' = over
      /\ lastDiscrepancy' = lastDiscrepancy /\ lastDeviceFlag' = lastDeviceFlag
  BY DEF Leave, cursor
<1>2. over => call = Idle /\ call' = Idle
  BY DEF PassInv, OverOK, Leave, Idle
<1> QED  BY <1>1, <1>2 DEF PassInv, OverOK, BetweenOK, WalkOK, WalksEveryROM

LEMMA JoinPass ==
    ASSUME PassInv, NEW d \in Devices, Join(d)
    PROVE  OverOK' /\ BetweenOK' /\ WalkOK' /\ WalksEveryROM'
BY DEF Join, cursor, PassInv, OverOK, BetweenOK, WalkOK, WalksEveryROM

LEMMA ResetPass ==
    ASSUME reset_search
    PROVE  OverOK' /\ BetweenOK' /\ WalkOK' /\ WalksEveryROM'
BY DEF reset_search, Rewound, OverOK, BetweenOK, WalkOK, WalksEveryROM, Idle

(* search() returns false on an empty bus, or after the last code. *)
LEMMA EndsPass ==
    ASSUME PassInv, SearchEnds
    PROVE  OverOK' /\ BetweenOK' /\ WalkOK' /\ WalksEveryROM'
<1>1. /\ over' = TRUE /\ call' = Idle /\ lastDiscrepancy' = 0 /\ lastDeviceFlag' = FALSE
      /\ began' = present /\ found' = (IF over THEN {} ELSE found)
      /\ stable' = (over \/ stable)
  BY DEF SearchEnds, Fails, Rewound
<1>2. /\ call = Idle /\ (lastDeviceFlag \/ present = {})
      /\ over \in BOOLEAN /\ stable \in BOOLEAN /\ lastDeviceFlag \in BOOLEAN
      /\ present \in SUBSET ROMs /\ rom \in ROMs /\ 0 \in 0 .. Bits
  BY DEF SearchEnds, PassInv, IInv, TypeOK
<1>3. ASSUME stable'  PROVE found' = began'
  <2>1. CASE over
    <3>1. ~lastDeviceFlag
      BY <2>1 DEF PassInv, OverOK
    <3> QED  BY <1>1, <1>2, <2>1, <3>1
  <2>2. CASE ~over
    <3>1. stable
      BY <1>1, <1>2, <1>3, <2>2
    <3>2. CASE found = {} /\ ~lastDeviceFlag
      BY <1>1, <1>2, <2>2, <3>2
    <3>3. CASE Reported(present, rom, found, lastDiscrepancy)
               /\ (lastDeviceFlag <=> lastDiscrepancy = 0)
      <4>1. present # {}
        BY <3>3 DEF Reported
      <4>2. lastDiscrepancy = 0
        BY <1>2, <3>3, <4>1
      <4>3. found = present
        BY <1>2, <3>3, <4>2, NothingLeft
      <4> QED  BY <1>1, <2>2, <4>3
    <3> QED  BY <1>2, <2>2, <3>1, <3>2, <3>3 DEF PassInv, BetweenOK
  <2> QED  BY <1>2, <2>1, <2>2
<1>4. OverOK' /\ BetweenOK' /\ WalkOK'
  BY <1>1 DEF OverOK, BetweenOK, WalkOK, Idle
<1> QED  BY <1>3, <1>4 DEF WalksEveryROM

LEMMA BeginsPass ==
    ASSUME PassInv, SearchBegins
    PROVE  OverOK' /\ BetweenOK' /\ WalkOK' /\ WalksEveryROM'
<1>1. /\ over' = FALSE /\ call' = AtBit(1, 0, present) /\ began' = present /\ present' = present
      /\ found' = (IF over THEN {} ELSE found) /\ stable' = (over \/ stable)
      /\ rom' = rom /\ lastDiscrepancy' = lastDiscrepancy
  BY DEF SearchBegins, cursor
<1>2. /\ call = Idle /\ ~lastDeviceFlag /\ present # {}
      /\ over \in BOOLEAN /\ stable \in BOOLEAN /\ lastDeviceFlag \in BOOLEAN
      /\ lastDiscrepancy \in 0 .. Bits
  BY DEF SearchBegins, PassInv, IInv, TypeOK
<1>3. /\ call'.at = "bit" /\ call'.n = 1 /\ call'.zero = 0 /\ call'.on = present /\ call' # Idle
  BY <1>1 DEF AtBit, Idle
<1>4. \A d, r : AgreesBelow(d, r, 1) /\ ~Before(d, r, 1)
  BY DEF AgreesBelow, Before
<1>5. /\ present = {d \in present : AgreesBelow(d, rom, 1)}
      /\ Zero(present, rom, 0, 1)
  BY <1>4 DEF Zero
<1>6. ASSUME stable'  PROVE Walking(present, rom, found', lastDiscrepancy, 1)
  <2>1. CASE found' = {} /\ lastDiscrepancy = 0
    <3>1. Past(present, rom, {}, 0, 1)
      BY <1>4 DEF Past, Compared
    <3> QED  BY <2>1, <3>1 DEF Walking
  <2>2. CASE ~over /\ Reported(present, rom, found, lastDiscrepancy) /\ lastDiscrepancy # 0
    <3>1. found' = found /\ 1 <= lastDiscrepancy
      BY <1>1, <1>2, <2>2
    <3> QED  BY <2>2, <3>1 DEF Walking
  <2>3. over => lastDiscrepancy = 0 /\ found' = {}
    BY <1>1 DEF PassInv, OverOK
  <2>4. CASE ~over
    <3>1. stable /\ found' = found
      BY <1>1, <1>2, <1>6, <2>4
    <3>2. \/ found = {} /\ lastDiscrepancy = 0
          \/ Reported(present, rom, found, lastDiscrepancy) /\ lastDiscrepancy # 0
      BY <1>2, <2>4, <3>1 DEF PassInv, BetweenOK
    <3> QED  BY <2>1, <2>2, <2>4, <3>1, <3>2
  <2> QED  BY <1>2, <2>1, <2>3, <2>4
<1>7. WalkOK'
  BY <1>1, <1>2, <1>3, <1>5, <1>6 DEF WalkOK
<1>8. OverOK' /\ BetweenOK' /\ WalksEveryROM'
  BY <1>1, <1>3 DEF OverOK, BetweenOK, WalksEveryROM
<1> QED  BY <1>7, <1>8

(* Then those of the call. *)
LEMMA FollowsPass ==
    ASSUME PassInv, call.at = "bit", call.n <= Bits,
           NEW bit \in {0, 1}, NEW zero \in 0 .. Bits,
           \E d \in call.on : d[call.n] = bit,
           Follows(call.n, bit, zero),
           stable =>
             /\ \/ zero = call.zero /\ \A d \in call.on : bit = 0 => d[call.n] = 0
                \/ zero = call.n /\ bit = 0 /\ \E d \in call.on : d[call.n] = 1
             /\ call.n < lastDiscrepancy => bit = rom[call.n]
             /\ call.n = lastDiscrepancy => bit = 1
             /\ call.n > lastDiscrepancy => \A d \in call.on : bit = 1 => d[call.n] = 1
    PROVE  OverOK' /\ BetweenOK' /\ WalkOK' /\ WalksEveryROM'
<1>1. /\ rom \in ROMs /\ call.n \in 1 .. Bits /\ present \in SUBSET ROMs
      /\ call.zero \in 0 .. Bits /\ lastDiscrepancy \in 0 .. Bits
  BY DEF PassInv, IInv, TypeOK, Idle
<1>2. PICK r \in ROMs : r = rom
  BY <1>1
<1>3. PICK n \in 1 .. Bits : n = call.n
  BY <1>1
<1>4. PICK y \in 0 .. Bits : y = call.zero
  BY <1>1
<1>5. PICK z \in 0 .. Bits : z = lastDiscrepancy
  BY <1>1
<1>6. PICK S \in SUBSET ROMs : S = present
  BY <1>1
<1>7. PICK q : q = [r EXCEPT ![n] = bit]
  OBVIOUS
<1>8. Takes(r, n, bit, q)
  BY <1>7, FollowedBit
<1>9. PICK on : on = call.on
  OBVIOUS
<1>10. PICK f : f = found
  OBVIOUS
<1>11. /\ rom' = q /\ call' = AtBit(n + 1, zero, {d \in on : d[n] = bit})
       /\ present' = present /\ lastDiscrepancy' = lastDiscrepancy
       /\ found' = found /\ over' = over /\ began' = began /\ stable' = stable
  BY <1>2, <1>3, <1>7, <1>9 DEF Follows
<1>12. /\ call'.at = "bit" /\ call'.n = n + 1 /\ call'.zero = zero
       /\ call'.on = {d \in on : d[n] = bit} /\ call' # Idle
  BY <1>11 DEF AtBit, Idle
<1>13. ~over
  BY DEF PassInv, OverOK, Idle
<1>14. ASSUME stable
       PROVE  /\ began = S
              /\ {d \in on : d[n] = bit} = {d \in S : AgreesBelow(d, q, n + 1)}
              /\ {d \in on : d[n] = bit} # {}
              /\ Zero(S, q, zero, n + 1)
              /\ Walking(S, q, f, z, n + 1)
  <2>1. /\ began = S /\ on = {d \in S : AgreesBelow(d, r, n)}
        /\ Zero(S, r, y, n) /\ Walking(S, r, f, z, n)
    BY <1>2, <1>3, <1>4, <1>5, <1>6, <1>9, <1>10, <1>14 DEF PassInv, WalkOK
  <2>2. {d \in on : d[n] = bit} # {}
    BY <1>3, <1>9
  <2>3. {d \in on : d[n] = bit} = {d \in S : AgreesBelow(d, q, n + 1)}
    BY <1>8, <2>1, StillOn
  <2>4. \/ zero = y /\ \A d \in S : bit = 0 /\ AgreesBelow(d, r, n) => d[n] = 0
        \/ zero = n /\ bit = 0 /\ \E d \in S : AgreesBelow(d, r, n) /\ d[n] = 1
    BY <1>3, <1>4, <1>9, <1>14, <2>1
  <2>5. Zero(S, q, zero, n + 1)
    BY <1>8, <2>1, <2>4, FollowedZero
  <2>6. /\ n < z => bit = r[n]
        /\ n = z => bit = 1
        /\ n > z => \A d \in S : bit = 1 /\ AgreesBelow(d, r, n) => d[n] = 1
    BY <1>2, <1>3, <1>5, <1>9, <1>14, <2>1
  <2>7. Walking(S, q, f, z, n + 1)
    BY <1>8, <2>1, <2>6, KeepsTheOrder
  <2> QED  BY <2>1, <2>2, <2>3, <2>5, <2>7
<1>15. WalkOK'
  BY <1>5, <1>6, <1>10, <1>11, <1>12, <1>14 DEF WalkOK
<1> QED  BY <1>11, <1>12, <1>13, <1>15 DEF OverOK, BetweenOK, WalksEveryROM

LEMMA AgreePass ==
    ASSUME PassInv, Agree
    PROVE  OverOK' /\ BetweenOK' /\ WalkOK' /\ WalksEveryROM'
<1>1. PICK bit \in {0, 1} : /\ ReadsOne(call.on, call.n, bit) /\ ~ReadsOne(call.on, call.n, 1 - bit)
                            /\ Follows(call.n, bit, call.zero)
  BY DEF Agree
<1>2. /\ call.at = "bit" /\ call.n \in 1 .. Bits /\ call.n <= Bits
      /\ call.on \in SUBSET Devices /\ call.zero \in 0 .. Bits
      /\ rom \in ROMs /\ present \in SUBSET ROMs /\ lastDiscrepancy \in 0 .. Bits
  BY DEF Agree, PassInv, IInv, TypeOK, Idle
<1>3. \E d \in call.on : d[call.n] = bit
  BY <1>1, <1>2, SomebodyDrives
<1>4. \A d \in call.on : d[call.n] = bit
  BY <1>1 DEF ReadsOne
<1>5. ASSUME stable, call.n <= lastDiscrepancy
      PROVE  call.n # lastDiscrepancy /\ bit = rom[call.n]
  <2>1. /\ Reported(present, rom, found, lastDiscrepancy)
        /\ call.on = {d \in present : AgreesBelow(d, rom, call.n)}
    BY <1>2, <1>5 DEF PassInv, WalkOK, Walking
  <2> QED  BY <1>1, <1>2, <1>5, <2>1, RepeatsBits
<1>6. /\ call.n < lastDiscrepancy => call.n <= lastDiscrepancy
      /\ call.n = lastDiscrepancy => call.n <= lastDiscrepancy
  BY <1>2
<1> QED  BY <1>1, <1>2, <1>3, <1>4, <1>5, <1>6, FollowsPass

LEMMA DiscrepancyPass ==
    ASSUME PassInv, Discrepancy
    PROVE  OverOK' /\ BetweenOK' /\ WalkOK' /\ WalksEveryROM'
<1>1. /\ call.at = "bit" /\ call.n \in 1 .. Bits /\ call.n <= Bits
      /\ call.on \in SUBSET Devices /\ call.zero \in 0 .. Bits
      /\ rom \in ROMs /\ lastDiscrepancy \in 0 .. Bits
  BY DEF Discrepancy, PassInv, IInv, TypeOK, Idle
<1>2. Branch(call.n) \in {0, 1} /\ LastZero(call.n) \in 0 .. Bits
  BY <1>1, BranchIsBit DEF PassInv, IInv
<1>3. \A bit \in {0, 1} : ~ReadsOne(call.on, call.n, 1 - bit)
  BY DEF Discrepancy
<1>4. \A bit \in {0, 1} : \E d \in call.on : d[call.n] = bit
  BY <1>1, <1>3, SomebodyDrives
<1>5. /\ \E d \in call.on : d[call.n] = Branch(call.n)
      /\ \E d \in call.on : d[call.n] = 1
  BY <1>2, <1>4
<1>6. Follows(call.n, Branch(call.n), LastZero(call.n))
  BY DEF Discrepancy
<1>7. /\ call.n < lastDiscrepancy => Branch(call.n) = rom[call.n]
      /\ call.n = lastDiscrepancy => Branch(call.n) = 1
      /\ call.n > lastDiscrepancy => Branch(call.n) = 0
  BY <1>1 DEF Branch
<1>8. \/ LastZero(call.n) = call.zero /\ Branch(call.n) = 1
      \/ LastZero(call.n) = call.n /\ Branch(call.n) = 0
  BY <1>2 DEF LastZero
<1>9. PICK bit \in {0, 1} : bit = Branch(call.n)
  BY <1>2
<1>10. PICK zero \in 0 .. Bits : zero = LastZero(call.n)
  BY <1>2
<1> QED  BY <1>1, <1>5, <1>6, <1>7, <1>8, <1>9, <1>10, FollowsPass

(* A search that fails ends a pass only when the bus did not keep still,   *)
(* or met a code that is taken for no device. *)
LEMMA NobodyPass ==
    ASSUME PassInv, NobodyAnswers
    PROVE  OverOK' /\ BetweenOK' /\ WalkOK' /\ WalksEveryROM'
<1>1. /\ over' = TRUE /\ call' = Idle /\ lastDiscrepancy' = 0 /\ lastDeviceFlag' = FALSE
      /\ stable' = stable
  BY DEF NobodyAnswers, Fails, Rewound
<1>2. ~stable
  BY DEF NobodyAnswers, PassInv, WalkOK
<1> QED  BY <1>1, <1>2 DEF OverOK, BetweenOK, WalkOK, WalksEveryROM, Idle

LEMMA RejectsPass ==
    ASSUME PassInv, RejectsFamily
    PROVE  OverOK' /\ BetweenOK' /\ WalkOK' /\ WalksEveryROM'
<1>1. /\ over' = TRUE /\ call' = Idle /\ lastDiscrepancy' = 0 /\ lastDeviceFlag' = FALSE
      /\ stable' = stable /\ began' = began
  BY DEF RejectsFamily, Fails, Rewound
<1>2. rom \in began
  BY FollowedIsDevice DEF RejectsFamily, PassInv
<1>3. \E d \in began : ZeroFamily(d)
  BY <1>2 DEF RejectsFamily
<1> QED  BY <1>1, <1>3 DEF OverOK, BetweenOK, WalkOK, WalksEveryROM, Idle

LEMMA ReportsPass ==
    ASSUME PassInv, Reports
    PROVE  /\ OverOK' /\ BetweenOK' /\ WalkOK' /\ WalksEveryROM'
           /\ stable => rom \notin found
<1>1. /\ call' = Idle /\ lastDiscrepancy' = call.zero /\ (lastDeviceFlag' <=> call.zero = 0)
      /\ found' = found \cup {rom} /\ present' = present /\ rom' = rom
      /\ over' = over /\ stable' = stable /\ began' = began
  BY DEF Reports
<1>2. /\ call.at = "bit" /\ call.n = Bits + 1 /\ present \in SUBSET ROMs /\ rom \in ROMs
      /\ lastDiscrepancy \in 0 .. Bits /\ Bits \in Nat
  BY DEF Reports, PassInv, IInv, TypeOK
<1>3. ~over
  BY <1>2 DEF PassInv, OverOK, Idle
<1>4. ASSUME stable
      PROVE  rom \notin found /\ Reported(present, rom, found \cup {rom}, call.zero)
  <2>1. /\ call.on = {d \in present : AgreesBelow(d, rom, Bits + 1)} /\ call.on # {}
        /\ Zero(present, rom, call.zero, Bits + 1)
        /\ Walking(present, rom, found, lastDiscrepancy, Bits + 1)
    BY <1>2, <1>4 DEF PassInv, WalkOK
  <2>2. \E d \in present : AgreesBelow(d, rom, Bits + 1)
    BY <2>1
  <2>3. Past(present, rom, found, lastDiscrepancy, Bits + 1)
    <3>1. ~(Bits + 1 <= lastDiscrepancy)
      BY <1>2
    <3> QED  BY <2>1, <3>1 DEF Walking
  <2> QED  BY <1>2, <2>1, <2>2, <2>3, ReadsNext
<1>5. BetweenOK'
  BY <1>1, <1>4 DEF BetweenOK
<1>6. OverOK' /\ WalkOK' /\ WalksEveryROM'
  BY <1>1, <1>3 DEF OverOK, WalkOK, WalksEveryROM, Idle
<1> QED  BY <1>4, <1>5, <1>6

(* What every step keeps of a pass over the bus. *)
LEMMA NextPass == PassInv /\ [Next]_vars => PassInv'
<1> SUFFICES ASSUME PassInv, [Next]_vars  PROVE PassInv'
  OBVIOUS
<1>1. IInv'
  BY NextIInv DEF PassInv
<1>2. OverOK' /\ BetweenOK' /\ WalkOK' /\ WalksEveryROM'
  <2>1. CASE \E d \in Devices : Leave(d) \/ Join(d)
    BY <2>1, LeavePass, JoinPass
  <2>2. CASE reset_search
    BY <2>2, ResetPass
  <2>3. CASE SearchEnds
    BY <2>3, EndsPass
  <2>4. CASE SearchBegins
    BY <2>4, BeginsPass
  <2>5. CASE Agree
    BY <2>5, AgreePass
  <2>6. CASE Discrepancy
    BY <2>6, DiscrepancyPass
  <2>7. CASE NobodyAnswers
    BY <2>7, NobodyPass
  <2>8. CASE Reports
    BY <2>8, ReportsPass
  <2>9. CASE RejectsFamily
    BY <2>9, RejectsPass
  <2>10. CASE UNCHANGED vars
    BY <2>10 DEF vars, cursor, PassInv, OverOK, BetweenOK, WalkOK, WalksEveryROM
  <2> QED
    BY <2>1, <2>2, <2>3, <2>4, <2>5, <2>6, <2>7, <2>8, <2>9, <2>10 DEF Next, search
<1> QED  BY <1>1, <1>2 DEF PassInv

-----------------------------------------------------------------------------
(* The cursor of search() stands for the pass: between two calls, what was *)
(* found are the codes up to the last one in the order of the search, and  *)
(* during a call those before the branch it takes.                         *)
THEOREM PassInductive == Spec => []PassInv
BY InitPass, NextPass, PTL DEF Spec

(* "Repeating the call walks every ROM present": when search() returns     *)
(* false, every device of a bus that nobody joined or left was reported,   *)
(* provided none is of family 0.                                           *)
THEOREM PassWalksEveryROM == Spec => []WalksEveryROM
<1>1. PassInv => WalksEveryROM
  BY DEF PassInv
<1> QED  BY PassInductive, <1>1, PTL

(* While nobody joins or leaves, a pass reports no device twice.           *)
THEOREM PassReportsOnce == Spec => NeverTwice
<1>1. PassInv /\ [Next]_vars => [Reports /\ stable => rom \notin found]_vars
  BY ReportsPass
<1> QED  BY PassInductive, <1>1, PTL DEF Spec, NeverTwice
=============================================================================
