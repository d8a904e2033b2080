----------------------- MODULE HardwareSerial_proofs -----------------------
(***************************************************************************)
(* Proofs about the serial receive path, for every ring size, FIFO depth   *)
(* and number of ports and bytes.                                          *)
(***************************************************************************)
EXTENDS HardwareSerial, SequenceTheorems, TLAPS

(* The cursors' arithmetic, without the modulus. *)
LEMMA RxSizeType == RxSize \in Nat /\ RxSize > 1
  BY RxSizeAssumption

LEMMA AdvanceCases ==
  ASSUME NEW i \in Slots, NEW k \in 0 .. RxSize
  PROVE  Advance(i, k) = IF i + k < RxSize THEN i + k ELSE i + k - RxSize
  BY RxSizeType DEF Advance, Slots

LEMMA DistanceCases ==
  ASSUME NEW i \in Slots, NEW j \in Slots
  PROVE  Distance(i, j) = IF i <= j THEN j - i ELSE j - i + RxSize
  BY RxSizeType DEF Distance, Slots

LEMMA AdvanceType ==
  ASSUME NEW i \in Slots, NEW k \in 0 .. RxSize
  PROVE  Advance(i, k) \in Slots
  BY RxSizeType, AdvanceCases DEF Slots

LEMMA DistanceType ==
  ASSUME NEW i \in Slots, NEW j \in Slots
  PROVE  /\ Distance(i, j) \in Slots
         /\ Distance(i, j) = 0 <=> i = j
  BY RxSizeType, DistanceCases DEF Slots

(* Moving head by k lengthens the ring's content by k, as long as one slot *)
(* stays free; a slot is seen from head at its distance from tail less the *)
(* length of the content, round the ring.                                  *)
LEMMA HeadMoves ==
  ASSUME NEW t \in Slots, NEW h \in Slots, NEW k \in 0 .. RxSize,
         Distance(t, h) + k < RxSize
  PROVE  Distance(t, Advance(h, k)) = Distance(t, h) + k
  <1>1. Advance(h, k) \in Slots
    BY AdvanceType
  <1>2. Advance(h, k) = IF h + k < RxSize THEN h + k ELSE h + k - RxSize
    BY AdvanceCases
  <1>3. Distance(t, h) = IF t <= h THEN h - t ELSE h - t + RxSize
    BY DistanceCases
  <1>4. Distance(t, Advance(h, k)) =
          IF t <= Advance(h, k) THEN Advance(h, k) - t
                                ELSE Advance(h, k) - t + RxSize
    BY <1>1, DistanceCases
  <1> QED
    BY <1>2, <1>3, <1>4, RxSizeType DEF Slots

LEMMA SlotFromHead ==
  ASSUME NEW t \in Slots, NEW h \in Slots, NEW i \in Slots
  PROVE  Distance(h, Advance(t, i)) =
           IF Distance(t, h) <= i THEN i - Distance(t, h)
                                  ELSE i - Distance(t, h) + RxSize
  <1>1. i \in 0 .. RxSize /\ Advance(t, i) \in Slots
    BY RxSizeType, AdvanceType DEF Slots
  <1>2. Advance(t, i) = IF t + i < RxSize THEN t + i ELSE t + i - RxSize
    BY <1>1, AdvanceCases
  <1>3. Distance(t, h) = IF t <= h THEN h - t ELSE h - t + RxSize
    BY DistanceCases
  <1>4. Distance(h, Advance(t, i)) =
          IF h <= Advance(t, i) THEN Advance(t, i) - h
                                ELSE Advance(t, i) - h + RxSize
    BY <1>1, DistanceCases
  <1> QED
    BY <1>2, <1>3, <1>4, RxSizeType DEF Slots

(* Moving tail by one shortens it by one, and shifts it. *)
LEMMA TailMoves ==
  ASSUME NEW t \in Slots, NEW h \in Slots, t # h
  PROVE  /\ Distance(Advance(t, 1), h) = Distance(t, h) - 1
         /\ \A i \in 0 .. Distance(t, h) - 2 :
              Advance(Advance(t, 1), i) = Advance(t, i + 1)
  <1>1. 1 \in 0 .. RxSize /\ Advance(t, 1) \in Slots
    BY RxSizeType, AdvanceType
  <1>2. Advance(t, 1) = IF t + 1 < RxSize THEN t + 1 ELSE 0
    BY <1>1, RxSizeType, AdvanceCases DEF Slots
  <1>3. Distance(Advance(t, 1), h) = Distance(t, h) - 1
    BY <1>1, <1>2, RxSizeType, DistanceCases DEF Slots
  <1>4. ASSUME NEW i \in 0 .. Distance(t, h) - 2
        PROVE  Advance(Advance(t, 1), i) = Advance(t, i + 1)
    <2>1. i \in 0 .. RxSize /\ i + 1 \in 0 .. RxSize
      BY RxSizeType, DistanceType DEF Slots
    <2> QED
      BY <1>1, <1>2, <2>1, RxSizeType, AdvanceCases DEF Slots
  <1> QED
    BY <1>3, <1>4

LEMMA TailItself ==
  ASSUME NEW t \in Slots
  PROVE  Advance(t, 0) = t
  BY RxSizeType, AdvanceCases DEF Slots

-----------------------------------------------------------------------------
LEMMA UsedType ==
  ASSUME TypeOK, NEW p \in Ports
  PROVE  /\ Used(p) \in 0 .. RxSize - 1
         /\ Empty(p) <=> Used(p) = 0
  BY DistanceType DEF TypeOK, Used, Empty, Slots

(* What the handler does to one port that it services. *)
LEMMA ServedPort ==
  ASSUME TypeOK, NEW p \in Ports
  PROVE  /\ Stored(p) \in 0 .. RxSize - 1 /\ Stored(p) <= Len(fifo[p])
         /\ Used(p) + Stored(p) < RxSize
         /\ Taken(p) \in 0 .. Len(fifo[p])
  <1>1. Used(p) \in 0 .. RxSize - 1 /\ Len(fifo[p]) \in Nat
    BY UsedType DEF TypeOK
  <1> QED
    BY <1>1, RxSizeType DEF Stored, Taken, Room, SmallestOf

(* RingHoldsAccepted for the buffers of one port. *)
Holds(buf, h, t, acc, del) ==
    /\ Len(acc) = Len(del) + Distance(t, h)
    /\ \A i \in 1 .. Len(del) : del[i] = acc[i]
    /\ \A i \in 0 .. Distance(t, h) - 1 : buf[Advance(t, i)] = acc[Len(del) + i + 1]

LEMMA PortByPort ==
  RingHoldsAccepted <=>
    \A p \in Ports : Holds(rxbuf[p], head[p], tail[p], accepted[p], delivered[p])
  BY DEF RingHoldsAccepted, Holds, Used

(* new is buf with k bytes of f stored from slot h on. *)
Fills(new, buf, h, f, k) ==
    \A s \in Slots : new[s] = IF Distance(h, s) < k
                              THEN f[Distance(h, s) + 1] ELSE buf[s]

(* The content of new from tail t on: buf's up to head h, then k bytes of f. *)
Extends(new, buf, h, t, f, k) ==
    /\ Distance(t, Advance(h, k)) = Distance(t, h) + k
    /\ \A i \in 0 .. Distance(t, h) - 1 : new[Advance(t, i)] = buf[Advance(t, i)]
    /\ \A i \in Distance(t, h) .. Distance(t, h) + k - 1 :
          new[Advance(t, i)] = f[i - Distance(t, h) + 1]

(* Storing k bytes of a FIFO f behind head: they follow the old ones in the *)
(* ring, and the old ones keep their slots.                                 *)
LEMMA StoringKeepsRing ==
  ASSUME NEW t \in Slots, NEW h \in Slots,
         NEW buf \in [Slots -> Nat], NEW new \in [Slots -> Nat],
         NEW acc \in Seq(Nat), NEW del \in Seq(Nat), NEW f \in Seq(Nat),
         NEW k \in Nat, k <= Len(f), Distance(t, h) + k < RxSize,
         Holds(buf, h, t, acc, del),
         Fills(new, buf, h, f, k)
  PROVE  /\ Holds(new, Advance(h, k), t, acc \o SubSeq(f, 1, k), del)
         /\ Extends(new, buf, h, t, f, k)
  <1>0. PICK u : u = Distance(t, h)
    OBVIOUS
  <1>1. u \in 0 .. RxSize - 1 /\ k \in 0 .. RxSize /\ u \in Nat /\ u + k < RxSize
    <2>1. u \in Slots
      BY <1>0, DistanceType
    <2> QED
      BY <1>0, <2>1, RxSizeType DEF Slots
  <1>2. Distance(t, Advance(h, k)) = u + k
    BY <1>0, <1>1, HeadMoves
  <1>3. PICK a : a = acc \o SubSeq(f, 1, k)
    OBVIOUS
  <1>4. /\ Len(a) = Len(acc) + k
        /\ \A i \in 1 .. Len(acc) : a[i] = acc[i]
        /\ \A i \in 1 .. k : a[Len(acc) + i] = f[i]
    <2>1. PICK b : b = SubSeq(f, 1, k)
      OBVIOUS
    <2>2. b \in Seq(Nat) /\ Len(b) = k /\ \A i \in 1 .. k : b[i] = f[i]
      BY <2>1
    <2>3. a = acc \o b
      BY <1>3, <2>1
    <2> QED
      BY <2>2, <2>3, SMTT(30)
  <1>5. ASSUME NEW i \in 0 .. u + k - 1
        PROVE  new[Advance(t, i)] = IF i < u THEN buf[Advance(t, i)] ELSE f[i - u + 1]
    <2>1. i \in Slots /\ i \in 0 .. RxSize
      <3>1. i \in Nat /\ i < RxSize
        BY <1>1, RxSizeType
      <3> QED
        BY <3>1, RxSizeType DEF Slots
    <2>2. Advance(t, i) \in Slots
      BY <2>1, AdvanceType
    <2>3. Distance(h, Advance(t, i)) = IF u <= i THEN i - u ELSE i - u + RxSize
      BY <1>0, <2>1, SlotFromHead
    <2>4. (Distance(h, Advance(t, i)) < k) <=> (u <= i)
      BY <1>1, <2>3, RxSizeType
    <2> QED
      BY <1>1, <2>2, <2>3, <2>4 DEF Fills
  <1>6. /\ Len(acc) = Len(del) + u
        /\ \A i \in 1 .. Len(del) : del[i] = acc[i]
        /\ \A i \in 0 .. u - 1 : buf[Advance(t, i)] = acc[Len(del) + i + 1]
    BY <1>0 DEF Holds
  <1>7. ASSUME NEW i \in 0 .. u + k - 1
        PROVE  new[Advance(t, i)] = a[Len(del) + i + 1]
    <2>1. CASE i < u
      <3>1. /\ i \in 0 .. u - 1
            /\ Len(del) + i + 1 \in 1 .. Len(acc)
        BY <1>1, <1>6, <2>1
      <3> QED
        BY <1>4, <1>5, <1>6, <2>1, <3>1
    <2>2. CASE ~(i < u)
      <3>1. /\ i - u + 1 \in 1 .. k
            /\ Len(acc) + (i - u + 1) = Len(del) + i + 1
        BY <1>1, <1>6, <2>2
      <3> QED
        BY <1>4, <1>5, <2>2, <3>1
    <2> QED
      BY <2>1, <2>2
  <1>8. \A i \in 1 .. Len(del) : del[i] = a[i]
    BY <1>1, <1>4, <1>6
  <1>9. Holds(new, Advance(h, k), t, a, del)
    <2>1. Distance(t, Advance(h, k)) - 1 = u + k - 1 /\ Len(del) \in Nat
      BY <1>1, <1>2
    <2>2. Len(a) = Len(del) + Distance(t, Advance(h, k))
      BY <1>1, <1>2, <1>4, <1>6, <2>1
    <2>3. \A i \in 0 .. Distance(t, Advance(h, k)) - 1 :
            new[Advance(t, i)] = a[Len(del) + i + 1]
      BY <1>7, <2>1
    <2> QED
      BY <1>8, <2>2, <2>3 DEF Holds
  <1>10. ASSUME NEW i \in 0 .. u - 1
         PROVE  new[Advance(t, i)] = buf[Advance(t, i)]
    <2>1. i \in 0 .. u + k - 1 /\ i < u
      BY <1>1
    <2> QED
      BY <1>5, <2>1
  <1>11. \A i \in u .. u + k - 1 : new[Advance(t, i)] = f[i - u + 1]
    BY <1>1, <1>5
  <1> QED
    BY <1>0, <1>2, <1>3, <1>9, <1>10, <1>11 DEF Extends

(* Reading the byte at tail, of a ring that is not empty. *)
LEMMA ReadingKeepsRing ==
  ASSUME NEW t \in Slots, NEW h \in Slots, t # h,
         NEW buf \in [Slots -> Nat],
         NEW acc \in Seq(Nat), NEW del \in Seq(Nat),
         Holds(buf, h, t, acc, del)
  PROVE  /\ Holds(buf, h, Advance(t, 1), acc, Append(del, buf[t]))
         /\ Distance(Advance(t, 1), h) = Distance(t, h) - 1
  <1>0. PICK u : u = Distance(t, h)
    OBVIOUS
  <1>1. u \in 1 .. RxSize - 1
    <2>1. u \in Slots /\ u # 0
      BY <1>0, DistanceType
    <2> QED
      BY <2>1, RxSizeType DEF Slots
  <1>2. /\ Distance(Advance(t, 1), h) = u - 1
        /\ \A i \in 0 .. u - 2 : Advance(Advance(t, 1), i) = Advance(t, i + 1)
    BY <1>0, TailMoves
  <1>3. PICK d : d = Append(del, buf[t])
    OBVIOUS
  <1>4. /\ Len(d) = Len(del) + 1
        /\ \A i \in 1 .. Len(del) : d[i] = del[i]
        /\ d[Len(del) + 1] = buf[t]
    BY <1>3
  <1>5. /\ Len(acc) = Len(del) + u
        /\ \A i \in 1 .. Len(del) : del[i] = acc[i]
        /\ \A i \in 0 .. u - 1 : buf[Advance(t, i)] = acc[Len(del) + i + 1]
    BY <1>0 DEF Holds
  <1>6. buf[t] = acc[Len(del) + 1]
    <2>1. 0 \in 0 .. u - 1 /\ Advance(t, 0) = t
      BY <1>1, TailItself
    <2> QED
      BY <1>5, <2>1
  <1>7. ASSUME NEW i \in 1 .. Len(d) PROVE d[i] = acc[i]
    <2>1. i \in 1 .. Len(del) \/ i = Len(del) + 1
      BY <1>4
    <2> QED
      BY <1>4, <1>5, <1>6, <2>1
  <1>8. ASSUME NEW i \in 0 .. u - 2
        PROVE  buf[Advance(Advance(t, 1), i)] = acc[Len(d) + i + 1]
    <2>1. i + 1 \in 0 .. u - 1 /\ Len(del) + (i + 1) + 1 = Len(d) + i + 1
      BY <1>1, <1>4
    <2> QED
      BY <1>2, <1>5, <2>1
  <1>9. Holds(buf, h, Advance(t, 1), acc, d)
    <2>1. Distance(Advance(t, 1), h) - 1 = u - 2 /\ Len(del) \in Nat
      BY <1>1, <1>2
    <2>2. Len(acc) = Len(d) + Distance(Advance(t, 1), h)
      BY <1>1, <1>2, <1>4, <1>5, <2>1
    <2>3. \A i \in 0 .. Distance(Advance(t, 1), h) - 1 :
            buf[Advance(Advance(t, 1), i)] = acc[Len(d) + i + 1]
      BY <1>8, <2>1
    <2> QED
      BY <1>7, <2>2, <2>3 DEF Holds
  <1> QED
    BY <1>0, <1>2, <1>3, <1>9

-----------------------------------------------------------------------------
(* What the handler does to one port: nothing, or the service above. *)
Untouched(p) ==
    /\ fifo'[p] = fifo[p] /\ rxbuf'[p] = rxbuf[p]
    /\ head'[p] = head[p] /\ accepted'[p] = accepted[p]

Serviced(p) ==
    /\ fifo'[p] = Rest(fifo[p], Taken(p)) /\ rxbuf'[p] = Filled(p)
    /\ head'[p] = Advance(head[p], Stored(p))
    /\ accepted'[p] = accepted[p] \o SubSeq(fifo[p], 1, Stored(p))

LEMMA IsrByPort ==
  ASSUME Isr, NEW p \in Ports
  PROVE  Untouched(p) \/ Serviced(p)
  BY DEF Isr, Untouched, Serviced

LEMMA ServicedTypes ==
  ASSUME TypeOK, NEW p \in Ports
  PROVE  /\ Rest(fifo[p], Taken(p)) \in Seq(Nat)
         /\ Len(Rest(fifo[p], Taken(p))) <= FifoDepth
         /\ Filled(p) \in [Slots -> Nat]
         /\ Advance(head[p], Stored(p)) \in Slots
         /\ accepted[p] \o SubSeq(fifo[p], 1, Stored(p)) \in Seq(Nat)
  <1> DEFINE f == fifo[p]
  <1>1. /\ f \in Seq(Nat) /\ Len(f) <= FifoDepth /\ head[p] \in Slots
        /\ rxbuf[p] \in [Slots -> Nat] /\ accepted[p] \in Seq(Nat)
        /\ FifoDepth \in Nat
    BY FifoAssumption DEF TypeOK
  <1>2. /\ Taken(p) \in 0 .. Len(f)
        /\ Stored(p) \in 0 .. RxSize - 1 /\ Stored(p) <= Len(f)
    BY ServedPort
  <1>3. Rest(f, Taken(p)) \in Seq(Nat) /\ Len(Rest(f, Taken(p))) <= FifoDepth
    <2>1. PICK k \in 0 .. Len(f) : k = Taken(p)
      BY <1>2
    <2>2. SubSeq(f, k + 1, Len(f)) \in Seq(Nat) /\ Len(SubSeq(f, k + 1, Len(f))) = Len(f) - k
      BY <1>1
    <2> QED
      BY <1>1, <2>1, <2>2 DEF Rest
  <1>4. Filled(p) \in [Slots -> Nat]
    <2>1. ASSUME NEW s \in Slots, Distance(head[p], s) < Stored(p)
          PROVE  f[Distance(head[p], s) + 1] \in Nat
      <3>1. Distance(head[p], s) \in Nat
        <4>1. Distance(head[p], s) \in Slots
          BY <1>1, DistanceType
        <4> QED
          BY <4>1, RxSizeType DEF Slots
      <3>2. Distance(head[p], s) + 1 \in 1 .. Len(f)
        <4>1. Stored(p) \in Nat /\ Stored(p) <= Len(f) /\ Len(f) \in Nat
          BY <1>1, <1>2, RxSizeType
        <4> QED
          BY <2>1, <3>1, <4>1
      <3> QED
        BY <1>1, <3>2
    <2> QED
      BY <1>1, <2>1 DEF Filled
  <1>5. Advance(head[p], Stored(p)) \in Slots
    BY <1>1, <1>2, AdvanceType, RxSizeType
  <1>6. accepted[p] \o SubSeq(f, 1, Stored(p)) \in Seq(Nat)
    <2>1. PICK b : b = SubSeq(f, 1, Stored(p))
      OBVIOUS
    <2>2. b \in Seq(Nat)
      BY <1>1, <1>2, <2>1
    <2> QED
      BY <1>1, <2>1, <2>2
  <1> QED
    BY <1>3, <1>4, <1>5, <1>6

LEMMA TypeInit == Init => TypeOK
  <1>1. 0 \in Slots
    BY RxSizeType DEF Slots
  <1> QED
    BY <1>1, FifoAssumption DEF Init, TypeOK, CallStates, Answers, Nothing

LEMMA TypeStep == TypeOK /\ [Next]_vars => TypeOK'
  <1> SUFFICES ASSUME TypeOK, [Next]_vars PROVE TypeOK'
    OBVIOUS
  <1> USE DEF TypeOK
  <1>1. CASE Isr
    <2>1. ASSUME NEW p \in Ports
          PROVE  /\ fifo'[p] \in Seq(Nat) /\ Len(fifo'[p]) <= FifoDepth
                 /\ rxbuf'[p] \in [Slots -> Nat] /\ head'[p] \in Slots
                 /\ accepted'[p] \in Seq(Nat)
      BY <1>1, IsrByPort, ServicedTypes DEF Untouched, Serviced
    <2>2. /\ DOMAIN fifo' = Ports /\ fifo' = [p \in Ports |-> fifo'[p]]
          /\ rxbuf' = [p \in Ports |-> rxbuf'[p]]
          /\ head' = [p \in Ports |-> head'[p]]
          /\ accepted' = [p \in Ports |-> accepted'[p]]
      BY <1>1 DEF Isr
    <2>3. latched' \in [Ports -> BOOLEAN]
      BY <1>1 DEF Isr
    <2> QED
      BY <1>1, <2>1, <2>2, <2>3 DEF Isr
  <1>2. ASSUME NEW p \in Ports, Arrive(p) PROVE TypeOK'
    <2>1. CASE Len(fifo[p]) < FifoDepth
      <3>1. PICK s : s = Append(fifo[p], arrived[p] + 1)
        OBVIOUS
      <3>2. arrived[p] \in Nat /\ fifo[p] \in Seq(Nat)
        OBVIOUS
      <3>3. s \in Seq(Nat) /\ Len(s) <= FifoDepth
        BY <2>1, <3>1, <3>2, FifoAssumption
      <3>4. fifo' = [fifo EXCEPT ![p] = s]
        BY <1>2, <2>1, <3>1 DEF Arrive
      <3> QED
        BY <1>2, <3>3, <3>4 DEF Arrive, ring, history
    <2>2. CASE ~(Len(fifo[p]) < FifoDepth)
      BY <1>2, <2>2 DEF Arrive, ring, history
    <2> QED
      BY <2>1, <2>2
  <1>3. ASSUME NEW p \in Ports, Idle(p) PROVE TypeOK'
    BY <1>3 DEF Idle, ring, history
  <1>4. ASSUME NEW p \in Ports, Begin(p) PROVE TypeOK'
    <2>1. << >> \in Seq(Nat) /\ Len(<< >>) <= FifoDepth
      BY FifoAssumption
    <2>2. fifo' \in [Ports -> Seq(Nat)] /\ \A q \in Ports : Len(fifo'[q]) <= FifoDepth
      BY <1>4, <2>1 DEF Begin
    <2> QED
      BY <1>4, <2>2 DEF Begin, ring, history
  <1>5. ASSUME NEW p \in Ports, End(p) PROVE TypeOK'
    BY <1>5 DEF End, ring, history
  <1>6. ASSUME NEW p \in Ports, Available(p) PROVE TypeOK'
    <2>1. answer' \in Answers
      <3>1. Used(p) \in Nat
        BY UsedType, RxSizeType
      <3>2. answer' = Promise(p, Used(p))
        BY <1>6 DEF Available
      <3> QED
        BY <3>1, <3>2 DEF Promise, Nothing, Answers
    <2> QED
      BY <1>6, <2>1 DEF Available, hw, ring
  <1>7. ASSUME NEW p \in Ports, ReadCheck(p) \/ PeekCheck(p) PROVE TypeOK'
    <2>1. pc' \in CallStates
      BY <1>7 DEF ReadCheck, PeekCheck, Check, CallStates
    <2> QED
      BY <1>7, <2>1 DEF ReadCheck, PeekCheck, Check, hw, ring, history
  <1>8. ASSUME NEW p \in Ports, PeekLoad(p) PROVE TypeOK'
    <2>1. rxbuf[p][tail[p]] \in Nat
      OBVIOUS
    <2>2. answer' \in Answers /\ pc' \in CallStates
      BY <1>8, <2>1 DEF PeekLoad, Peeked, Answers, CallStates
    <2> QED
      BY <1>8, <2>2 DEF PeekLoad, hw, ring
  <1>9. ASSUME NEW p \in Ports, ReadLoad(p) PROVE TypeOK'
    <2>1. rxbuf[p][tail[p]] \in Nat
      OBVIOUS
    <2>2. pc' \in CallStates
      BY <1>9, <2>1 DEF ReadLoad, CallStates
    <2> QED
      BY <1>9, <2>2 DEF ReadLoad, hw, ring, history
  <1>10. ASSUME NEW p \in Ports, ReadAdvance(p) PROVE TypeOK'
    <2>1. tail' \in [Ports -> Slots]
      BY <1>10, AdvanceType, RxSizeType DEF ReadAdvance
    <2>2. pc.c \in Nat
      BY <1>10 DEF ReadAdvance, CallStates
    <2>3. delivered' \in [Ports -> Seq(Nat)] /\ pc' \in CallStates
      BY <1>10, <2>2 DEF ReadAdvance, CallStates
    <2>4. answer' \in Answers
      <3>1. CASE ~(answer.call \in {"available", "peek"} /\ answer.port = p)
        BY <1>10, <3>1 DEF ReadAdvance, AfterRead
      <3>2. CASE answer.call = "available" /\ answer.port = p
        <4>1. answer.n \in Nat \ {0}
          BY <3>2 DEF Answers, Nothing
        <4>2. answer' = Promise(p, answer.n - 1)
          BY <1>10, <3>2 DEF ReadAdvance, AfterRead
        <4>3. PICK m \in Nat : m = answer.n - 1
          BY <4>1
        <4> QED
          BY <4>2, <4>3 DEF Promise, Nothing, Answers
      <3>3. CASE answer.call = "peek" /\ answer.port = p
        BY <1>10, <3>3 DEF ReadAdvance, AfterRead, Nothing, Answers
      <3> QED
        BY <3>1, <3>2, <3>3
    <2> QED
      BY <1>10, <2>1, <2>3, <2>4 DEF ReadAdvance, hw
  <1>11. CASE UNCHANGED vars
    BY <1>11 DEF vars, hw, ring, history
  <1> QED
    BY <1>1, <1>2, <1>3, <1>4, <1>5, <1>6, <1>7, <1>8, <1>9, <1>10, <1>11 DEF Next

-----------------------------------------------------------------------------
(* The rest of the invariant. *)
Safe == RingHoldsAccepted /\ CallsUnderway /\ PromiseKept /\ PeekIsNextRead

LEMMA SafeInit == Init => Safe
  <1> SUFFICES ASSUME Init PROVE Safe
    OBVIOUS
  <1>1. 0 \in Slots /\ Distance(0, 0) = 0
    BY RxSizeType, DistanceType DEF Slots
  <1>2. ASSUME NEW p \in Ports
        PROVE  Holds(rxbuf[p], head[p], tail[p], accepted[p], delivered[p])
    <2>1. /\ Distance(tail[p], head[p]) = 0
          /\ accepted[p] = << >> /\ delivered[p] = << >>
      BY <1>1 DEF Init
    <2>2. 0 .. 0 - 1 = {} /\ 1 .. 0 = {} /\ Len(<< >>) = 0
      OBVIOUS
    <2> QED
      BY <2>1, <2>2 DEF Holds
  <1> QED
    BY <1>2, PortByPort DEF Init, Safe, CallsUnderway, PromiseKept, PeekIsNextRead, Nothing

(* An interrupt leaves what the task has seen: on every port the content   *)
(* only grows, and the byte at tail stays.                                 *)
LEMMA IsrKeepsPort ==
  ASSUME TypeOK, RingHoldsAccepted, Isr, NEW p \in Ports
  PROVE  /\ Holds(rxbuf'[p], head'[p], tail[p], accepted'[p], delivered[p])
         /\ Used(p) <= Distance(tail[p], head'[p])
         /\ ~Empty(p) => /\ head'[p] # tail[p]
                         /\ rxbuf'[p][tail[p]] = rxbuf[p][tail[p]]
  <1>1. Holds(rxbuf[p], head[p], tail[p], accepted[p], delivered[p])
    BY PortByPort
  <1>2. /\ Used(p) \in 0 .. RxSize - 1 /\ Used(p) = Distance(tail[p], head[p])
        /\ Empty(p) <=> Used(p) = 0
    BY UsedType DEF Used
  <1>3. CASE Untouched(p)
    BY <1>1, <1>2, <1>3 DEF Untouched, Empty
  <1>4. CASE Serviced(p)
    <2> DEFINE k == Stored(p)
    <2>1. /\ k \in Nat /\ k <= Len(fifo[p]) /\ Used(p) + k < RxSize
      BY ServedPort
    <2>2. /\ tail[p] \in Slots /\ head[p] \in Slots /\ fifo[p] \in Seq(Nat)
          /\ accepted[p] \in Seq(Nat) /\ delivered[p] \in Seq(Nat)
          /\ rxbuf[p] \in [Slots -> Nat] /\ Filled(p) \in [Slots -> Nat]
      BY ServicedTypes DEF TypeOK
    <2>3. Fills(Filled(p), rxbuf[p], head[p], fifo[p], k)
      BY DEF Filled, Fills
    <2> HIDE DEF k
    <2>4. /\ Holds(Filled(p), Advance(head[p], k), tail[p],
                   accepted[p] \o SubSeq(fifo[p], 1, k), delivered[p])
          /\ Distance(tail[p], Advance(head[p], k)) = Used(p) + k
          /\ \A i \in 0 .. Used(p) - 1 :
               Filled(p)[Advance(tail[p], i)] = rxbuf[p][Advance(tail[p], i)]
      <3>1. PICK t, h, acc, del, f, buf, new, n :
              /\ t = tail[p] /\ h = head[p] /\ acc = accepted[p]
              /\ del = delivered[p] /\ f = fifo[p] /\ buf = rxbuf[p]
              /\ new = Filled(p) /\ n = k
        OBVIOUS
      <3>2. /\ t \in Slots /\ h \in Slots /\ f \in Seq(Nat)
            /\ acc \in Seq(Nat) /\ del \in Seq(Nat)
            /\ buf \in [Slots -> Nat] /\ new \in [Slots -> Nat]
        BY <2>2, <3>1
      <3>3. /\ n \in Nat /\ n <= Len(f) /\ Distance(t, h) + n < RxSize
            /\ Holds(buf, h, t, acc, del)
            /\ Fills(new, buf, h, f, n)
        BY <1>1, <1>2, <2>1, <2>3, <3>1
      <3>4. /\ Holds(new, Advance(h, n), t, acc \o SubSeq(f, 1, n), del)
            /\ Extends(new, buf, h, t, f, n)
        BY <3>2, <3>3, StoringKeepsRing, Zenon
      <3> QED
        BY <1>2, <3>1, <3>4 DEF Extends
    <2>5. /\ rxbuf'[p] = Filled(p) /\ head'[p] = Advance(head[p], k)
          /\ accepted'[p] = accepted[p] \o SubSeq(fifo[p], 1, k)
      BY <1>4 DEF Serviced, k
    <2>6. ASSUME ~Empty(p)
          PROVE  head'[p] # tail[p] /\ rxbuf'[p][tail[p]] = rxbuf[p][tail[p]]
      <3>1. Distance(tail[p], head'[p]) > 0
        BY <1>2, <2>1, <2>4, <2>5, <2>6
      <3>2. Distance(tail[p], tail[p]) = 0
        BY <2>2, DistanceType
      <3>3. 0 \in 0 .. Used(p) - 1 /\ Advance(tail[p], 0) = tail[p]
        BY <1>2, <2>2, <2>6, TailItself, RxSizeType
      <3> QED
        BY <2>4, <2>5, <3>1, <3>2, <3>3
    <2> QED
      BY <1>2, <2>1, <2>4, <2>5, <2>6
  <1> QED
    BY <1>3, <1>4, IsrByPort

LEMMA SafeIsr ==
  ASSUME TypeOK, Safe, Isr
  PROVE  Safe'
  <1> USE DEF Safe
  <1>1. tail' = tail /\ delivered' = delivered /\ pc' = pc /\ answer' = answer
    BY DEF Isr
  <1>2. RingHoldsAccepted'
    BY <1>1, IsrKeepsPort, PortByPort DEF RingHoldsAccepted, Holds, Used
  <1>3. CallsUnderway'
    BY <1>1, IsrKeepsPort DEF CallsUnderway, Empty, TypeOK, CallStates
  <1>4. PromiseKept'
    <2>1. CASE answer.call = "available"
      <3>1. answer.port \in Ports /\ answer.n \in Nat /\ answer.n <= Used(answer.port)
        BY <2>1 DEF TypeOK, Answers, Nothing, PromiseKept
      <3>2. /\ Used(answer.port) <= Used(answer.port)'
            /\ Used(answer.port) \in Nat /\ Used(answer.port)' \in Nat
        <4>1. TypeOK'
          BY TypeStep DEF Next
        <4>2. head[answer.port] \in Slots /\ tail[answer.port] \in Slots
              /\ head'[answer.port] \in Slots
          BY <3>1, <4>1 DEF TypeOK
        <4>3. Used(answer.port) <= Distance(tail[answer.port], head'[answer.port])
          BY <3>1, IsrKeepsPort
        <4> QED
          BY <1>1, <4>2, <4>3, DistanceType, RxSizeType DEF Used, Slots
      <3> QED
        BY <1>1, <3>1, <3>2 DEF PromiseKept
    <2>2. CASE answer.call # "available"
      BY <1>1, <2>2 DEF PromiseKept
    <2> QED
      BY <2>1, <2>2
  <1>5. PeekIsNextRead'
    BY <1>1, IsrKeepsPort DEF PeekIsNextRead, Empty, TypeOK, Answers, Nothing
  <1> QED
    BY <1>2, <1>3, <1>4, <1>5

(* Steps that leave the ring and the call alone. *)
LEMMA SafeQuiet ==
  ASSUME Safe, UNCHANGED <<ring, pc, history>>
  PROVE  Safe'
  BY DEF Safe, RingHoldsAccepted, CallsUnderway, PromiseKept, PeekIsNextRead,
         Used, Empty, ring, history

LEMMA SafeAvailable ==
  ASSUME TypeOK, Safe, NEW p \in Ports, Available(p)
  PROVE  Safe'
  <1>1. UNCHANGED <<ring, pc, accepted, delivered>> /\ answer' = Promise(p, Used(p))
    BY DEF Available
  <1>2. (RingHoldsAccepted /\ CallsUnderway)'
    BY <1>1 DEF Safe, RingHoldsAccepted, CallsUnderway, Used, Empty, ring
  <1>3. (PromiseKept /\ PeekIsNextRead)'
    BY <1>1, UsedType DEF PromiseKept, PeekIsNextRead, Promise, Nothing, Used, ring
  <1> QED
    BY <1>2, <1>3 DEF Safe

(* The checks and the loads of read() and peek(). *)
LEMMA SafeCheckAndLoad ==
  ASSUME TypeOK, Safe, NEW p \in Ports,
         ReadCheck(p) \/ PeekCheck(p) \/ ReadLoad(p) \/ PeekLoad(p)
  PROVE  Safe'
  <1> USE DEF Safe
  <1>1. UNCHANGED <<ring, accepted, delivered>>
    BY DEF ReadCheck, PeekCheck, Check, ReadLoad, PeekLoad, history
  <1>2. RingHoldsAccepted'
    BY <1>1 DEF RingHoldsAccepted, Used, ring
  <1>3. CASE ReadCheck(p) \/ PeekCheck(p)
    BY <1>1, <1>2, <1>3 DEF ReadCheck, PeekCheck, Check, CallsUnderway, PromiseKept,
                       PeekIsNextRead, Used, Empty, ring, history
  <1>4. CASE ReadLoad(p)
    BY <1>1, <1>2, <1>4 DEF ReadLoad, CallsUnderway, PromiseKept,
                       PeekIsNextRead, Used, Empty, ring, history
  <1>5. CASE PeekLoad(p)
    BY <1>1, <1>2, <1>5 DEF PeekLoad, Peeked, CallsUnderway, PromiseKept,
                       PeekIsNextRead, Used, Empty, ring
  <1> QED
    BY <1>3, <1>4, <1>5

(* The store of tail. *)
LEMMA SafeReadAdvance ==
  ASSUME TypeOK, Safe, NEW p \in Ports, ReadAdvance(p)
  PROVE  Safe'
  <1> USE DEF Safe
  <1>1. /\ pc.at = "read.advance" /\ pc.port = p /\ pc' = [at |-> "loop"]
        /\ tail' = [tail EXCEPT ![p] = Advance(@, 1)]
        /\ delivered' = [delivered EXCEPT ![p] = Append(@, pc.c)]
        /\ answer' = AfterRead(p)
        /\ rxbuf' = rxbuf /\ head' = head /\ accepted' = accepted
    BY DEF ReadAdvance
  <1>2. /\ ~Empty(p) /\ pc.c = rxbuf[p][tail[p]]
        /\ Holds(rxbuf[p], head[p], tail[p], accepted[p], delivered[p])
    BY <1>1, PortByPort DEF CallsUnderway
  <1>3. /\ Holds(rxbuf'[p], head'[p], tail'[p], accepted'[p], delivered'[p])
        /\ Used(p)' = Used(p) - 1
    <2>1. /\ tail'[p] = Advance(tail[p], 1)
          /\ delivered'[p] = Append(delivered[p], rxbuf[p][tail[p]])
      BY <1>1, <1>2 DEF TypeOK
    <2>2. /\ tail[p] \in Slots /\ head[p] \in Slots /\ tail[p] # head[p]
          /\ rxbuf[p] \in [Slots -> Nat]
          /\ accepted[p] \in Seq(Nat) /\ delivered[p] \in Seq(Nat)
      BY <1>2 DEF TypeOK, Empty
    <2> QED
      <3>1. PICK t, h, buf, acc, del :
              /\ t = tail[p] /\ h = head[p] /\ buf = rxbuf[p]
              /\ acc = accepted[p] /\ del = delivered[p]
        OBVIOUS
      <3>2. /\ t \in Slots /\ h \in Slots /\ t # h /\ buf \in [Slots -> Nat]
            /\ acc \in Seq(Nat) /\ del \in Seq(Nat)
            /\ Holds(buf, h, t, acc, del)
        BY <1>2, <2>2, <3>1
      <3>3. /\ Holds(buf, h, Advance(t, 1), acc, Append(del, buf[t]))
            /\ Distance(Advance(t, 1), h) = Distance(t, h) - 1
        BY <3>2, ReadingKeepsRing
      <3> QED
        BY <1>1, <2>1, <3>1, <3>3 DEF Used
  <1>4. ASSUME NEW q \in Ports, q # p
        PROVE  tail'[q] = tail[q] /\ delivered'[q] = delivered[q] /\ Used(q)' = Used(q)
    BY <1>1, <1>4 DEF TypeOK, Used
  <1>5. RingHoldsAccepted'
    <2>1. \A q \in Ports :
            Holds(rxbuf'[q], head'[q], tail'[q], accepted'[q], delivered'[q])
      BY <1>1, <1>3, <1>4, PortByPort
    <2> QED
      BY <2>1 DEF RingHoldsAccepted, Holds, Used
  <1>6. CallsUnderway'
    BY <1>1 DEF CallsUnderway
  <1>7. PromiseKept'
    <2>1. CASE answer.call = "available" /\ answer.port = p
      <3>1. /\ answer.n \in Nat \ {0} /\ answer.n <= Used(p)
            /\ answer' = Promise(p, answer.n - 1)
        BY <1>1, <2>1 DEF AfterRead, TypeOK, Answers, Nothing, PromiseKept
      <3>2. Used(p) \in Nat /\ answer.n - 1 <= Used(p)'
        BY <1>3, <3>1, UsedType, RxSizeType
      <3> QED
        BY <3>1, <3>2 DEF Promise, Nothing, PromiseKept
    <2>2. CASE answer.call = "peek" /\ answer.port = p
      BY <1>1, <2>2 DEF AfterRead, Nothing, PromiseKept
    <2>3. CASE ~(answer.call \in {"available", "peek"} /\ answer.port = p)
      <3>1. answer' = answer
        BY <1>1, <2>3 DEF AfterRead
      <3> QED
        BY <1>4, <2>3, <3>1 DEF PromiseKept, TypeOK, Answers, Nothing
    <2> QED
      BY <2>1, <2>2, <2>3
  <1>8. PeekIsNextRead'
    <2>1. CASE answer.call \in {"available", "peek"} /\ answer.port = p
      <3>1. answer'.call # "peek"
        BY <1>1, <2>1 DEF AfterRead, Promise, Nothing
      <3> QED
        BY <3>1 DEF PeekIsNextRead
    <2>2. CASE ~(answer.call \in {"available", "peek"} /\ answer.port = p)
      <3>1. answer' = answer
        BY <1>1, <2>2 DEF AfterRead
      <3> QED
        BY <1>1, <1>4, <2>2, <3>1 DEF PeekIsNextRead, Empty, TypeOK, Answers, Nothing
    <2> QED
      BY <2>1, <2>2
  <1> QED
    BY <1>5, <1>6, <1>7, <1>8

-----------------------------------------------------------------------------
(* The safety theorems. *)
LEMMA Invariance == Spec => [](TypeOK /\ Safe)
  <1>1. Init => TypeOK /\ Safe
    BY TypeInit, SafeInit
  <1>2. TypeOK /\ Safe /\ [Next]_vars => (TypeOK /\ Safe)'
    <2> SUFFICES ASSUME TypeOK, Safe, [Next]_vars PROVE Safe'
      BY TypeStep
    <2>1. CASE Isr
      BY <2>1, SafeIsr
    <2>2. ASSUME NEW p \in Ports, Arrive(p) \/ Idle(p) \/ Begin(p) \/ End(p)
          PROVE  Safe'
      BY <2>2, SafeQuiet DEF Arrive, Idle, Begin, End
    <2>3. ASSUME NEW p \in Ports, Available(p)
          PROVE  Safe'
      BY <2>3, SafeAvailable
    <2>4. ASSUME NEW p \in Ports,
                 ReadCheck(p) \/ PeekCheck(p) \/ ReadLoad(p) \/ PeekLoad(p)
          PROVE  Safe'
      BY <2>4, SafeCheckAndLoad
    <2>5. ASSUME NEW p \in Ports, ReadAdvance(p)
          PROVE  Safe'
      BY <2>5, SafeReadAdvance
    <2>6. CASE UNCHANGED vars
      BY <2>6, SafeQuiet DEF vars
    <2> QED
      BY <2>1, <2>2, <2>3, <2>4, <2>5, <2>6 DEF Next
  <1> QED
    BY <1>1, <1>2, PTL DEF Spec

(* The cursors never leave the ring and every variable keeps its type. *)
THEOREM TypeCorrect == Spec => []TypeOK
  BY Invariance, PTL

(* The ring is exactly the accepted bytes that read() has not returned.   *)
THEOREM RingCorrect == Spec => []RingHoldsAccepted
  <1>1. Safe => RingHoldsAccepted
    BY DEF Safe
  <1> QED
    BY <1>1, Invariance, PTL

(* An interrupt never invalidates what a call in progress has checked.    *)
THEOREM CallsCorrect == Spec => []CallsUnderway
  <1>1. Safe => CallsUnderway
    BY DEF Safe
  <1> QED
    BY <1>1, Invariance, PTL

(* available() never promises a byte that read() does not deliver.        *)
THEOREM AvailableCorrect == Spec => []PromiseKept
  <1>1. Safe => PromiseKept
    BY DEF Safe
  <1> QED
    BY <1>1, Invariance, PTL

(* peek() shows the byte that the next read() returns.                     *)
THEOREM PeekCorrect == Spec => []PeekIsNextRead
  <1>1. Safe => PeekIsNextRead
    BY DEF Safe
  <1> QED
    BY <1>1, Invariance, PTL

-----------------------------------------------------------------------------
(* The receive path implements the stream of ByteStream.  The refinement   *)
(* needs one more invariant: the waiting bytes are in the order of the     *)
(* line, so that dropping some of them leaves a subsequence.               *)
InOrder ==
    \A p \in Ports :
        /\ Stream!Increasing(Waiting(p))
        /\ \A i \in DOMAIN Waiting(p) : Waiting(p)[i] <= arrived[p]

(* w is the content of a ring followed by a FIFO. *)
Concatenates(w, buf, t, u, f) ==
    /\ w \in Seq(Nat) /\ Len(w) = u + Len(f)
    /\ \A i \in 1 .. u : w[i] = buf[Advance(t, i - 1)]
    /\ \A i \in 1 .. Len(f) : w[u + i] = f[i]

LEMMA Concatenation ==
  ASSUME NEW buf \in [Slots -> Nat], NEW t \in Slots, NEW f \in Seq(Nat),
         NEW u \in 0 .. RxSize - 1
  PROVE  Concatenates([i \in 1 .. u |-> buf[Advance(t, i - 1)]] \o f, buf, t, u, f)
  <1>1. PICK r : r = [i \in 1 .. u |-> buf[Advance(t, i - 1)]]
    OBVIOUS
  <1>2. ASSUME NEW i \in 1 .. u
        PROVE  buf[Advance(t, i - 1)] \in Nat
    <2>1. i - 1 \in 0 .. RxSize
      BY RxSizeType
    <2> QED
      BY <2>1, AdvanceType
  <1>3. u \in Nat
    BY RxSizeType
  <1>4. /\ r \in Seq(Nat) /\ Len(r) = u
        /\ \A i \in 1 .. u : r[i] = buf[Advance(t, i - 1)]
    BY <1>1, <1>2, <1>3
  <1>5. PICK s : s = r \o f
    OBVIOUS
  <1>6. s \in Seq(Nat) /\ Len(s) = u + Len(f)
    BY <1>4, <1>5, ConcatProperties
  <1>7. \A i \in 1 .. u : s[i] = r[i]
    BY <1>3, <1>4, <1>5
  <1>8. \A i \in 1 .. Len(f) : s[u + i] = f[i]
    BY <1>3, <1>4, <1>5
  <1> QED
    BY <1>1, <1>4, <1>5, <1>6, <1>7, <1>8 DEF Concatenates

LEMMA WaitingConcatenates ==
  ASSUME TypeOK, NEW p \in Ports
  PROVE  Concatenates(Waiting(p), rxbuf[p], tail[p], Used(p), fifo[p])
  BY Concatenation, UsedType DEF TypeOK, Waiting, InRing

LEMMA NextWaitingConcatenates ==
  ASSUME TypeOK', NEW p \in Ports
  PROVE  Concatenates(Waiting(p)', rxbuf'[p], tail'[p], Used(p)', fifo'[p])
  <1>1. /\ head'[p] \in Slots /\ tail'[p] \in Slots /\ fifo'[p] \in Seq(Nat)
        /\ rxbuf'[p] \in [Slots -> Nat]
    BY DEF TypeOK
  <1>2. Used(p)' \in 0 .. RxSize - 1
    BY <1>1, DistanceType DEF Used, Slots
  <1> QED
    BY <1>1, <1>2, Concatenation DEF Waiting, InRing

(* v is w without the g elements behind its first m, and less a tail. *)
LeavesOut(w, v, m, g) ==
    /\ v \in Seq(Nat) /\ m \in Nat /\ g \in Nat
    /\ Len(v) + g <= Len(w)
    /\ \A i \in 1 .. Len(v) : v[i] = IF i <= m THEN w[i] ELSE w[i + g]

LEMMA LeavingOut ==
  ASSUME NEW w \in Seq(Nat), NEW v, NEW m, NEW g, NEW b \in Nat,
         Stream!Increasing(w), \A i \in DOMAIN w : w[i] <= b,
         LeavesOut(w, v, m, g)
  PROVE  /\ Stream!Increasing(v)
         /\ Stream!Elements(v) \subseteq Stream!Elements(w)
         /\ \A i \in DOMAIN v : v[i] <= b
  <1> DEFINE at(i) == IF i <= m THEN i ELSE i + g
  <1>1. ASSUME NEW i \in 1 .. Len(v)
        PROVE  at(i) \in 1 .. Len(w) /\ v[i] = w[at(i)]
    BY DEF LeavesOut
  <1>2. ASSUME NEW i \in 1 .. Len(v), NEW j \in 1 .. Len(v), i < j
        PROVE  at(i) < at(j)
    BY <1>2 DEF LeavesOut
  <1>3. DOMAIN v = 1 .. Len(v) /\ DOMAIN w = 1 .. Len(w)
    BY DEF LeavesOut
  <1> HIDE DEF at
  <1>4. Stream!Increasing(v)
    BY <1>1, <1>2, <1>3 DEF Stream!Increasing
  <1>5. Stream!Elements(v) \subseteq Stream!Elements(w)
    BY <1>1, <1>3 DEF Stream!Elements
  <1>6. \A i \in DOMAIN v : v[i] <= b
    BY <1>1, <1>3
  <1> QED
    BY <1>4, <1>5, <1>6

-----------------------------------------------------------------------------
(* How each step changes the bytes that wait on a port.  The handler keeps *)
(* all of them but the one that met a full ring.                           *)
LEMMA WaitingServiced ==
  ASSUME TypeOK, RingHoldsAccepted, NEW p \in Ports, TypeOK', Serviced(p), tail' = tail
  PROVE  LeavesOut(Waiting(p), Waiting(p)', Used(p) + Stored(p), Taken(p) - Stored(p))
  <1>1. PICK w, f, f2, u, k, n, buf, buf2, t :
          /\ w = Waiting(p) /\ f = fifo[p] /\ f2 = fifo'[p] /\ u = Used(p)
          /\ k = Stored(p) /\ n = Taken(p)
          /\ buf = rxbuf[p] /\ buf2 = rxbuf'[p] /\ t = tail[p]
    OBVIOUS
  <1>2. PICK v : v = Waiting(p)'
    OBVIOUS
  <1>3. /\ f \in Seq(Nat) /\ t \in Slots /\ f2 \in Seq(Nat) /\ tail'[p] = t
        /\ u \in Nat /\ k \in Nat /\ n \in 0 .. Len(f) /\ k <= Len(f)
        /\ u + k < RxSize
    <2>1. /\ u \in 0 .. RxSize - 1 /\ k \in 0 .. RxSize - 1 /\ n \in 0 .. Len(f)
          /\ k <= Len(f) /\ u + k < RxSize
      BY <1>1, UsedType, ServedPort
    <2>2. f \in Seq(Nat) /\ t \in Slots /\ f2 \in Seq(Nat) /\ tail'[p] = t
      BY <1>1 DEF TypeOK
    <2> QED
      BY <2>1, <2>2, RxSizeType
  <1>4. k <= n /\ n - k \in Nat
    <2>1. Len(f) \in Nat /\ Room(p) \in Nat
      BY <1>1, <1>3, RxSizeType DEF Room
    <2>2. k = SmallestOf(Len(f), Room(p)) /\ n = SmallestOf(Len(f), Room(p) + 1)
      BY <1>1 DEF Stored, Taken
    <2> QED
      BY <2>1, <2>2 DEF SmallestOf
  <1>5. f2 = SubSeq(f, n + 1, Len(f))
    BY <1>1 DEF Serviced, Rest
  <1>6. Len(f2) = Len(f) - n /\ \A i \in 1 .. Len(f2) : f2[i] = f[n + i]
    BY <1>3, <1>5
  <1>7. Concatenates(w, buf, t, u, f)
    BY <1>1, WaitingConcatenates
  <1>8. /\ Used(p)' = u + k
        /\ \A i \in 0 .. u - 1 : buf2[Advance(t, i)] = buf[Advance(t, i)]
        /\ \A i \in u .. u + k - 1 : buf2[Advance(t, i)] = f[i - u + 1]
    <2>1. PICK h, acc, del : h = head[p] /\ acc = accepted[p] /\ del = delivered[p]
      OBVIOUS
    <2>2. /\ h \in Slots /\ acc \in Seq(Nat) /\ del \in Seq(Nat)
          /\ buf \in [Slots -> Nat] /\ buf2 \in [Slots -> Nat]
      BY <1>1, <2>1 DEF TypeOK
    <2>3. Holds(buf, h, t, acc, del) /\ Fills(buf2, buf, h, f, k)
      BY <1>1, <2>1, PortByPort DEF Serviced, Filled, Fills
    <2>4. Distance(t, h) + k < RxSize
      BY <1>1, <1>3, <2>1 DEF Used
    <2>5. Extends(buf2, buf, h, t, f, k)
      BY <1>3, <2>2, <2>3, <2>4, StoringKeepsRing, Zenon
    <2>6. Distance(t, h) = u /\ head'[p] = Advance(h, k)
      BY <1>1, <2>1 DEF Used, Serviced
    <2> QED
      BY <1>3, <2>5, <2>6 DEF Extends, Used
  <1>9. Concatenates(v, buf2, t, u + k, f2)
    BY <1>1, <1>2, <1>3, <1>8, NextWaitingConcatenates
  <1>10. /\ v \in Seq(Nat) /\ w \in Seq(Nat) /\ Len(w) = u + Len(f)
         /\ Len(v) = u + k + Len(f2) /\ Len(v) + (n - k) = Len(w)
    BY <1>3, <1>4, <1>6, <1>7, <1>9 DEF Concatenates
  <1>11. ASSUME NEW i \in 1 .. Len(v)
         PROVE  v[i] = IF i <= u + k THEN w[i] ELSE w[i + (n - k)]
    <2>1. CASE i <= u
      <3>1. i \in 1 .. u /\ i - 1 \in 0 .. u - 1 /\ i \in 1 .. u + k
        BY <1>3, <2>1
      <3> QED
        BY <1>3, <1>7, <1>8, <1>9, <2>1, <3>1 DEF Concatenates
    <2>2. CASE u < i /\ i <= u + k
      <3>1. /\ i - 1 \in u .. u + k - 1 /\ i \in 1 .. u + k
            /\ i - u \in 1 .. Len(f) /\ (i - 1) - u + 1 = i - u /\ u + (i - u) = i
        BY <1>3, <2>2
      <3>2. v[i] = buf2[Advance(t, i - 1)] /\ w[u + (i - u)] = f[i - u]
        BY <1>7, <1>9, <3>1 DEF Concatenates
      <3> QED
        BY <1>8, <2>2, <3>1, <3>2
    <2>3. CASE u + k < i
      <3>1. PICK j \in Nat : j = i - u - k
        BY <1>3, <2>3
      <3>2. i = (u + k) + j /\ j \in 1 .. Len(f2)
        BY <1>3, <1>10, <2>3, <3>1
      <3>3. n + j \in 1 .. Len(f) /\ u + (n + j) = i + (n - k)
        BY <1>3, <1>6, <3>2
      <3>4. v[(u + k) + j] = f2[j] /\ w[u + (n + j)] = f[n + j]
        BY <1>7, <1>9, <3>2, <3>3 DEF Concatenates
      <3> QED
        BY <1>3, <1>6, <2>3, <3>2, <3>3, <3>4
    <2> QED
      BY <1>3, <2>1, <2>2, <2>3
  <1>12. LeavesOut(w, v, u + k, n - k)
    <2>1. v \in Seq(Nat) /\ u + k \in Nat /\ n - k \in Nat /\ Len(v) + (n - k) <= Len(w)
      BY <1>3, <1>4, <1>10
    <2> QED
      BY <1>11, <2>1 DEF LeavesOut
  <1> QED
    BY <1>1, <1>2, <1>12

(* A byte that finds room joins at the end. *)
LEMMA WaitingArrives ==
  ASSUME TypeOK, NEW p \in Ports, TypeOK', UNCHANGED ring,
         fifo'[p] = Append(fifo[p], arrived[p] + 1)
  PROVE  Waiting(p)' = Append(Waiting(p), arrived[p] + 1)
  <1>1. InRing(p)' = InRing(p)
    BY DEF InRing, Used, ring
  <1>2. PICK r, f, e : r = InRing(p) /\ f = fifo[p] /\ e = arrived[p] + 1
    OBVIOUS
  <1>3. r \in Seq(Nat)
    <2>1. \A i \in 1 .. Used(p) : rxbuf[p][Advance(tail[p], i - 1)] \in Nat
      <3>1. SUFFICES ASSUME NEW i \in 1 .. Used(p)
                     PROVE  rxbuf[p][Advance(tail[p], i - 1)] \in Nat
        OBVIOUS
      <3>2. Used(p) \in 0 .. RxSize - 1 /\ tail[p] \in Slots
        BY UsedType DEF TypeOK
      <3>3. i - 1 \in 0 .. RxSize
        BY <3>2, RxSizeType
      <3> QED
        BY <3>2, <3>3, AdvanceType DEF TypeOK
    <2>2. Used(p) \in Nat
      BY UsedType, RxSizeType
    <2> QED
      BY <1>2, <2>1, <2>2 DEF InRing
  <1>4. f \in Seq(Nat) /\ e \in Nat
    <2>1. fifo[p] \in Seq(Nat)
      BY DEF TypeOK
    <2>2. arrived[p] \in Nat
      BY DEF TypeOK
    <2> QED
      BY <1>2, <2>1, <2>2
  <1>5. r \o Append(f, e) = Append(r \o f, e)
    <2>1. <<e>> \in Seq(Nat)
      BY <1>4
    <2>2. Append(f, e) = f \o <<e>> /\ Append(r \o f, e) = (r \o f) \o <<e>>
      BY <1>3, <1>4, AppendIsConcat, ConcatProperties
    <2> QED
      BY <1>3, <1>4, <2>1, <2>2, ConcatAssociative
  <1> QED
    BY <1>1, <1>2, <1>5 DEF Waiting

(* read() takes the oldest. *)
LEMMA WaitingRead ==
  ASSUME TypeOK, TypeOK', NEW p \in Ports, ~Empty(p),
         tail'[p] = Advance(tail[p], 1), rxbuf' = rxbuf, head' = head, fifo' = fifo
  PROVE  /\ Waiting(p) # << >> /\ Head(Waiting(p)) = rxbuf[p][tail[p]]
         /\ Waiting(p)' = Tail(Waiting(p))
         /\ LeavesOut(Waiting(p), Waiting(p)', 0, 1)
  <1>1. PICK w, f, u, buf, t :
          /\ w = Waiting(p) /\ f = fifo[p] /\ u = Used(p) /\ buf = rxbuf[p] /\ t = tail[p]
    OBVIOUS
  <1>2. PICK v : v = Waiting(p)'
    OBVIOUS
  <1>3. /\ u \in 1 .. RxSize - 1 /\ t \in Slots /\ f \in Seq(Nat)
        /\ head[p] \in Slots /\ t # head[p] /\ u = Distance(t, head[p])
    BY <1>1, UsedType, RxSizeType DEF TypeOK, Empty, Used
  <1>4. /\ Used(p)' = u - 1
        /\ \A i \in 0 .. u - 2 : Advance(Advance(t, 1), i) = Advance(t, i + 1)
    BY <1>1, <1>3, TailMoves DEF Used
  <1>5. Concatenates(w, buf, t, u, f) /\ Concatenates(v, buf, Advance(t, 1), u - 1, f)
    BY <1>1, <1>2, <1>4, WaitingConcatenates, NextWaitingConcatenates
  <1>6. /\ w \in Seq(Nat) /\ v \in Seq(Nat) /\ Len(w) = u + Len(f)
        /\ Len(v) + 1 = Len(w) /\ Len(w) > 0
    BY <1>3, <1>5 DEF Concatenates
  <1>7. ASSUME NEW i \in 1 .. Len(v)
        PROVE  v[i] = w[i + 1]
    <2>1. CASE i <= u - 1
      <3>1. i \in 1 .. u - 1 /\ i - 1 \in 0 .. u - 2 /\ i + 1 \in 1 .. u
        BY <1>3, <2>1
      <3>2. v[i] = buf[Advance(Advance(t, 1), i - 1)] /\ w[i + 1] = buf[Advance(t, (i + 1) - 1)]
        BY <1>5, <3>1 DEF Concatenates
      <3>3. (i - 1) + 1 = (i + 1) - 1
        OBVIOUS
      <3> QED
        BY <1>4, <3>1, <3>2, <3>3
    <2>2. CASE u - 1 < i
      <3>1. PICK j \in Nat : j = i - (u - 1)
        BY <1>3, <2>2
      <3>2. u \in Nat /\ i \in Nat /\ i = (u - 1) + j
        BY <1>3, <3>1, RxSizeType
      <3>3. j \in 1 .. Len(f) /\ u + j = i + 1
        <4>1. PICK m \in Nat, n \in Nat : m = Len(f) /\ n = Len(v)
          BY <1>3, <1>6
        <4>2. n + 1 = u + m /\ i \in 1 .. n
          BY <1>6, <4>1
        <4> QED
          BY <2>2, <3>2, <4>1, <4>2
      <3>4. v[(u - 1) + j] = f[j] /\ w[u + j] = f[j]
        BY <1>5, <3>3 DEF Concatenates
      <3> QED
        BY <3>2, <3>3, <3>4
    <2> QED
      BY <1>3, <2>1, <2>2
  <1>8. w[1] = buf[t]
    <2>1. 1 \in 1 .. u /\ 1 - 1 = 0
      BY <1>3
    <2>2. w[1] = buf[Advance(t, 1 - 1)]
      BY <1>5, <2>1 DEF Concatenates
    <2> QED
      BY <1>3, <2>1, <2>2, TailItself
  <1>9. v = Tail(w)
    <2>1. Tail(w) \in Seq(Nat) /\ Len(Tail(w)) = Len(v)
      BY <1>6
    <2>2. \A i \in 1 .. Len(v) : Tail(w)[i] = v[i]
      BY <1>6, <1>7
    <2> QED
      BY <1>6, <2>1, <2>2, SeqEqual
  <1>10. LeavesOut(w, v, 0, 1)
    BY <1>6, <1>7 DEF LeavesOut
  <1> QED
    BY <1>1, <1>2, <1>6, <1>8, <1>9, <1>10

-----------------------------------------------------------------------------
(* One step of the port: the waiting bytes stay in order, and the step is  *)
(* one of the stream's or a stutter.                                       *)
Ordered(p) ==
    /\ Stream!Increasing(Waiting(p))
    /\ \A i \in DOMAIN Waiting(p) : Waiting(p)[i] <= arrived[p]

LEMMA OrderByPort == InOrder <=> \A p \in Ports : Ordered(p)
  BY DEF InOrder, Ordered

LEMMA DroppingKeepsOrder ==
  ASSUME TypeOK, NEW p \in Ports, Ordered(p), NEW m, NEW g,
         LeavesOut(Waiting(p), Waiting(p)', m, g), arrived' = arrived
  PROVE  /\ Ordered(p)'
         /\ Stream!Increasing(Waiting(p)')
         /\ Stream!Elements(Waiting(p)') \subseteq Stream!Elements(Waiting(p))
  <1>1. PICK w, v, b : w = Waiting(p) /\ v = Waiting(p)' /\ b = arrived[p]
    OBVIOUS
  <1>2. w \in Seq(Nat) /\ b \in Nat
    BY <1>1, WaitingConcatenates DEF Concatenates, TypeOK
  <1>3. /\ Stream!Increasing(w) /\ \A i \in DOMAIN w : w[i] <= b
        /\ LeavesOut(w, v, m, g)
    BY <1>1 DEF Ordered
  <1>4. /\ Stream!Increasing(v) /\ \A i \in DOMAIN v : v[i] <= b
        /\ Stream!Elements(v) \subseteq Stream!Elements(w)
    BY <1>2, <1>3, LeavingOut
  <1> QED
    BY <1>1, <1>4 DEF Ordered

LEMMA SameWaiting ==
  ASSUME TypeOK, NEW p \in Ports, Waiting(p)' = Waiting(p)
  PROVE  LeavesOut(Waiting(p), Waiting(p)', 0, 0)
  BY WaitingConcatenates DEF LeavesOut, Concatenates

(* A step that drops, on every port, some waiting bytes or none. *)
LEMMA DropStep ==
  ASSUME TypeOK, InOrder, UNCHANGED <<arrived, delivered>>,
         \A p \in Ports : \E m, g : LeavesOut(Waiting(p), Waiting(p)', m, g)
  PROVE  InOrder' /\ Stream!Drop
  <1>1. ASSUME NEW p \in Ports
        PROVE  /\ Ordered(p)'
               /\ Stream!Increasing(Waiting(p)')
               /\ Stream!Elements(Waiting(p)') \subseteq Stream!Elements(Waiting(p))
    <2>1. PICK m, g : LeavesOut(Waiting(p), Waiting(p)', m, g)
      OBVIOUS
    <2> QED
      BY <2>1, OrderByPort, DroppingKeepsOrder
  <1>2. InOrder'
    BY <1>1 DEF InOrder, Ordered
  <1>3. Stream!Drop
    BY <1>1 DEF Stream!Drop
  <1> QED
    BY <1>2, <1>3

LEMMA StreamStep ==
  ASSUME TypeOK, Safe, InOrder, [Next]_vars, TypeOK'
  PROVE  InOrder' /\ [Stream!Next]_Stream!vars
  <1> USE DEF Stream!Next, Stream!vars
  <1>1. CASE Isr
    <2>1. tail' = tail /\ UNCHANGED <<arrived, delivered>>
      BY <1>1 DEF Isr
    <2>2. ASSUME NEW p \in Ports
          PROVE  \E m, g : LeavesOut(Waiting(p), Waiting(p)', m, g)
      <3>1. CASE Serviced(p)
        BY <2>1, <3>1, WaitingServiced DEF Safe
      <3>2. CASE Untouched(p)
        <4>1. Waiting(p)' = Waiting(p)
          BY <2>1, <3>2 DEF Untouched, Waiting, InRing, Used
        <4> QED
          BY <4>1, SameWaiting
      <3> QED
        BY <1>1, <3>1, <3>2, IsrByPort
    <2> QED
      BY <2>1, <2>2, DropStep
  <1>2. ASSUME NEW p \in Ports, Begin(p)
        PROVE  InOrder' /\ Stream!Next
    <2>1. UNCHANGED <<ring, arrived, delivered>>
      BY <1>2 DEF Begin, history
    <2>2. ASSUME NEW q \in Ports
          PROVE  \E m, g : LeavesOut(Waiting(q), Waiting(q)', m, g)
      <3>1. InRing(q)' = InRing(q)
        BY <2>1 DEF InRing, Used, ring
      <3>2. CASE fifo'[q] = fifo[q]
        BY <3>1, <3>2, SameWaiting DEF Waiting
      <3>3. CASE fifo'[q] = << >>
        <4>1. PICK w, v, u, f : /\ w = Waiting(q) /\ v = Waiting(q)'
                                /\ u = Used(q) /\ f = fifo[q]
          OBVIOUS
        <4>2. /\ Concatenates(w, rxbuf[q], tail[q], u, f) /\ u \in Nat /\ f \in Seq(Nat)
              /\ Concatenates(v, rxbuf[q], tail[q], u, << >>)
          <5>1. Concatenates(w, rxbuf[q], tail[q], u, f)
            BY <4>1, WaitingConcatenates
          <5>2. u \in Nat /\ f \in Seq(Nat)
            <6>1. u \in 0 .. RxSize - 1
              BY <4>1, UsedType
            <6> QED
              BY <4>1, <6>1, RxSizeType DEF TypeOK
          <5>3. rxbuf' = rxbuf /\ tail' = tail /\ Used(q)' = Used(q)
            BY <2>1 DEF ring, Used
          <5>4. Concatenates(v, rxbuf'[q], tail'[q], Used(q)', fifo'[q])
            BY <4>1, NextWaitingConcatenates
          <5> QED
            BY <3>3, <4>1, <5>1, <5>2, <5>3, <5>4
        <4>3. LeavesOut(w, v, u, 0)
          <5>1. /\ v \in Seq(Nat) /\ w \in Seq(Nat) /\ u \in Nat
                /\ Len(v) = u + 0 /\ Len(w) = u + Len(f) /\ Len(f) \in Nat
            BY <4>2 DEF Concatenates
          <5>2. \A i \in 1 .. u : v[i] = w[i]
            BY <4>2 DEF Concatenates
          <5> QED
            BY <5>1, <5>2 DEF LeavesOut
        <4> QED
          BY <4>1, <4>3
      <3> QED
        BY <1>2, <3>2, <3>3 DEF Begin, TypeOK
    <2> QED
      BY <2>1, <2>2, DropStep
  <1>3. ASSUME NEW p \in Ports, Arrive(p)
        PROVE  InOrder' /\ Stream!Next
    <2>1. /\ UNCHANGED ring /\ delivered' = delivered
          /\ arrived' = [arrived EXCEPT ![p] = @ + 1]
          /\ arrived[p] \in Nat /\ arrived'[p] = arrived[p] + 1
          /\ \A q \in Ports \ {p} : arrived'[q] = arrived[q]
      BY <1>3 DEF Arrive, history, TypeOK
    <2>2. /\ \A q \in Ports \ {p} : fifo'[q] = fifo[q]
          /\ fifo'[p] = fifo[p] \/ fifo'[p] = Append(fifo[p], arrived[p] + 1)
      BY <1>3 DEF Arrive, TypeOK
    <2>3. \A q \in Ports : InRing(q)' = InRing(q)
      BY <2>1 DEF InRing, Used, ring
    <2>4. \A q \in Ports \ {p} : Waiting(q)' = Waiting(q) /\ Ordered(q)'
      BY <2>1, <2>2, <2>3, OrderByPort DEF Waiting, Ordered
    <2>5. CASE fifo'[p] = fifo[p]
      <3>1. Waiting(p)' = Waiting(p)
        BY <2>3, <2>5 DEF Waiting
      <3>2. Ordered(p)'
        <4>1. PICK w : w = Waiting(p)
          OBVIOUS
        <4>2. w \in Seq(Nat) /\ \A i \in DOMAIN w : w[i] <= arrived[p]
          BY <4>1, WaitingConcatenates, OrderByPort DEF Concatenates, Ordered
        <4>3. \A i \in DOMAIN w : w[i] <= arrived[p] + 1
          BY <2>1, <4>2
        <4> QED
          BY <2>1, <3>1, <4>1, <4>3, OrderByPort DEF Ordered
      <3>3. [q \in Ports |-> Waiting(q)]' = [q \in Ports |-> Waiting(q)]
        BY <2>4, <3>1
      <3> QED
        BY <2>1, <2>4, <3>2, <3>3, OrderByPort DEF Stream!Receive, InOrder, Ordered
    <2>6. CASE fifo'[p] = Append(fifo[p], arrived[p] + 1)
      <3>1. Waiting(p)' = Append(Waiting(p), arrived[p] + 1)
        BY <2>1, <2>6, WaitingArrives
      <3>2. Ordered(p)'
        <4>1. PICK w, v, n : w = Waiting(p) /\ v = Waiting(p)' /\ n = arrived[p] + 1
          OBVIOUS
        <4>2. /\ w \in Seq(Nat) /\ n \in Nat /\ Stream!Increasing(w)
              /\ \A i \in 1 .. Len(w) : w[i] < n
          BY <2>1, <4>1, WaitingConcatenates, OrderByPort DEF Concatenates, Ordered
        <4>3. /\ Len(v) = Len(w) + 1 /\ v[Len(w) + 1] = n /\ DOMAIN v = 1 .. Len(v)
              /\ \A i \in 1 .. Len(w) : v[i] = w[i]
          BY <3>1, <4>1, <4>2
        <4>4. \A i \in DOMAIN v : i \in 1 .. Len(w) \/ i = Len(w) + 1
          BY <4>2, <4>3
        <4>5. \A i \in DOMAIN v : v[i] <= n
          BY <4>2, <4>3, <4>4
        <4>6. ASSUME NEW i \in DOMAIN v, NEW j \in DOMAIN v, i < j
              PROVE  v[i] < v[j]
          <5>1. i \in 1 .. Len(w)
            BY <4>2, <4>3, <4>4, <4>6
          <5> QED
            BY <4>2, <4>3, <4>4, <4>6, <5>1 DEF Stream!Increasing
        <4> QED
          BY <2>1, <4>1, <4>5, <4>6 DEF Ordered, Stream!Increasing
      <3>3. [q \in Ports |-> Waiting(q)]' =
              [[q \in Ports |-> Waiting(q)] EXCEPT ![p] = Append(@, arrived[p] + 1)]
        BY <2>4, <3>1
      <3> QED
        BY <2>1, <2>4, <3>2, <3>3, OrderByPort DEF Stream!Receive, InOrder, Ordered
    <2> QED
      BY <2>2, <2>5, <2>6
  <1>4. ASSUME NEW p \in Ports, ReadAdvance(p)
        PROVE  InOrder' /\ Stream!Next
    <2>1. /\ tail' = [tail EXCEPT ![p] = Advance(@, 1)]
          /\ delivered' = [delivered EXCEPT ![p] = Append(@, pc.c)]
          /\ rxbuf' = rxbuf /\ head' = head /\ fifo' = fifo /\ arrived' = arrived
      BY <1>4 DEF ReadAdvance, hw
    <2>2. ~Empty(p) /\ pc.c = rxbuf[p][tail[p]]
      BY <1>4 DEF ReadAdvance, Safe, CallsUnderway
    <2>3. /\ tail'[p] = Advance(tail[p], 1)
          /\ \A q \in Ports \ {p} : tail'[q] = tail[q]
      BY <2>1 DEF TypeOK
    <2>4. /\ Waiting(p) # << >> /\ Head(Waiting(p)) = pc.c
          /\ Waiting(p)' = Tail(Waiting(p))
          /\ LeavesOut(Waiting(p), Waiting(p)', 0, 1)
      BY <2>1, <2>2, <2>3, WaitingRead
    <2>5. ASSUME NEW q \in Ports \ {p}
          PROVE  Waiting(q)' = Waiting(q)
      <3>1. tail'[q] = tail[q] /\ Used(q)' = Used(q)
        BY <2>1, <2>3 DEF Used
      <3>2. InRing(q)' = InRing(q)
        BY <2>1, <3>1 DEF InRing
      <3> QED
        BY <2>1, <3>2 DEF Waiting
    <2>6. \A q \in Ports \ {p} : Ordered(q)'
      BY <2>1, <2>5, OrderByPort DEF Ordered
    <2>7. Ordered(p)'
      BY <2>1, <2>4, OrderByPort, DroppingKeepsOrder
    <2>8. [q \in Ports |-> Waiting(q)]' =
            [[q \in Ports |-> Waiting(q)] EXCEPT ![p] = Tail(@)]
      BY <2>4, <2>5
    <2>9. Stream!Deliver(p)
      BY <2>1, <2>4, <2>8 DEF Stream!Deliver
    <2> QED
      BY <2>6, <2>7, <2>9 DEF InOrder, Ordered
  <1>5. ASSUME UNCHANGED <<fifo, ring, arrived, delivered>>
        PROVE  InOrder' /\ UNCHANGED Stream!vars
    <2>1. \A p \in Ports : Waiting(p)' = Waiting(p)
      BY <1>5 DEF Waiting, InRing, Used, ring
    <2> QED
      BY <1>5, <2>1 DEF InOrder
  <1>6. ASSUME NEW p \in Ports,
               \/ Idle(p) \/ End(p) \/ Available(p)
               \/ ReadCheck(p) \/ ReadLoad(p) \/ PeekCheck(p) \/ PeekLoad(p)
        PROVE  InOrder' /\ UNCHANGED Stream!vars
    BY <1>5, <1>6 DEF Idle, End, Available, ReadCheck, ReadLoad, PeekCheck, PeekLoad,
                     Check, hw, history
  <1>7. CASE UNCHANGED vars
    BY <1>5, <1>7 DEF vars, hw, history
  <1> QED
    BY <1>1, <1>2, <1>3, <1>4, <1>6, <1>7 DEF Next

LEMMA StreamInit == Init => InOrder /\ Stream!Init
  <1> SUFFICES ASSUME Init PROVE InOrder /\ Stream!Init
    OBVIOUS
  <1>1. ASSUME NEW p \in Ports
        PROVE  Waiting(p) = << >>
    <2>1. Used(p) = 0 /\ fifo[p] = << >>
      BY DistanceType, RxSizeType DEF Init, Used, Slots
    <2>2. InRing(p) = << >>
      BY <2>1 DEF InRing
    <2> QED
      BY <2>1, <2>2 DEF Waiting
  <1> QED
    BY <1>1 DEF Init, InOrder, Stream!Init, Stream!Increasing

(* The detailed receive path implements the stream.                        *)
THEOREM StreamImplemented == Spec => ImplementsStream
  <1>1. Init => InOrder /\ Stream!Init
    BY StreamInit
  <1>2. TypeOK /\ Safe /\ InOrder /\ [Next]_vars /\ TypeOK'
          => InOrder' /\ [Stream!Next]_Stream!vars
    BY StreamStep
  <1> QED
    BY <1>1, <1>2, Invariance, PTL DEF Spec, ImplementsStream, Stream!Spec
-----------------------------------------------------------------------------
(* ByteStream may drop bytes at any time; the code does so for a reason.   *)
(* The bytes of the line that reached neither the ring nor the FIFO:       *)
Lost(p) == arrived[p] - Len(accepted[p]) - Len(fifo[p])

(* A byte is lost when it meets a full FIFO; when the handler meets a full *)
(* ring, which loses one byte at a time and leaves the ring full; or when  *)
(* begin() initialises the UART again.  Nothing else loses one: no timing  *)
(* of read(), peek(), end() or the interrupts of the other port.           *)
LosesOnlyWhenFull ==
    \A p \in Ports : Lost(p)' # Lost(p) =>
        \/ Begin(p)
        \/ /\ Lost(p)' = Lost(p) + 1
           /\ \/ Arrive(p) /\ Len(fifo[p]) = FifoDepth
              \/ Isr /\ Used(p)' = RxSize - 1

(* What the UART may still interrupt for: a byte, a latched status, and a  *)
(* time-out that will latch one.                                           *)
Latch(p) == IF latched[p] THEN 1 ELSE 0
Timer(p) == IF timer[p] THEN 2 ELSE 0
Due(p) == Len(fifo[p]) + Latch(p) + Timer(p)

(* Interrupts wind down: each one for a port leaves less to interrupt for, *)
(* though the ring be full, and only a byte that arrives adds to it, three *)
(* at most.  So a port is interrupted for at most three times per byte.    *)
WindsDown ==
    \A p \in Ports :
        /\ Isr /\ Interrupting(p) => Due(p)' < Due(p)
        /\ Due(p)' > Due(p) => Arrive(p) /\ Due(p)' <= Due(p) + 3

LEMMA DueIs ==
  ASSUME TypeOK, NEW p \in Ports
  PROVE  \E m \in Nat, l \in Nat, t \in Nat :
           /\ m = Len(fifo[p]) /\ l = Latch(p) /\ t = Timer(p) /\ Due(p) = m + l + t
           /\ l <= 1 /\ (latched[p] <=> l = 1)
           /\ t <= 2 /\ (timer[p] <=> t = 2)
  <1>1. PICK m \in Nat : m = Len(fifo[p])
    BY DEF TypeOK
  <1>2. PICK l \in Nat : l = Latch(p) /\ l <= 1 /\ (latched[p] <=> l = 1)
    BY DEF Latch
  <1>3. PICK t \in Nat : t = Timer(p) /\ t <= 2 /\ (timer[p] <=> t = 2)
    BY DEF Timer
  <1>4. Due(p) = m + l + t
    BY <1>1, <1>2, <1>3 DEF Due
  <1> QED
    BY <1>1, <1>2, <1>3, <1>4

LEMMA ConcatLen ==
  ASSUME NEW s \in Seq(Nat), NEW t \in Seq(Nat)
  PROVE  Len(s \o t) = Len(s) + Len(t)
  OBVIOUS

(* The handler, on one port. *)
LEMMA ServicedCounts ==
  ASSUME TypeOK, NEW p \in Ports, Serviced(p), arrived' = arrived, tail' = tail
  PROVE  /\ Len(fifo[p]) \in Nat /\ Len(fifo'[p]) \in Nat
         /\ Len(fifo'[p]) <= Len(fifo[p])
         /\ Len(fifo[p]) > 0 => Len(fifo'[p]) < Len(fifo[p])
         /\ \/ Lost(p)' = Lost(p)
            \/ Lost(p)' = Lost(p) + 1 /\ Used(p)' = RxSize - 1
  <1>1. PICK f, u, k, n, acc :
          f = fifo[p] /\ u = Used(p) /\ k = Stored(p) /\ n = Taken(p) /\ acc = accepted[p]
    OBVIOUS
  <1>2. /\ f \in Seq(Nat) /\ Len(f) \in Nat /\ acc \in Seq(Nat) /\ Len(acc) \in Nat
        /\ arrived[p] \in Nat /\ head[p] \in Slots /\ tail[p] \in Slots
    BY <1>1 DEF TypeOK
  <1>3. /\ u \in Nat /\ u < RxSize /\ k \in Nat /\ k <= Len(f) /\ u + k < RxSize
        /\ n \in 0 .. Len(f)
    BY <1>1, UsedType, ServedPort, RxSizeType
  <1>4. \/ k = Len(f) /\ n = Len(f)
        \/ k = RxSize - 1 - u /\ n = k + 1
    <2>1. PICK m \in Nat : m = Len(f)
      BY <1>2
    <2>2. PICK r \in Nat : r = Room(p) /\ r = RxSize - 1 - u
      BY <1>1, <1>3, RxSizeType DEF Room
    <2>3. k = SmallestOf(m, r) /\ n = SmallestOf(m, r + 1)
      BY <1>1, <2>1, <2>2 DEF Stored, Taken
    <2> QED
      BY <2>1, <2>2, <2>3 DEF SmallestOf
  <1>5. Len(fifo'[p]) = Len(f) - n
    <2>1. fifo'[p] = SubSeq(f, n + 1, Len(f))
      BY <1>1 DEF Serviced, Rest
    <2> QED
      BY <1>2, <1>3, <2>1
  <1>6. Len(accepted'[p]) = Len(acc) + k
    <2>1. PICK b : b = SubSeq(f, 1, k)
      OBVIOUS
    <2>2. b \in Seq(Nat) /\ Len(b) = k
      BY <1>2, <1>3, <2>1
    <2>3. accepted'[p] = acc \o b
      BY <1>1, <2>1 DEF Serviced
    <2>4. Len(acc \o b) = Len(acc) + Len(b)
      BY <1>2, <2>2, ConcatLen
    <2> QED
      BY <2>2, <2>3, <2>4
  <1>7. Used(p)' = u + k
    <2>1. Distance(tail[p], Advance(head[p], k)) = Distance(tail[p], head[p]) + k
      <3>1. k \in 0 .. RxSize /\ Distance(tail[p], head[p]) + k < RxSize
        BY <1>1, <1>3, RxSizeType DEF Used
      <3> QED
        BY <1>2, <3>1, HeadMoves
    <2> QED
      BY <1>1, <2>1 DEF Serviced, Used
  <1>8. \/ Lost(p)' = Lost(p)
        \/ Lost(p)' = Lost(p) + 1 /\ Used(p)' = RxSize - 1
    <2>1. PICK a, b, c : a = arrived[p] /\ b = Len(acc) /\ c = Len(f)
      OBVIOUS
    <2>2. a \in Nat /\ b \in Nat /\ c \in Nat
      BY <1>2, <2>1
    <2>3. Lost(p) = a - b - c /\ Lost(p)' = a - (b + k) - (c - n)
      BY <1>1, <1>5, <1>6, <2>1 DEF Lost
    <2>4. CASE k = c /\ n = c
      BY <1>3, <2>2, <2>3, <2>4
    <2>5. CASE k = RxSize - 1 - u /\ n = k + 1
      <3>1. Used(p)' = RxSize - 1
        BY <1>3, <1>7, <2>5, RxSizeType
      <3> QED
        BY <1>3, <2>2, <2>3, <2>5, <3>1
    <2> QED
      BY <1>4, <2>1, <2>4, <2>5
  <1>9. Len(f) > 0 => n > 0
    BY <1>2, <1>3, <1>4
  <1> QED
    BY <1>1, <1>2, <1>3, <1>5, <1>8, <1>9

LEMMA IsrCounts ==
  ASSUME TypeOK, Isr
  PROVE  LosesOnlyWhenFull /\ WindsDown
  <1> SUFFICES ASSUME NEW p \in Ports
               PROVE  /\ \/ Lost(p)' = Lost(p)
                         \/ Lost(p)' = Lost(p) + 1 /\ Used(p)' = RxSize - 1
                      /\ Interrupting(p) => Due(p)' < Due(p)
                      /\ ~(Due(p)' > Due(p))
    BY DEF LosesOnlyWhenFull, WindsDown
  <1>1. arrived' = arrived /\ tail' = tail /\ timer' = timer /\ latched'[p] = FALSE
    BY DEF Isr
  <1>2. PICK m \in Nat, l \in Nat, t \in Nat :
          /\ m = Len(fifo[p]) /\ t = Timer(p) /\ Due(p) = m + l + t
          /\ (latched[p] <=> l = 1)
    BY DueIs
  <1>3. Due(p)' = Len(fifo'[p]) + t
    <2>1. Len(fifo'[p]) \in Nat
      <3>1. CASE Serviced(p)
        BY <1>1, <3>1, ServicedCounts
      <3>2. CASE Untouched(p)
        BY <1>2, <3>2 DEF Untouched
      <3> QED
        BY <3>1, <3>2, IsrByPort
    <2>2. Latch(p)' = 0 /\ Timer(p)' = t
      BY <1>1, <1>2 DEF Latch, Timer
    <2> QED
      BY <1>2, <2>1, <2>2 DEF Due
  <1>4. CASE Serviced(p)
    <2>1. PICK n \in Nat : n = Len(fifo'[p]) /\ n <= m /\ (m > 0 => n < m)
      BY <1>1, <1>2, <1>4, ServicedCounts
    <2>2. Interrupting(p) => l = 1 \/ m > 0
      BY <1>2, FifoAssumption DEF Interrupting, Status
    <2>3. /\ Interrupting(p) => n + t < m + l + t
          /\ ~(n + t > m + l + t)
      BY <2>1, <2>2
    <2> QED
      BY <1>1, <1>2, <1>3, <1>4, <2>1, <2>3, ServicedCounts
  <1>5. CASE Untouched(p) /\ ~Serviced(p)
    <2>1. fifo'[p] = fifo[p] /\ accepted'[p] = accepted[p]
      BY <1>5 DEF Untouched
    <2>2. ~Interrupting(p)
      BY <1>5 DEF Isr, Serviced, Interrupting
    <2>3. Lost(p)' = Lost(p)
      BY <1>1, <2>1 DEF Lost
    <2>4. ~(m + t > m + l + t)
      BY <1>2
    <2> QED
      BY <1>2, <1>3, <2>1, <2>2, <2>3, <2>4
  <1> QED
    BY <1>4, <1>5, IsrByPort

(* A step that changes none of it, or that empties the FIFO. *)
LEMMA QuietCounts ==
  ASSUME TypeOK, NEW p \in Ports,
         arrived'[p] = arrived[p], accepted'[p] = accepted[p],
         timer'[p] = timer[p], latched'[p] = latched[p],
         fifo'[p] = fifo[p] \/ fifo'[p] = << >>
  PROVE  /\ fifo'[p] = fifo[p] => Lost(p)' = Lost(p)
         /\ ~(Due(p)' > Due(p))
  <1>1. Lost(p)' = Lost(p) \/ fifo'[p] # fifo[p]
    BY DEF Lost
  <1>2. PICK m \in Nat, l \in Nat, t \in Nat :
          m = Len(fifo[p]) /\ l = Latch(p) /\ t = Timer(p) /\ Due(p) = m + l + t
    BY DueIs
  <1>3. PICK n \in Nat : n = Len(fifo'[p]) /\ n <= m
    BY <1>2
  <1>4. Latch(p)' = l /\ Timer(p)' = t
    BY <1>2 DEF Latch, Timer
  <1>5. Due(p)' = n + l + t
    BY <1>3, <1>4 DEF Due
  <1> QED
    BY <1>1, <1>2, <1>3, <1>5

LEMMA ArriveCounts ==
  ASSUME TypeOK, NEW p \in Ports, Arrive(p)
  PROVE  /\ Lost(p)' # Lost(p) => Lost(p)' = Lost(p) + 1 /\ Len(fifo[p]) = FifoDepth
         /\ Due(p)' <= Due(p) + 3
  <1>0. PICK k \in Nat, l \in Nat, t \in Nat :
          k = Len(fifo[p]) /\ l = Latch(p) /\ Due(p) = k + l + t
    BY DueIs
  <1>1. PICK m \in Nat, n \in Nat, a \in Nat, b \in Nat :
          /\ m = Len(fifo[p]) /\ m <= FifoDepth
          /\ n = Len(fifo'[p]) /\ n = (IF m < FifoDepth THEN m + 1 ELSE m)
          /\ a = arrived[p] /\ b = Len(accepted[p])
    <2>1. fifo[p] \in Seq(Nat) /\ Len(fifo[p]) <= FifoDepth
      BY DEF TypeOK
    <2>2. arrived[p] \in Nat /\ Len(accepted[p]) \in Nat
      BY DEF TypeOK
    <2>3. CASE Len(fifo[p]) < FifoDepth
      <3>1. fifo'[p] = Append(fifo[p], arrived[p] + 1)
        BY <2>3 DEF Arrive, TypeOK
      <3>2. Len(fifo'[p]) = Len(fifo[p]) + 1
        BY <2>1, <2>2, <3>1
      <3> QED
        BY <2>1, <2>2, <2>3, <3>2
    <2>4. CASE ~(Len(fifo[p]) < FifoDepth)
      <3>1. fifo'[p] = fifo[p]
        BY <2>4 DEF Arrive
      <3> QED
        BY <2>1, <2>2, <2>4, <3>1
    <2> QED
      BY <2>3, <2>4
  <1>2. arrived'[p] = a + 1 /\ accepted' = accepted /\ timer'[p] = TRUE /\ latched' = latched
    BY <1>1 DEF Arrive, TypeOK, history
  <1>3. Lost(p) = a - b - m /\ Lost(p)' = (a + 1) - b - n
    BY <1>1, <1>2 DEF Lost
  <1>4. Due(p) = m + l + t /\ Due(p)' = n + l + 2
    <2>1. Latch(p)' = l /\ Timer(p)' = 2
      BY <1>0, <1>2 DEF Latch, Timer
    <2> QED
      BY <1>0, <1>1, <2>1 DEF Due
  <1>5. n <= m + 1 /\ (n = m => m = FifoDepth)
    BY <1>1, FifoAssumption
  <1>6. Due(p)' <= Due(p) + 3
    BY <1>0, <1>1, <1>4, <1>5
  <1>7. ASSUME n = m
        PROVE  Lost(p)' = Lost(p) + 1 /\ Len(fifo[p]) = FifoDepth
    <2>0. a \in Int /\ b \in Int /\ m \in Int /\ n = m
      BY <1>1, <1>7
    <2>1. (a + 1) - b - n = (a - b - m) + 1
      BY <2>0
    <2> QED
      BY <1>1, <1>3, <1>5, <1>7, <2>1
  <1>8. ASSUME n # m
        PROVE  Lost(p)' = Lost(p)
    <2>0. a \in Int /\ b \in Int /\ m \in Int /\ n = m + 1
      BY <1>1, <1>8
    <2>1. (a + 1) - b - n = a - b - m
      BY <2>0
    <2> QED
      BY <1>3, <2>1
  <1> QED
    BY <1>6, <1>7, <1>8

LEMMA IdleCounts ==
  ASSUME TypeOK, NEW p \in Ports, Idle(p)
  PROVE  Lost(p)' = Lost(p) /\ ~(Due(p)' > Due(p))
  <1>1. PICK m \in Nat, l \in Nat, t \in Nat :
          m = Len(fifo[p]) /\ Due(p) = m + l + t /\ (timer[p] <=> t = 2)
    BY DueIs
  <1>2. /\ timer[p] = TRUE /\ timer'[p] = FALSE /\ latched'[p] = TRUE
        /\ fifo' = fifo /\ arrived' = arrived /\ accepted' = accepted
    BY DEF Idle, TypeOK, history
  <1>3. Due(p) = m + l + 2 /\ Due(p)' = m + 1
    <2>1. Latch(p)' = 1 /\ Timer(p)' = 0
      BY <1>2 DEF Latch, Timer
    <2>2. Len(fifo'[p]) = m /\ t = 2
      BY <1>1, <1>2
    <2> QED
      BY <1>1, <2>1, <2>2 DEF Due
  <1>4. Lost(p)' = Lost(p)
    BY <1>2 DEF Lost
  <1> QED
    BY <1>1, <1>3, <1>4

LEMMA StepCounts ==
  ASSUME TypeOK, [Next]_vars
  PROVE  LosesOnlyWhenFull /\ WindsDown
  <1>1. CASE Isr
    BY <1>1, IsrCounts
  <1>2. CASE ~Isr
    <2> SUFFICES ASSUME NEW p \in Ports
                 PROVE  /\ Lost(p)' # Lost(p) =>
                             \/ Begin(p)
                             \/ /\ Lost(p)' = Lost(p) + 1
                                /\ Arrive(p) /\ Len(fifo[p]) = FifoDepth
                        /\ Due(p)' > Due(p) => Arrive(p) /\ Due(p)' <= Due(p) + 3
      BY <1>2 DEF LosesOnlyWhenFull, WindsDown
    <2>1. CASE Arrive(p)
      BY <2>1, ArriveCounts
    <2>2. CASE Idle(p)
      BY <2>2, IdleCounts
    <2>3. CASE Begin(p)
      <3>1. /\ arrived' = arrived /\ accepted' = accepted /\ timer' = timer
            /\ latched' = latched /\ (fifo'[p] = fifo[p] \/ fifo'[p] = << >>)
        BY <2>3 DEF Begin, TypeOK, history
      <3> QED
        BY <2>3, <3>1, QuietCounts
    <2>4. CASE ~Arrive(p) /\ ~Idle(p) /\ ~Begin(p)
      <3>1. /\ arrived'[p] = arrived[p] /\ accepted'[p] = accepted[p]
            /\ timer'[p] = timer[p] /\ latched'[p] = latched[p] /\ fifo'[p] = fifo[p]
        <4>1. ASSUME NEW q \in Ports, q # p, Arrive(q)
              PROVE  arrived'[p] = arrived[p] /\ fifo'[p] = fifo[p] /\ timer'[p] = timer[p]
          BY <4>1 DEF Arrive, TypeOK
        <4>2. ASSUME NEW q \in Ports, q # p, Idle(q)
              PROVE  timer'[p] = timer[p] /\ latched'[p] = latched[p]
          BY <4>2 DEF Idle, TypeOK
        <4>3. ASSUME NEW q \in Ports, q # p, Begin(q)
              PROVE  fifo'[p] = fifo[p]
          BY <4>3 DEF Begin, TypeOK
        <4>4. CASE UNCHANGED vars
          BY <4>4 DEF vars, hw, history
        <4>5. ASSUME NEW q \in Ports, q # p, Arrive(q) \/ Idle(q) \/ Begin(q)
              PROVE  /\ arrived'[p] = arrived[p] /\ accepted' = accepted
                     /\ timer'[p] = timer[p] /\ latched'[p] = latched[p] /\ fifo'[p] = fifo[p]
          BY <4>1, <4>2, <4>3, <4>5 DEF Arrive, Idle, Begin, history
        <4>6. ASSUME NEW q \in Ports,
                     \/ End(q) \/ Available(q) \/ ReadCheck(q) \/ ReadLoad(q)
                     \/ ReadAdvance(q) \/ PeekCheck(q) \/ PeekLoad(q)
              PROVE  /\ arrived' = arrived /\ accepted' = accepted
                     /\ timer' = timer /\ latched' = latched /\ fifo' = fifo
          BY <4>6 DEF End, Available, ReadCheck, PeekCheck, Check, ReadLoad, ReadAdvance,
                      PeekLoad, hw, history
        <4> QED
          BY <1>2, <2>4, <4>4, <4>5, <4>6 DEF Next
      <3> QED
        BY <3>1, QuietCounts
    <2> QED
      BY <2>1, <2>2, <2>3, <2>4
  <1> QED
    BY <1>1, <1>2

(* A byte is lost at a full FIFO, at a full ring or by begin(), and for no *)
(* other reason.                                                           *)
THEOREM LossesCorrect == Spec => [][LosesOnlyWhenFull]_vars
  <1>1. TypeOK /\ [Next]_vars => [LosesOnlyWhenFull]_vars
    BY StepCounts
  <1> QED
    BY <1>1, TypeCorrect, PTL DEF Spec

(* The safety half of IrqQuiesces: what interrupts work off only shrinks.  *)
THEOREM InterruptsWindDown == Spec => [][WindsDown]_vars
  <1>1. TypeOK /\ [Next]_vars => [WindsDown]_vars
    BY StepCounts
  <1> QED
    BY <1>1, TypeCorrect, PTL DEF Spec
=============================================================================
