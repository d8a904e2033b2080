--------------------------- MODULE IRremote_proofs ---------------------------
(***************************************************************************)
(* Proofs about the ring of the infrared receiver, for every ring size,    *)
(* number of bits and sequence of frames.                                  *)
(*                                                                         *)
(* decode() stores a tail computed from an old snapshot, so the tail alone *)
(* says nothing about what is in the ring.  What makes every tail sound is *)
(* what has been written: either only the slots below the head, and then   *)
(* no tail, and none that decode() will store, lies above the head; or the *)
(* whole ring, and then a piece that begins anywhere is contiguous.        *)
(***************************************************************************)
EXTENDS IRremote, TLAPS

Place(t) == t % BufSize
Tails == 0 .. IndexSize - 1
DurationType == [us : Nat, frame : 0 .. Len(frames), pos : Nat]

(* An entry that holds its duration as the frame has it. *)
Exact(e) ==
    IF e.pos = 0 THEN e.us = 40000
    ELSE /\ e.pos \in 1 .. Len(FrameOf(frames[e.frame]))
         /\ e.us = FrameOf(frames[e.frame])[e.pos]

Succeeds(a, b) == Follows(a, b) /\ Exact(b)

(* An entry that the next duration of the line may follow. *)
Newest(e) ==
    \/ line = << >> /\ e.frame = Current /\ e.pos = Len(FrameOf(frames[Current]))
    \/ line # << >> /\ e.frame = Current /\ e.pos = Pos - 1
    \/ /\ line # << >> /\ Pos = 1
       /\ e.frame = Current - 1 /\ e.pos = Len(FrameOf(frames[Current - 1]))

(* The slots of W hold a piece of what the line brought, up to the newest  *)
(* entry in front of the head.                                             *)
Contiguous(W) ==
    /\ \A s \in W : s_dur[s].frame \in 1 .. Len(frames)
    /\ \A s \in W : ir_next(s) \in W /\ ir_next(s) # s_head
                      => Succeeds(s_dur[s], s_dur[ir_next(s)])
    /\ enabled /\ ~fresh => \A s \in W : ir_next(s) = s_head => Newest(s_dur[s])

(* Where the sketch is, with the tail it has read or will store. *)
AtHeader ==
    \E t \in Tails, n \in 3 .. BufSize - 1 : \E k :
        pc = [at |-> "header", tail |-> t, avail |-> n, kept |-> k]
AtBits ==
    \E t \in Tails, e \in DurationType : \E i, v, b, k :
        pc = [at |-> "bits", tail |-> t, i |-> i, data |-> v, from |-> e,
              inside |-> b, kept |-> k]
AtStore ==
    \E t \in Tails, e \in DurationType : \E b, v, k :
        pc = [at |-> "store", to |-> t, from |-> e, inside |-> b,
              value |-> v, kept |-> k]
Loc == pc = Loop \/ AtHeader \/ AtBits \/ AtStore

(* No tail above the head. *)
Below ==
    /\ Place(s_tail) <= s_head
    /\ pc.at = "header" => Place(pc.tail) + pc.avail <= s_head
    /\ pc.at = "bits" => Place(pc.tail) + 2 + 2 * FrameBits <= s_head
    /\ pc.at = "store" => Place(pc.to) <= s_head

LineType ==
    /\ line \in Seq(Nat)
    /\ line # << >> =>
         /\ Current > 0
         /\ Len(line) <= Len(FrameOf(frames[Current]))
         /\ \A j \in 1 .. Len(line) :
              line[j] = FrameOf(frames[Current])[Len(FrameOf(frames[Current])) - Len(line) + j]

Types ==
    /\ s_dur \in [Slots -> DurationType]
    /\ s_head \in Slots /\ s_tail \in Tails
    /\ enabled \in BOOLEAN /\ fresh \in BOOLEAN
    /\ Loc
    /\ frames \in Seq(Sent) /\ Len(frames) <= MaxFrames
    /\ LineType
    /\ decoded \subseteq 0 .. Len(frames)

PartlyWritten == Below /\ Contiguous(0 .. s_head - 1)
AllWritten == ~fresh /\ Contiguous(Slots)

(* The inductive invariant: partly written, with no tail above the head,   *)
(* or written all round.  A receiver that waits for its first edge has     *)
(* written nothing. *)
IInv ==
    /\ Types
    /\ fresh => s_head = 0
    /\ PartlyWritten \/ AllWritten

-----------------------------------------------------------------------------
(* The arithmetic of the indices, without the modulus. *)
LEMMA SizeType ==
  /\ BufSize \in Nat /\ FrameBits \in Nat /\ FrameBits > 0
  /\ 2 * FrameBits + 3 < BufSize
  /\ IndexSize = 2 * BufSize
  /\ BufSize > 5
  BY IndexAssumption

LEMMA PlaceCases ==
  ASSUME NEW t \in Tails
  PROVE  /\ Place(t) = IF t < BufSize THEN t ELSE t - BufSize
         /\ Place(t) \in Slots
  BY SizeType DEF Place, Tails, Slots

LEMMA NextCases ==
  ASSUME NEW t \in Tails
  PROVE  /\ ir_next(t) = IF Place(t) = BufSize - 1 THEN 0 ELSE Place(t) + 1
         /\ ir_next(t) \in Slots /\ ir_next(t) \in Tails
  BY SizeType, PlaceCases DEF ir_next, Tails, Slots

LEMMA SlotIsTail ==
  ASSUME NEW s \in Slots
  PROVE  s \in Tails /\ Place(s) = s
  BY SizeType, PlaceCases DEF Tails, Slots

LEMMA NextSlot ==
  ASSUME NEW s \in Slots
  PROVE  /\ ir_next(s) = IF s = BufSize - 1 THEN 0 ELSE s + 1
         /\ ir_next(s) \in Slots /\ ir_next(s) # s
  BY NextCases, SlotIsTail, SizeType DEF Slots

LEMMA NextInjective ==
  ASSUME NEW s \in Slots, NEW r \in Slots, ir_next(s) = ir_next(r)
  PROVE  s = r
  <1>1. PICK n : n = ir_next(s) /\ n = ir_next(r)
    OBVIOUS
  <1>2. n = IF s = BufSize - 1 THEN 0 ELSE s + 1
    BY <1>1, NextSlot
  <1>3. n = IF r = BufSize - 1 THEN 0 ELSE r + 1
    BY <1>1, NextSlot
  <1> QED
    BY <1>2, <1>3, SizeType DEF Slots

LEMMA AvailableCases ==
  ASSUME NEW h \in Slots, NEW t \in Tails
  PROVE  /\ available(h, t) = IF Place(t) <= h THEN h - Place(t)
                                               ELSE h - Place(t) + BufSize
         /\ available(h, t) \in Slots
  BY SizeType, PlaceCases DEF available, Tails, Slots

LEMMA SlotCases ==
  ASSUME NEW t \in Tails, NEW i \in Slots
  PROVE  (t + i) % BufSize = IF Place(t) + i < BufSize
                             THEN Place(t) + i ELSE Place(t) + i - BufSize
  BY SizeType, PlaceCases DEF Tails, Slots

(* decode() moves the tail in a uint8_t. *)
LEMMA MoveCases ==
  ASSUME NEW t \in Tails, NEW i \in Slots
  PROVE  /\ (t + i) % IndexSize \in Tails
         /\ Place((t + i) % IndexSize) = IF Place(t) + i < BufSize
                             THEN Place(t) + i ELSE Place(t) + i - BufSize
  <1>1. (t + i) % IndexSize = IF t + i < IndexSize THEN t + i ELSE t + i - IndexSize
    BY SizeType DEF Tails, Slots
  <1>2. (t + i) % IndexSize \in Tails
    BY <1>1, SizeType DEF Tails, Slots
  <1> QED
    BY <1>1, <1>2, SizeType, PlaceCases DEF Tails, Slots

(* A frame is a sequence of durations. *)
LEMMA FrameType ==
  ASSUME NEW v
  PROVE  FrameOf(v) \in Seq(Nat) /\ Len(FrameOf(v)) > 0 /\ FrameOf(v) # << >>
  <1>1. CASE v = Repeat
    BY <1>1 DEF FrameOf
  <1>2. CASE v # Repeat
    <2> DEFINE N == 2 * FrameBits + 3
               us(j) == CASE j = 1 -> 9000
                          [] j = 2 -> 4500
                          [] j > 2 /\ j % 2 = 1 -> 562
                          [] j > 2 /\ j % 2 = 0 -> Bit(v, (j - 4) \div 2)
    <2>1. N \in Nat /\ N > 0
      BY SizeType
    <2>2. \A i : Bit(v, i) \in Nat
      BY DEF Bit
    <2>3. \A j \in 1 .. N : us(j) \in Nat
      BY <2>1, <2>2
    <2>4. FrameOf(v) = [j \in 1 .. N |-> us(j)]
      BY <1>2 DEF FrameOf
    <2> HIDE DEF N, us
    <2>5. [j \in 1 .. N |-> us(j)] \in Seq(Nat) /\ Len([j \in 1 .. N |-> us(j)]) = N
      BY <2>1, <2>3
    <2> QED
      BY <2>1, <2>4, <2>5
  <1> QED
    BY <1>1, <1>2

-----------------------------------------------------------------------------
(* What the calls keep.  The frames sent so far never change. *)
Extends == Len(frames) <= Len(frames)' /\ \A i \in 1 .. Len(frames) : frames'[i] = frames[i]

LEMMA FramesType ==
  ASSUME Types
  PROVE  Len(frames) \in Nat /\ Current \in Nat
  BY DEF Types, Current

LEMMA DurationsKept ==
  ASSUME Types, Extends, Len(frames)' \in Nat
  PROVE  DurationType \subseteq DurationType'
  BY FramesType DEF Extends, DurationType

(* What is true of the entries of frames sent stays true. *)
LEMMA ExactKept ==
  ASSUME Types, Extends, NEW e, e.frame \in 1 .. Len(frames), Exact(e)
  PROVE  Exact(e)'
  BY DEF Extends, Exact

LEMMA SucceedsKept ==
  ASSUME Types, Extends, NEW a, NEW b, a.frame \in 1 .. Len(frames),
         b.frame \in 1 .. Len(frames), Succeeds(a, b)
  PROVE  Succeeds(a, b)'
  BY ExactKept DEF Succeeds, Extends, Follows

(* The parts of the sketch's place in decode(). *)
LEMMA LocParts ==
  ASSUME Types
  PROVE  /\ pc.at \in {"loop", "header", "bits", "store"}
         /\ pc.at = "loop" <=> pc = Loop
         /\ pc.at = "header" => AtHeader /\ pc.tail \in Tails
                                         /\ pc.avail \in 3 .. BufSize - 1
         /\ pc.at = "bits" => AtBits /\ pc.tail \in Tails /\ pc.from \in DurationType
         /\ pc.at = "store" => AtStore /\ pc.to \in Tails /\ pc.from \in DurationType
  <1>1. CASE pc = Loop
    BY <1>1 DEF Loop
  <1>2. CASE AtHeader
    <2>1. pc.at = "header" /\ pc.tail \in Tails /\ pc.avail \in 3 .. BufSize - 1
      BY <1>2 DEF AtHeader
    <2> QED
      BY <1>2, <2>1 DEF Loop
  <1>3. CASE AtBits
    <2>1. pc.at = "bits" /\ pc.tail \in Tails /\ pc.from \in DurationType
      BY <1>3 DEF AtBits
    <2> QED
      BY <1>3, <2>1 DEF Loop
  <1>4. CASE AtStore
    <2>1. pc.at = "store" /\ pc.to \in Tails /\ pc.from \in DurationType
      BY <1>4 DEF AtStore
    <2> QED
      BY <1>4, <2>1 DEF Loop
  <1> QED
    BY <1>1, <1>2, <1>3, <1>4 DEF Types, Loc

(* The interrupt moves no decode() under way. *)
LEMMA LocKept ==
  ASSUME Types, DurationType \subseteq DurationType',
         pc' = pc \/ (InDecode /\ pc' = [pc EXCEPT !.kept = FALSE])
  PROVE  /\ Loc' /\ pc'.at = pc.at
         /\ pc.at \in {"header", "bits"} => pc'.tail = pc.tail
         /\ pc.at = "header" => pc'.avail = pc.avail
         /\ pc.at = "store" => pc'.to = pc.to
  <1>1. CASE pc = Loop
    BY <1>1 DEF Loc, Loop, InDecode
  <1>2. CASE AtHeader
    <2>1. PICK t, n, k :
            t \in Tails /\ n \in 3 .. BufSize - 1 /\
            pc = [at |-> "header", tail |-> t, avail |-> n, kept |-> k]
      BY <1>2 DEF AtHeader
    <2>2. PICK k1 : pc' = [at |-> "header", tail |-> t, avail |-> n, kept |-> k1]
      BY <2>1
    <2> QED
      BY <2>1, <2>2 DEF Loc, AtHeader, Tails
  <1>3. CASE AtBits
    <2>1. PICK t, e, i, v, b, k :
            t \in Tails /\ e \in DurationType /\
            pc = [at |-> "bits", tail |-> t, i |-> i, data |-> v, from |-> e,
                  inside |-> b, kept |-> k]
      BY <1>3 DEF AtBits
    <2>2. PICK k1 : pc' = [at |-> "bits", tail |-> t, i |-> i, data |-> v,
                           from |-> e, inside |-> b, kept |-> k1]
      BY <2>1
    <2>3. e \in DurationType'
      BY <2>1
    <2> QED
      BY <2>1, <2>2, <2>3 DEF Loc, AtBits, Tails
  <1>4. CASE AtStore
    <2>1. PICK t, e, b, v, k :
            t \in Tails /\ e \in DurationType /\
            pc = [at |-> "store", to |-> t, from |-> e, inside |-> b,
                  value |-> v, kept |-> k]
      BY <1>4 DEF AtStore
    <2>2. PICK k1 : pc' = [at |-> "store", to |-> t, from |-> e, inside |-> b,
                           value |-> v, kept |-> k1]
      BY <2>1
    <2>3. e \in DurationType'
      BY <2>1
    <2> QED
      BY <2>1, <2>2, <2>3 DEF Loc, AtStore, Tails
  <1> QED
    BY <1>1, <1>2, <1>3, <1>4 DEF Types, Loc

(* A duration recorded behind a contiguous piece continues it. *)
LEMMA Recorded ==
  ASSUME Types, Extends, NEW d, Record(d), d.frame \in 1 .. Len(frames)',
         NEW W \in SUBSET Slots, NEW V \in SUBSET Slots,
         V = W \cup {s_head}, Contiguous(W),
         \A s \in W : ir_next(s) = s_head => Succeeds(s_dur[s], d)',
         Newest(d)'
  PROVE  Contiguous(V)'
  <1>1. s_dur' = [s_dur EXCEPT ![s_head] = d] /\ s_head' = ir_next(s_head)
    BY DEF Record
  <1>2. s_head \in Slots /\ s_dur'[s_head] = d
    BY <1>1 DEF Types
  <1>3. \A s \in Slots : s # s_head => s_dur'[s] = s_dur[s]
    BY <1>1 DEF Types
  <1>4. \A s \in V : s_dur'[s].frame \in 1 .. Len(frames')
    BY <1>2, <1>3, FramesType DEF Contiguous, Extends
  <1>5. ASSUME NEW s \in V, ir_next(s) \in V, ir_next(s) # s_head'
        PROVE  Succeeds(s_dur[s], s_dur[ir_next(s)])'
    <2>1. s # s_head /\ s \in W /\ s \in Slots
      BY <1>1, <1>5
    <2>2. CASE ir_next(s) = s_head
      BY <2>1, <2>2, <1>2, <1>3 DEF Succeeds, Follows, Exact
    <2>3. CASE ir_next(s) # s_head
      <3>1. /\ Succeeds(s_dur[s], s_dur[ir_next(s)]) /\ s_dur[s].frame \in 1 .. Len(frames)
            /\ s_dur[ir_next(s)].frame \in 1 .. Len(frames)
        BY <2>1, <2>3, <1>5 DEF Contiguous
      <3>2. s_dur'[s] = s_dur[s] /\ s_dur'[ir_next(s)] = s_dur[ir_next(s)]
        BY <2>1, <2>3, <1>3, NextSlot
      <3> QED
        BY <3>1, <3>2, SucceedsKept
    <2> QED
      BY <2>2, <2>3
  <1>6. ASSUME NEW s \in V, ir_next(s) = s_head'
        PROVE  Newest(s_dur[s])'
    <2>0. s \in Slots /\ ir_next(s) = ir_next(s_head)
      BY <1>1, <1>6
    <2>1. s = s_head
      BY <2>0, <1>2, NextInjective
    <2> QED
      BY <2>1, <1>2 DEF Newest
  <1> QED
    BY <1>4, <1>5, <1>6 DEF Contiguous, ir_next

(* The interrupt's record keeps the ring, whatever decode() is doing. *)
LEMMA RecordKeeps ==
  ASSUME IInv, Extends, NEW d \in DurationType', Record(d),
         d.frame \in 1 .. Len(frames)', Len(frames)' \in Nat,
         fresh \/ \A e \in DurationType :
                    Newest(e) /\ e.frame \in 1 .. Len(frames) => Succeeds(e, d)',
         Newest(d)', enabled, fresh' = FALSE
  PROVE  /\ s_dur' \in [Slots -> DurationType']
         /\ s_head' \in Slots /\ s_tail' \in Tails
         /\ Loc'
         /\ PartlyWritten' \/ AllWritten'
  <1> USE DEF IInv
  <1>1. s_dur' = [s_dur EXCEPT ![s_head] = d] /\ s_head' = ir_next(s_head)
        /\ s_tail' = IF Full THEN ir_next(s_tail) ELSE s_tail
    BY DEF Record
  <1>2. DurationType \subseteq DurationType'
    BY DurationsKept
  <1>3. s_dur' \in [Slots -> DurationType']
    BY <1>1, <1>2 DEF Types
  <1>4. s_head \in Slots /\ s_head' \in Slots /\ s_tail \in Tails /\ s_tail' \in Tails
    BY <1>1, NextSlot, NextCases DEF Types
  <1>5. pc' = pc \/ (InDecode /\ pc' = [pc EXCEPT !.kept = FALSE])
    BY DEF Record
  <1>6. Loc'
    BY <1>2, <1>5, LocKept
  <1>7. ASSUME NEW W \in SUBSET Slots, Contiguous(W), fresh => W = {}
        PROVE  \A s \in W : ir_next(s) = s_head => Succeeds(s_dur[s], d)'
    <2> SUFFICES ASSUME NEW s \in W, ir_next(s) = s_head, ~fresh
                 PROVE  Succeeds(s_dur[s], d)'
      BY <1>7
    <2>1. PICK e \in DurationType : e = s_dur[s]
      BY DEF Types
    <2>2. Newest(e) /\ e.frame \in 1 .. Len(frames)
      BY <1>7, <2>1 DEF Contiguous, Types
    <2>3. Succeeds(e, d)'
      BY <2>2
    <2>4. s # s_head
      BY <1>4, NextSlot
    <2>5. s_dur'[s] = e
      BY <1>1, <2>1, <2>4 DEF Types
    <2> QED
      BY <2>3, <2>5 DEF Succeeds, Follows
  <1>8. CASE AllWritten
    <2>1. Slots = Slots \cup {s_head} /\ ~fresh /\ Contiguous(Slots)
      BY <1>4, <1>8 DEF AllWritten
    <2>2. \A s \in Slots : ir_next(s) = s_head => Succeeds(s_dur[s], d)'
      BY <2>1, <1>7
    <2>3. Contiguous(Slots)'
      BY <2>1, <2>2, Recorded
    <2> QED
      BY <2>3, <1>3, <1>4, <1>6 DEF AllWritten
  <1>9. CASE PartlyWritten
    <2> DEFINE W == 0 .. s_head - 1
               V == 0 .. s_head
    <2>1. W \in SUBSET Slots /\ V \in SUBSET Slots /\ V = W \cup {s_head}
      BY <1>4, SizeType DEF Slots
    <2>2. Contiguous(W) /\ Below
      BY <1>9 DEF PartlyWritten
    <2>3. fresh => W = {}
      BY <1>4 DEF Slots
    <2>4. \A s \in W : ir_next(s) = s_head => Succeeds(s_dur[s], d)'
      BY <2>1, <2>2, <2>3, <1>7
    <2>5. PICK X \in SUBSET Slots : X = V
      BY <2>1
    <2>6. PICK Y \in SUBSET Slots : Y = W
      BY <2>1
    <2> HIDE DEF W, V
    <2>7. Contiguous(X)'
      BY <2>1, <2>2, <2>4, <2>5, <2>6, Recorded
    <2>8. CASE s_head = BufSize - 1
      <3>1. X = Slots
        BY <2>5, <2>8 DEF V, Slots
      <3> QED
        BY <2>7, <3>1, <1>3, <1>4, <1>6 DEF AllWritten
    <2>9. CASE s_head # BufSize - 1
      <3>1. s_head' = s_head + 1 /\ s_head \in Nat
        BY <1>1, <1>4, <2>9, NextSlot DEF Slots
      <3>2. ~Full
        BY <2>2, <1>4, <2>9, NextSlot, PlaceCases, SizeType DEF Full, Below, Slots, Tails
      <3>3. s_tail' = s_tail /\ Place(s_tail) \in Slots
        BY <1>1, <1>4, <3>2, PlaceCases
      <3>4. /\ pc'.at = pc.at
            /\ pc.at \in {"header", "bits"} => pc'.tail = pc.tail
            /\ pc.at = "header" => pc'.avail = pc.avail
            /\ pc.at = "store" => pc'.to = pc.to
        BY <1>2, <1>5, LocKept
      <3>5. /\ pc.at = "header" => Place(pc.tail) \in Slots /\ pc.avail \in Nat
            /\ pc.at = "bits" => Place(pc.tail) \in Slots
            /\ pc.at = "store" => Place(pc.to) \in Slots
        BY LocParts, PlaceCases, SizeType
      <3>6. Below'
        BY <2>2, <3>1, <3>3, <3>4, <3>5, SizeType DEF Below, Place, Slots
      <3>7. X = (0 .. s_head - 1)'
        BY <2>5, <3>1 DEF V
      <3> QED
        BY <2>7, <3>6, <3>7, <1>3, <1>4, <1>6 DEF PartlyWritten, Contiguous
    <2> QED
      BY <2>8, <2>9
  <1> QED
    BY <1>3, <1>4, <1>6, <1>8, <1>9

-----------------------------------------------------------------------------
(* The line. *)
LEMMA LineFacts ==
  ASSUME Types, line # << >>
  PROVE  /\ Current \in Nat /\ Current > 0 /\ Current = Len(frames)
         /\ Len(FrameOf(frames[Current])) \in Nat
         /\ Pos = Len(FrameOf(frames[Current])) - Len(line) + 1
         /\ Pos \in Nat /\ Pos >= 1 /\ Pos <= Len(FrameOf(frames[Current]))
         /\ Head(line) \in Nat /\ Head(line) = FrameOf(frames[Current])[Pos]
         /\ Tail(line) \in Seq(Nat) /\ Len(Tail(line)) = Len(line) - 1
         /\ Tail(line) = << >> <=> Pos = Len(FrameOf(frames[Current]))
  <1>1. FrameOf(frames[Current]) \in Seq(Nat)
    BY FrameType
  <1>2. Current \in Nat /\ Current > 0 /\ Current = Len(frames)
    BY FramesType DEF Types, LineType, Current
  <1>3. Len(line) \in Nat /\ Len(line) > 0
    BY DEF Types, LineType
  <1>4. Len(FrameOf(frames[Current])) \in Nat /\ Len(line) <= Len(FrameOf(frames[Current]))
    BY <1>1 DEF Types, LineType
  <1>5. Pos = Len(FrameOf(frames[Current])) - Len(line) + 1
    BY DEF Pos
  <1>6. Head(line) \in Nat /\ Tail(line) \in Seq(Nat) /\ Len(Tail(line)) = Len(line) - 1
    BY <1>3 DEF Types, LineType
  <1>7. Tail(line) = << >> <=> Len(line) = 1
    BY <1>3, <1>6
  <1>8. Head(line) = FrameOf(frames[Current])[Pos]
    <2>1. Head(line) = line[1] /\ 1 \in 1 .. Len(line)
      BY <1>3 DEF Types, LineType
    <2>2. line[1] = FrameOf(frames[Current])[Len(FrameOf(frames[Current])) - Len(line) + 1]
      BY <2>1 DEF Types, LineType
    <2> QED
      BY <1>5, <2>1, <2>2
  <1>9. /\ Pos \in Nat /\ Pos >= 1 /\ Pos <= Len(FrameOf(frames[Current]))
        /\ (Len(line) = 1 <=> Pos = Len(FrameOf(frames[Current])))
    <2>1. PICK m \in Nat, n \in Nat :
            /\ m = Len(FrameOf(frames[Current])) /\ n = Len(line)
            /\ n > 0 /\ n <= m
      BY <1>3, <1>4
    <2>2. PICK p : p = Pos /\ p = m - n + 1
      BY <1>5, <2>1
    <2>3. p \in Nat /\ p >= 1 /\ p <= m /\ (n = 1 <=> p = m)
      <3>1. n \in Nat /\ m \in Nat /\ n > 0 /\ n <= m
        BY <2>1
      <3> QED
        BY <2>2, <3>1
    <2> QED
      BY <2>1, <2>2, <2>3
  <1> QED
    BY <1>2, <1>4, <1>5, <1>6, <1>7, <1>8, <1>9

(* While a frame is under way the next duration follows the newest entry, *)
(* and becomes it. *)
LEMMA EdgeFollows ==
  ASSUME Types, line # << >>, UNCHANGED frames, line' = Tail(line),
         NEW d, d.frame = Current, d.pos = Pos
  PROVE  /\ Newest(d)'
         /\ \A e : Newest(e) /\ e.frame \in 1 .. Len(frames) => Follows(e, d)'
  <1>1. Current' = Current
    BY DEF Current
  <1>2. Newest(d)'
    <2>1. CASE Tail(line) = << >>
      BY <1>1, <2>1, LineFacts DEF Newest
    <2>2. CASE Tail(line) # << >>
      <3>1. Pos' = Len(FrameOf(frames[Current])) - Len(Tail(line)) + 1
        BY <1>1, <2>2 DEF Pos
      <3>2. Pos' - 1 = Pos
        BY <3>1, LineFacts DEF Types, LineType
      <3> QED
        BY <1>1, <2>2, <3>2 DEF Newest
    <2> QED
      BY <2>1, <2>2
  <1>3. ASSUME NEW e, Newest(e), e.frame \in 1 .. Len(frames)
        PROVE  Follows(e, d)'
    <2>1. CASE e.frame = Current /\ e.pos = Pos - 1
      BY <2>1, LineFacts DEF Follows
    <2>2. CASE Pos = 1 /\ e.frame = Current - 1 /\ e.pos = Len(FrameOf(frames[Current - 1]))
      BY <2>2, LineFacts DEF Follows
    <2> QED
      BY <1>3, <2>1, <2>2 DEF Newest
  <1> QED
    BY <1>2, <1>3

LEMMA EdgeLine ==
  ASSUME Types, line # << >>, UNCHANGED frames, line' = Tail(line)
  PROVE  LineType'
  <1>1. PICK F : F = FrameOf(frames[Current])
    OBVIOUS
  <1>2. /\ line \in Seq(Nat) /\ Len(line) <= Len(F) /\ Len(F) \in Nat
        /\ \A j \in 1 .. Len(line) : line[j] = F[Len(F) - Len(line) + j]
    BY <1>1, LineFacts DEF Types, LineType
  <1>3. /\ Tail(line) \in Seq(Nat) /\ Len(Tail(line)) = Len(line) - 1 /\ Len(line) \in Nat
        /\ Current > 0
    BY LineFacts DEF Types, LineType
  <1>4. ASSUME NEW j \in 1 .. Len(Tail(line))
        PROVE  Tail(line)[j] = F[Len(F) - Len(Tail(line)) + j]
    <2>1. Tail(line)[j] = line[j + 1] /\ j + 1 \in 1 .. Len(line)
      BY <1>2, <1>3
    <2>2. line[j + 1] = F[Len(F) - Len(line) + (j + 1)]
      BY <1>2, <2>1
    <2> QED
      BY <1>2, <1>3, <2>1, <2>2
  <1>5. Current' = Current /\ FrameOf(frames[Current])' = F
    BY <1>1 DEF Current
  <1>6. line' \in Seq(Nat) /\ Current' > 0
    BY <1>3, <1>5
  <1>7. Len(line') <= Len(F)
    BY <1>2, <1>3
  <1>8. \A j \in 1 .. Len(line') : line'[j] = F[Len(F) - Len(line') + j]
    BY <1>4
  <1> QED
    BY <1>5, <1>6, <1>7, <1>8 DEF LineType

(* Steps that write nothing keep what is written. *)
LEMMA Unwritten ==
  ASSUME Types, Extends, UNCHANGED <<s_dur, s_head>>,
         NEW W \in SUBSET Slots, Contiguous(W),
         \/ ~(enabled' /\ ~fresh')
         \/ /\ enabled /\ ~fresh
            /\ \A e : Newest(e) /\ e.frame \in 1 .. Len(frames) => Newest(e)'
  PROVE  Contiguous(W)'
  <1>1. \A s \in W : s_dur'[s].frame \in 1 .. Len(frames')
    BY FramesType DEF Contiguous, Extends, Types
  <1>2. ASSUME NEW s \in W, ir_next(s) \in W, ir_next(s) # s_head'
        PROVE  Succeeds(s_dur[s], s_dur[ir_next(s)])'
    <2>1. PICK a, b : a = s_dur[s] /\ b = s_dur[ir_next(s)]
      OBVIOUS
    <2>2. /\ Succeeds(a, b)
          /\ a.frame \in 1 .. Len(frames) /\ b.frame \in 1 .. Len(frames)
      BY <1>2, <2>1 DEF Contiguous
    <2>3. Succeeds(a, b)'
      BY <2>2, SucceedsKept
    <2>4. s_dur'[s] = a /\ s_dur'[ir_next(s)] = b
      BY <2>1
    <2> QED
      BY <2>3, <2>4 DEF Succeeds, Follows, Exact
  <1>3. ASSUME enabled', ~fresh', NEW s \in W, ir_next(s) = s_head'
        PROVE  Newest(s_dur[s])'
    <2>1. PICK e : e = s_dur[s]
      OBVIOUS
    <2>2. Newest(e) /\ e.frame \in 1 .. Len(frames)
      BY <2>1, <1>3 DEF Contiguous
    <2>3. Newest(e)'
      BY <2>2, <1>3
    <2> QED
      BY <2>1, <2>3 DEF Newest
  <1> QED
    BY <1>1, <1>2, <1>3 DEF Contiguous, ir_next

-----------------------------------------------------------------------------
(* One lemma per kind of step. *)
LEMMA EdgeStep ==
  ASSUME IInv, FrameEdge
  PROVE  IInv'
  <1>0. Types /\ (fresh => s_head = 0) /\ (PartlyWritten \/ AllWritten)
    BY DEF IInv
  <1>1. line # << >> /\ line' = Tail(line) /\ UNCHANGED <<enabled, frames, decoded>>
    BY DEF FrameEdge
  <1>2. Types /\ Extends /\ Len(frames)' \in Nat /\ Len(frames)' = Len(frames)
    BY <1>0, <1>1, FramesType DEF Extends
  <1>3. LineType'
    BY <1>0, <1>1, EdgeLine
  <1>4. DurationType \subseteq DurationType'
    BY <1>2, DurationsKept
  <1>5. ASSUME fresh' = FALSE, enabled,
               NEW us \in Nat, Record(Duration(us, Current, Pos)),
               fresh \/ us = Head(line)
        PROVE  IInv'
    <2>1. PICK d : d = Duration(us, Current, Pos)
      OBVIOUS
    <2>2. d.frame = Current /\ d.pos = Pos /\ Current \in 1 .. Len(frames)
          /\ d \in DurationType
      BY <1>0, <1>1, <2>1, LineFacts DEF Duration, DurationType
    <2>3. /\ Newest(d)'
          /\ fresh \/ \A e \in DurationType :
                         Newest(e) /\ e.frame \in 1 .. Len(frames) => Succeeds(e, d)'
      <3>1. Newest(d)' /\ \A e : Newest(e) /\ e.frame \in 1 .. Len(frames) => Follows(e, d)'
        BY <1>0, <1>1, <2>2, EdgeFollows
      <3>2. CASE us = Head(line)
        <4>1. d.us = us
          BY <2>1 DEF Duration
        <4>2. Exact(d)
          <5>1. PICK F, n : F = FrameOf(frames[Current]) /\ n = Pos
            OBVIOUS
          <5>2. Head(line) = F[n] /\ n \in Nat /\ n >= 1 /\ n <= Len(F) /\ Len(F) \in Nat
            BY <1>0, <1>1, <5>1, LineFacts
          <5>3. d.pos = n /\ d.frame = Current /\ d.us = F[n]
            BY <2>2, <3>2, <4>1, <5>1, <5>2
          <5> QED
            BY <5>1, <5>2, <5>3 DEF Exact
        <4>3. Exact(d)'
          BY <1>2, <2>2, <4>2, ExactKept
        <4> QED
          BY <3>1, <4>3 DEF Succeeds
      <3> QED
        BY <1>5, <3>1, <3>2
    <2>4. Record(d) /\ d \in DurationType' /\ d.frame \in 1 .. Len(frames)'
      BY <1>2, <1>4, <1>5, <2>1, <2>2
    <2>5. /\ s_dur' \in [Slots -> DurationType']
          /\ s_head' \in Slots /\ s_tail' \in Tails
          /\ Loc'
          /\ PartlyWritten' \/ AllWritten'
      BY <1>2, <1>5, <2>3, <2>4, RecordKeeps
    <2> QED
      BY <1>0, <1>1, <1>2, <1>3, <1>5, <2>5 DEF IInv, Types, Tails
  <1>6. ASSUME UNCHANGED <<s_dur, s_head, s_tail, pc>>,
               fresh' \in BOOLEAN, fresh' => fresh,
               enabled' /\ ~fresh' => fresh
        PROVE  IInv'
    <2>1. Loc'
      BY <1>0, <1>4, <1>6, LocKept
    <2>2. Types'
      BY <1>0, <1>1, <1>3, <1>4, <1>6, <2>1 DEF Types, Tails
    <2>3. Below => Below'
      BY <1>6 DEF Below, Place
    <2>4. CASE fresh
      <3>1. Below /\ s_head = 0
        BY <1>0, <2>4 DEF PartlyWritten, AllWritten
      <3>2. Contiguous({})' /\ (0 .. s_head - 1)' = {}
        BY <1>6, <3>1 DEF Contiguous
      <3> QED
        BY <1>6, <2>2, <2>3, <3>1, <3>2 DEF IInv, PartlyWritten, Contiguous
    <2>5. CASE ~fresh
      <3>1. ~(enabled' /\ ~fresh') /\ UNCHANGED <<s_dur, s_head>>
        BY <1>6, <2>5
      <3>2. ASSUME NEW W \in SUBSET Slots, Contiguous(W)
            PROVE  Contiguous(W)'
        BY <1>2, <3>1, <3>2, Unwritten
      <3>3. CASE AllWritten
        <4>1. Contiguous(Slots)'
          BY <3>2, <3>3 DEF AllWritten
        <4> QED
          BY <1>6, <2>2, <2>5, <4>1 DEF IInv, AllWritten
      <3>4. CASE PartlyWritten
        <4>1. PICK W \in SUBSET Slots : W = 0 .. s_head - 1
          BY <1>0, SizeType DEF Types, Slots
        <4>2. Contiguous(W)'
          BY <3>2, <3>4, <4>1 DEF PartlyWritten
        <4>3. W = (0 .. s_head - 1)'
          BY <1>6, <4>1
        <4> QED
          BY <1>6, <2>2, <2>3, <2>5, <3>4, <4>2, <4>3 DEF IInv, PartlyWritten, Contiguous
      <3> QED
        BY <1>0, <3>3, <3>4
    <2> QED
      BY <2>4, <2>5
  <1>7. CASE Measured
    <2>1. enabled /\ ~fresh /\ fresh' = fresh
          /\ Record(Duration(Head(line), Current, Pos))
      BY <1>7 DEF Measured
    <2>2. fresh' = FALSE /\ Head(line) \in Nat
      BY <1>0, <1>1, <2>1, LineFacts DEF Types
    <2> QED
      BY <1>5, <2>1, <2>2
  <1>8. CASE FirstMeasured
    <2>1. CASE Pos = 1 /\ Skip
      <3>1. enabled /\ fresh /\ fresh' = FALSE
        BY <1>8 DEF FirstMeasured
      <3>2. fresh' \in BOOLEAN /\ (fresh' => fresh) /\ (enabled' /\ ~fresh' => fresh)
        BY <3>1
      <3> QED
        BY <1>6, <2>1, <3>2 DEF Skip
    <2>2. CASE \E us \in IF Pos = 1 THEN {100, 9000, 40000} ELSE {100, 1687} :
                 Record(Duration(us, Current, Pos))
      <3>1. PICK us \in Nat : Record(Duration(us, Current, Pos))
        BY <2>2
      <3>2. enabled /\ fresh' = FALSE /\ fresh
        BY <1>8 DEF FirstMeasured
      <3> QED
        BY <1>5, <3>1, <3>2
    <2> QED
      BY <1>8, <2>1, <2>2 DEF FirstMeasured
  <1>9. CASE Unseen
    <2>1. fresh' = fresh /\ Skip /\ (enabled => fresh)
      BY <1>9 DEF Unseen
    <2> QED
      BY <1>0, <1>1, <1>6, <2>1 DEF Skip, Types
  <1> QED
    BY <1>7, <1>8, <1>9 DEF FrameEdge
LEMMA BeginsStep ==
  ASSUME IInv, NEW v \in Sent, FrameBegins(v)
  PROVE  IInv'
  <1>0. Types /\ (fresh => s_head = 0) /\ (PartlyWritten \/ AllWritten)
    BY DEF IInv
  <1>1. /\ line = << >> /\ Len(frames) < MaxFrames
        /\ frames' = Append(frames, v) /\ line' = FrameOf(v)
        /\ UNCHANGED <<enabled, fresh, decoded>>
    BY DEF FrameBegins
  <1>2. /\ Len(frames) \in Nat /\ Len(frames') = Len(frames) + 1
        /\ frames' \in Seq(Sent) /\ frames'[Len(frames) + 1] = v
        /\ \A i \in 1 .. Len(frames) : frames'[i] = frames[i]
    BY <1>0, <1>1, FramesType DEF Types
  <1>3. Extends /\ Len(frames)' \in Nat /\ Current' = Current + 1 /\ Current = Len(frames)
        /\ Len(frames') <= MaxFrames
    BY <1>0, <1>1, <1>2, BoundAssumption DEF Extends, Current, Types
  <1>4. line' \in Seq(Nat) /\ line' # << >> /\ Len(line') \in Nat
    BY <1>1, FrameType
  <1>5. LineType' /\ Pos' = 1 /\ frames'[Current'] = v
    <2>1. frames'[Current'] = v /\ Current' > 0
      BY <1>2, <1>3
    <2>2. FrameOf(frames[Current])' = line'
      BY <1>1, <2>1
    <2>3. Len(line') <= Len(line') /\ Pos' = 1
      BY <1>4, <2>2 DEF Pos
    <2>4. \A j \in 1 .. Len(line') : line'[j] = line'[Len(line') - Len(line') + j]
      BY <1>4
    <2> QED
      BY <1>4, <2>1, <2>2, <2>3, <2>4 DEF LineType
  <1>6. DurationType \subseteq DurationType'
    BY <1>0, <1>3, DurationsKept
  <1>7. \A e : Newest(e) /\ e.frame \in 1 .. Len(frames) => Newest(e)'
    <2> SUFFICES ASSUME NEW e, Newest(e), e.frame \in 1 .. Len(frames)
                 PROVE  Newest(e)'
      OBVIOUS
    <2>1. e.frame = Current /\ e.pos = Len(FrameOf(frames[Current]))
      BY <1>1 DEF Newest
    <2>2. Current' - 1 = Current /\ frames'[Current] = frames[Current]
      BY <1>2, <1>3, <2>1
    <2> QED
      BY <1>4, <1>5, <2>1, <2>2 DEF Newest
  <1>8. CASE Skip
    <2>1. Loc'
      BY <1>0, <1>6, <1>8, LocKept DEF Skip
    <2>2. Types'
      BY <1>0, <1>1, <1>2, <1>3, <1>5, <1>6, <1>8, <2>1 DEF Types, Tails, Skip
    <2>3. Below => Below'
      BY <1>8 DEF Below, Place, Skip
    <2>4. ASSUME NEW W \in SUBSET Slots, Contiguous(W)
          PROVE  Contiguous(W)'
      <3>1. UNCHANGED <<s_dur, s_head, enabled, fresh>>
        BY <1>1, <1>8 DEF Skip
      <3> QED
        BY <1>0, <1>3, <1>7, <2>4, <3>1, Unwritten
    <2>5. CASE AllWritten
      BY <1>0, <1>1, <1>8, <2>2, <2>4, <2>5 DEF IInv, AllWritten, Skip
    <2>6. CASE PartlyWritten
      <3>1. PICK W \in SUBSET Slots : W = 0 .. s_head - 1
        BY <1>0, SizeType DEF Types, Slots
      <3>2. Contiguous(W)' /\ W = (0 .. s_head - 1)'
        BY <1>8, <2>4, <2>6, <3>1 DEF PartlyWritten, Skip
      <3>3. PartlyWritten'
        BY <2>3, <2>6, <3>2 DEF PartlyWritten, Contiguous
      <3> QED
        BY <1>0, <1>1, <1>8, <2>2, <3>3 DEF IInv, Skip
    <2> QED
      BY <1>0, <2>5, <2>6
  <1>9. CASE enabled /\ ~fresh /\ Record(Duration(40000, Current + 1, 0))
    <2>1. PICK d : d = Duration(40000, Current + 1, 0)
      OBVIOUS
    <2>2. d.frame = Current' /\ d.pos = 0 /\ d \in DurationType'
      BY <1>2, <1>3, <2>1 DEF Duration, DurationType
    <2>3. Newest(d)'
      BY <1>4, <1>5, <2>2 DEF Newest
    <2>4. ASSUME NEW e \in DurationType, Newest(e), e.frame \in 1 .. Len(frames)
          PROVE  Succeeds(e, d)'
      <3>1. e.frame = Current /\ e.pos = Len(FrameOf(frames[Current]))
        BY <1>1, <2>4 DEF Newest
      <3>2. d.frame = e.frame + 1 /\ frames'[e.frame] = frames[Current]
        BY <1>2, <1>3, <2>2, <2>4, <3>1
      <3>3. d.us = 40000
        BY <2>1 DEF Duration
      <3> QED
        BY <2>2, <3>1, <3>2, <3>3 DEF Succeeds, Follows, Exact
    <2>5. /\ Record(d) /\ d.frame \in 1 .. Len(frames)' /\ enabled /\ ~fresh
          /\ fresh' = FALSE
      BY <1>0, <1>1, <1>2, <1>3, <1>9, <2>1, <2>2 DEF Types
    <2>6. /\ s_dur' \in [Slots -> DurationType']
          /\ s_head' \in Slots /\ s_tail' \in Tails
          /\ Loc'
          /\ PartlyWritten' \/ AllWritten'
      BY <1>3, <2>2, <2>3, <2>4, <2>5, RecordKeeps
    <2> QED
      BY <1>0, <1>1, <1>2, <1>3, <1>5, <2>5, <2>6 DEF IInv, Types, Tails
  <1> QED
    BY <1>8, <1>9 DEF FrameBegins
(* A step of the sketch that leaves the ring's entries alone needs only to *)
(* leave no tail above the head. *)
LEMMA QuietStep ==
  ASSUME IInv, UNCHANGED <<s_dur, s_head, frames, line>>,
         UNCHANGED <<enabled, fresh>> \/ (enabled' = FALSE /\ fresh' = FALSE),
         s_tail' \in Tails, Loc', decoded' \subseteq 0 .. Len(frames),
         Below => Below'
  PROVE  IInv'
  <1>0. Types /\ (fresh => s_head = 0) /\ (PartlyWritten \/ AllWritten)
    BY DEF IInv
  <1>1. Extends
    BY <1>0, FramesType DEF Extends
  <1>2. LineType' /\ DurationType' = DurationType
    BY <1>0 DEF Types, LineType, Current, DurationType
  <1>3. enabled' \in BOOLEAN /\ fresh' \in BOOLEAN /\ (fresh' => fresh)
    <2>1. enabled \in BOOLEAN /\ fresh \in BOOLEAN
      BY <1>0 DEF Types
    <2>2. CASE UNCHANGED <<enabled, fresh>>
      BY <2>1, <2>2
    <2>3. CASE enabled' = FALSE /\ fresh' = FALSE
      BY <2>3
    <2> QED
      BY <2>2, <2>3
  <1>4. Types'
    BY <1>0, <1>2, <1>3 DEF Types, Tails
  <1>5. \A e : Newest(e) <=> Newest(e)'
    BY DEF Newest, Current, Pos
  <1>6. ASSUME NEW W \in SUBSET Slots, Contiguous(W)
        PROVE  Contiguous(W)'
    <2>1. ~(enabled' /\ ~fresh') \/ (enabled /\ ~fresh)
      BY <1>3
    <2> QED
      BY <1>0, <1>1, <1>5, <1>6, <2>1, Unwritten
  <1>7. CASE AllWritten
    BY <1>0, <1>3, <1>4, <1>6, <1>7 DEF IInv, AllWritten
  <1>8. CASE PartlyWritten
    <2>1. PICK W \in SUBSET Slots : W = 0 .. s_head - 1
      BY <1>0, SizeType DEF Types, Slots
    <2>2. Contiguous(W)' /\ W = (0 .. s_head - 1)'
      BY <1>6, <1>8, <2>1 DEF PartlyWritten
    <2>3. PartlyWritten'
      BY <1>8, <2>2 DEF PartlyWritten, Contiguous
    <2> QED
      BY <1>0, <1>3, <1>4, <2>3 DEF IInv
  <1> QED
    BY <1>0, <1>7, <1>8

LEMMA EnableStep ==
  ASSUME IInv, enableIRIn
  PROVE  IInv'
  <1>0. Types
    BY DEF IInv
  <1>1. /\ pc' = Loop /\ s_head' = 0 /\ s_tail' = 0
        /\ enabled' = TRUE /\ fresh' = TRUE
        /\ UNCHANGED <<s_dur, frames, line, decoded>>
    BY DEF enableIRIn
  <1>2. 0 \in Slots /\ 0 \in Tails /\ Place(0) = 0
    BY SizeType DEF Slots, Tails, Place
  <1>3. LineType' /\ DurationType' = DurationType /\ Loc'
    BY <1>0, <1>1 DEF Types, LineType, Current, DurationType, Loc, Loop
  <1>4. Types'
    BY <1>0, <1>1, <1>2, <1>3 DEF Types, Tails
  <1>5. Below'
    BY <1>1, <1>2 DEF Below, Loop, Place
  <1>6. (0 .. s_head - 1)' = {}
    BY <1>1
  <1>7. Contiguous(0 .. s_head - 1)'
    BY <1>6 DEF Contiguous
  <1> QED
    BY <1>1, <1>4, <1>5, <1>7 DEF IInv, PartlyWritten

LEMMA DisableStep ==
  ASSUME IInv, disableIRIn
  PROVE  IInv'
  <1>1. Types /\ UNCHANGED <<s_dur, s_head, s_tail, pc, frames, line, decoded>>
        /\ enabled' = FALSE /\ fresh' = FALSE
    BY DEF IInv, disableIRIn
  <1>2. s_tail' \in Tails /\ Loc' /\ decoded' \subseteq 0 .. Len(frames)
    BY <1>1 DEF Types, Loc, AtHeader, AtBits, AtStore, DurationType, Tails
  <1>3. Below => Below'
    BY <1>1 DEF Below, Place
  <1> QED
    BY <1>1, <1>2, <1>3, QuietStep

LEMMA ResumeStep ==
  ASSUME IInv, resume
  PROVE  IInv'
  <1>1. Types /\ UNCHANGED <<s_dur, s_head, pc, enabled, fresh, frames, line, decoded>>
        /\ pc = Loop /\ s_tail' = s_head
    BY DEF IInv, resume
  <1>2. s_tail' \in Tails /\ Place(s_tail') = s_head
    BY <1>1, SlotIsTail DEF Types
  <1>3. Loc' /\ decoded' \subseteq 0 .. Len(frames)
    BY <1>1 DEF Types, Loc
  <1>4. s_head \in Nat /\ Below'
    BY <1>1, <1>2, SizeType DEF Below, Place, Loop, Types, Slots
  <1> QED
    BY <1>1, <1>2, <1>3, <1>4, QuietStep

-----------------------------------------------------------------------------
(* decode(), from its snapshot to its store of the tail. *)
LEMMA SnapshotStep ==
  ASSUME IInv, Snapshot
  PROVE  IInv'
  <1>1. Types /\ UNCHANGED <<s_dur, s_head, s_tail, enabled, fresh, frames, line, decoded>>
        /\ available(s_head, s_tail) >= 3
        /\ pc' = [at |-> "header", tail |-> s_tail,
                  avail |-> available(s_head, s_tail), kept |-> TRUE]
    BY DEF IInv, Snapshot
  <1>2. s_head \in Slots /\ s_tail \in Tails
    BY <1>1 DEF Types
  <1>3. available(s_head, s_tail) \in 3 .. BufSize - 1
    BY <1>1, <1>2, AvailableCases, SizeType DEF Slots
  <1>4. AtHeader'
    BY <1>1, <1>2, <1>3 DEF AtHeader, Tails
  <1>5. Loc' /\ decoded' \subseteq 0 .. Len(frames) /\ s_tail' \in Tails
    BY <1>1, <1>2, <1>4 DEF Loc, Types
  <1>6. ASSUME Below PROVE Below'
    <2>1. Place(s_tail) <= s_head /\ Place(s_tail)' = Place(s_tail)
      BY <1>1, <1>6 DEF Below, Place
    <2>2. available(s_head, s_tail) = s_head - Place(s_tail) /\ Place(s_tail) \in Slots
      BY <1>2, <2>1, AvailableCases, PlaceCases
    <2>3. Place(s_tail) + available(s_head, s_tail) <= s_head
      BY <1>2, <2>2, SizeType DEF Slots
    <2> QED
      BY <1>1, <2>1, <2>3 DEF Below, Place
  <1> QED
    BY <1>1, <1>5, <1>6, QuietStep
LEMMA AtType ==
  ASSUME Types, NEW i, NEW e \in At(i)
  PROVE  e \in DurationType
  <1>1. CASE i \in Slots
    BY <1>1 DEF At, Types
  <1>2. CASE i \notin Slots
    BY <1>2, FramesType DEF At, Beyond, Duration, DurationType
  <1> QED
    BY <1>1, <1>2

LEMMA ReturnsStep ==
  ASSUME IInv, Reading, NEW to \in Tails, NEW e \in DurationType, NEW b, NEW v,
         Returns(to, e, b, v), Below => Place(to) <= s_head
  PROVE  IInv'
  <1>1. Types /\ UNCHANGED <<s_dur, s_head, s_tail, enabled, fresh, frames, line, decoded>>
    BY DEF IInv, Reading
  <1>2. pc' = [at |-> "store", to |-> to, from |-> e, inside |-> b,
               value |-> v, kept |-> pc.kept]
    BY DEF Returns
  <1>3. e \in DurationType' /\ to \in Tails'
    BY <1>1 DEF DurationType, Tails
  <1>4. AtStore'
    BY <1>2, <1>3 DEF AtStore
  <1>5. Loc' /\ decoded' \subseteq 0 .. Len(frames) /\ s_tail' \in Tails
    BY <1>1, <1>4 DEF Loc, Types
  <1>6. Below => Below'
    BY <1>1, <1>2 DEF Below, Place
  <1> QED
    BY <1>1, <1>5, <1>6, QuietStep

LEMMA HeaderStep ==
  ASSUME IInv, ReadHeader
  PROVE  IInv'
  <1>1. Types /\ Reading /\ pc.at = "header" /\ s_head \in Slots
        /\ UNCHANGED <<s_dur, s_head, s_tail, enabled, fresh, frames, line, decoded>>
    BY DEF IInv, Types, ReadHeader, Reading
  <1>2. PICK d0 \in At(pc.tail), d1 \in At(ir_next(pc.tail)) :
          NoHeader(d0, d1) \/ Waits(d0, d1) \/ DataFrame(d0, d1) \/ RepeatFrame(d0, d1)
    BY DEF ReadHeader
  <1>3. d0 \in DurationType
    BY <1>1, AtType
  <1>4. pc.tail \in Tails /\ pc.avail \in 3 .. BufSize - 1 /\ Place(pc.tail) \in Slots
    BY <1>1, LocParts, PlaceCases
  <1>5. Below => Place(pc.tail) + pc.avail <= s_head
    BY <1>1 DEF Below
  <1>6. ir_next(pc.tail) \in Tails /\ (Below => Place(ir_next(pc.tail)) <= s_head)
    <2>1. Below => Place(pc.tail) + 1 <= s_head
      BY <1>1, <1>4, <1>5, SizeType DEF Slots
    <2>2. ir_next(pc.tail) \in Slots
          /\ ir_next(pc.tail) = IF Place(pc.tail) = BufSize - 1 THEN 0 ELSE Place(pc.tail) + 1
      BY <1>4, NextCases
    <2>3. Place(ir_next(pc.tail)) = ir_next(pc.tail) /\ ir_next(pc.tail) \in Tails
      BY <2>2, SlotIsTail
    <2> QED
      BY <1>1, <1>4, <2>1, <2>2, <2>3, SizeType DEF Slots
  <1>7. CASE NoHeader(d0, d1)
    BY <1>1, <1>3, <1>6, <1>7, ReturnsStep DEF NoHeader
  <1>8. CASE RepeatFrame(d0, d1)
    <2>1. 3 \in Slots
      BY SizeType DEF Slots
    <2>2. /\ (pc.tail + 3) % IndexSize \in Tails
          /\ Place((pc.tail + 3) % IndexSize) =
               IF Place(pc.tail) + 3 < BufSize THEN Place(pc.tail) + 3
                                               ELSE Place(pc.tail) + 3 - BufSize
      BY <1>4, <2>1, MoveCases
    <2>3. Below => Place((pc.tail + 3) % IndexSize) <= s_head
      BY <1>1, <1>4, <1>5, <2>2, SizeType DEF Slots
    <2> QED
      BY <1>1, <1>3, <1>8, <2>2, <2>3, ReturnsStep DEF RepeatFrame
  <1>9. CASE Waits(d0, d1)
    <2>1. pc' = Loop
      BY <1>9 DEF Waits
    <2>2. Loc' /\ decoded' \subseteq 0 .. Len(frames) /\ s_tail' \in Tails
      BY <1>1, <2>1 DEF Loc, Loop, Types
    <2>3. Below => Below'
      BY <1>1, <2>1 DEF Below, Place, Loop
    <2> QED
      BY <1>1, <2>2, <2>3, QuietStep
  <1>10. CASE DataFrame(d0, d1)
    <2>1. pc.avail >= 2 + 2 * FrameBits
          /\ pc' = [at |-> "bits", tail |-> pc.tail, i |-> 0, data |-> {}, from |-> d0,
                    inside |-> pc.tail \in Slots, kept |-> pc.kept]
      BY <1>10 DEF DataFrame, Complete
    <2>2. d0 \in DurationType' /\ pc.tail \in Tails'
      BY <1>1, <1>3, <1>4 DEF DurationType, Tails
    <2>3. PICK t, b, k :
            pc' = [at |-> "bits", tail |-> t, i |-> 0, data |-> {}, from |-> d0,
                   inside |-> b, kept |-> k] /\ t = pc.tail
      BY <2>1
    <2>4. AtBits'
      BY <2>2, <2>3 DEF AtBits, Tails
    <2>5. Loc' /\ decoded' \subseteq 0 .. Len(frames) /\ s_tail' \in Tails
      BY <1>1, <2>4 DEF Loc, Types
    <2>6. Below => Place(pc.tail) + 2 + 2 * FrameBits <= s_head
      BY <1>1, <1>4, <1>5, <2>1, SizeType DEF Slots
    <2>7. Below => Below'
      BY <1>1, <2>3, <2>6 DEF Below, Place
    <2> QED
      BY <1>1, <2>5, <2>7, QuietStep
  <1> QED
    BY <1>2, <1>7, <1>8, <1>9, <1>10

LEMMA BitStep ==
  ASSUME IInv, ReadBit
  PROVE  IInv'
  <1>1. Types /\ Reading /\ pc.at = "bits" /\ s_head \in Slots
        /\ UNCHANGED <<s_dur, s_head, s_tail, enabled, fresh, frames, line, decoded>>
    BY DEF IInv, Types, ReadBit, Reading
  <1>2. AtBits /\ pc.tail \in Tails /\ pc.from \in DurationType /\ Place(pc.tail) \in Slots
    BY <1>1, LocParts, PlaceCases
  <1>3. Below => Place(pc.tail) + 2 + 2 * FrameBits <= s_head
    BY <1>1 DEF Below
  <1>4. ir_next(pc.tail) \in Tails /\ (Below => Place(ir_next(pc.tail)) <= s_head)
    <2>1. Below => Place(pc.tail) + 1 <= s_head
      BY <1>1, <1>2, <1>3, SizeType DEF Slots
    <2>2. ir_next(pc.tail) \in Slots
          /\ ir_next(pc.tail) = IF Place(pc.tail) = BufSize - 1 THEN 0 ELSE Place(pc.tail) + 1
      BY <1>2, NextCases
    <2>3. Place(ir_next(pc.tail)) = ir_next(pc.tail) /\ ir_next(pc.tail) \in Tails
      BY <2>2, SlotIsTail
    <2> QED
      BY <1>1, <1>2, <2>1, <2>2, <2>3, SizeType DEF Slots
  <1>5. CASE \E b, v : Returns(ir_next(pc.tail), pc.from, b, v)
    BY <1>1, <1>2, <1>4, <1>5, ReturnsStep
  <1>6. CASE \E b, v : Returns((pc.tail + 2 + 2 * FrameBits) % IndexSize, pc.from, b, v)
    <2>1. PICK n \in Slots : n = 2 + 2 * FrameBits
      BY SizeType DEF Slots
    <2>2. pc.tail + 2 + 2 * FrameBits = pc.tail + n
      BY <1>2, <2>1, SizeType DEF Tails
    <2>3. /\ (pc.tail + n) % IndexSize \in Tails
          /\ Place((pc.tail + n) % IndexSize) =
               IF Place(pc.tail) + n < BufSize THEN Place(pc.tail) + n
                                               ELSE Place(pc.tail) + n - BufSize
      BY <1>2, MoveCases
    <2>4. Below => Place((pc.tail + n) % IndexSize) <= s_head
      BY <1>1, <1>2, <1>3, <2>1, <2>3, SizeType DEF Slots
    <2> QED
      BY <1>1, <1>2, <1>6, <2>2, <2>3, <2>4, ReturnsStep
  <1>7. CASE \E i, v, b : pc' = [pc EXCEPT !.i = i, !.data = v, !.inside = b]
    <2>1. PICK t, e, i, v, b, k :
            t \in Tails /\ e \in DurationType /\
            pc = [at |-> "bits", tail |-> t, i |-> i, data |-> v, from |-> e,
                  inside |-> b, kept |-> k]
      BY <1>2 DEF AtBits
    <2>2. PICK i1, v1, b1 : pc' = [pc EXCEPT !.i = i1, !.data = v1, !.inside = b1]
      BY <1>7
    <2>3. pc' = [at |-> "bits", tail |-> t, i |-> i1, data |-> v1, from |-> e,
                 inside |-> b1, kept |-> k]
      BY <2>1, <2>2
    <2>4. e \in DurationType' /\ t \in Tails' /\ pc.tail = t
      BY <1>1, <2>1 DEF DurationType, Tails
    <2>5. AtBits'
      BY <2>3, <2>4 DEF AtBits
    <2>6. Loc' /\ decoded' \subseteq 0 .. Len(frames) /\ s_tail' \in Tails
      BY <1>1, <2>5 DEF Loc, Types
    <2>7. Below => Below'
      BY <1>1, <1>3, <2>3, <2>4 DEF Below, Place
    <2> QED
      BY <1>1, <2>6, <2>7, QuietStep
  <1>8. PICK v :
          \/ Returns(ir_next(pc.tail), pc.from, Inside, None)
          \/ pc' = [pc EXCEPT !.i = @ + 1, !.data = v, !.inside = Inside]
          \/ Returns((pc.tail + 2 + 2 * FrameBits) % IndexSize, pc.from, Inside, v)
    <2>1. PICK sp : LET data == IF sp.us > 1100 THEN pc.data \cup {pc.i} ELSE pc.data
                    IN  \/ Returns(ir_next(pc.tail), pc.from, Inside, None)
                        \/ pc' = [pc EXCEPT !.i = @ + 1, !.data = data, !.inside = Inside]
                        \/ Returns((pc.tail + 2 + 2 * FrameBits) % IndexSize, pc.from,
                                   Inside, data)
      BY ZenonT(30) DEF ReadBit
    <2> QED
      BY <2>1, ZenonT(30)
  <1> QED
    BY <1>5, <1>6, <1>7, <1>8
LEMMA StoreStep ==
  ASSUME IInv, Store
  PROVE  IInv'
  <1>1. Types /\ pc.at = "store" /\ s_tail' = pc.to /\ pc' = Loop
        /\ UNCHANGED <<s_dur, s_head, enabled, fresh, frames, line>>
        /\ decoded' \subseteq decoded \cup {pc.from.frame}
    BY DEF IInv, Store
  <1>2. pc.to \in Tails /\ pc.from \in DurationType
    BY <1>1, LocParts
  <1>3. decoded' \subseteq 0 .. Len(frames)
    BY <1>1, <1>2 DEF Types, DurationType
  <1>4. Loc'
    BY <1>1 DEF Loc, Loop
  <1>5. Below => Below'
    BY <1>1 DEF Below, Place, Loop
  <1> QED
    BY <1>1, <1>2, <1>3, <1>4, <1>5, QuietStep

LEMMA InitInv == Init => IInv
  <1> SUFFICES ASSUME Init PROVE IInv
    OBVIOUS
  <1>1. Len(frames) = 0 /\ frames \in Seq(Sent) /\ line = << >> /\ pc = Loop
    BY DEF Init
  <1>2. 0 \in Slots /\ 0 \in Tails /\ Place(0) = 0
    BY SizeType DEF Slots, Tails, Place
  <1>3. Duration(0, 0, 0) \in DurationType
    BY <1>1 DEF Duration, DurationType
  <1>4. s_dur \in [Slots -> DurationType]
    BY <1>3 DEF Init
  <1>5. Types
    BY <1>1, <1>2, <1>4, BoundAssumption DEF Init, Types, Loc, LineType
  <1>6. Below
    BY <1>1, <1>2 DEF Init, Below, Loop
  <1>7. Contiguous(0 .. s_head - 1)
    BY DEF Init, Contiguous
  <1> QED
    BY <1>5, <1>6, <1>7 DEF Init, IInv, PartlyWritten

LEMMA StutterStep ==
  ASSUME IInv, UNCHANGED vars
  PROVE  IInv'
  <1>1. Types /\ UNCHANGED <<s_dur, s_head, s_tail, enabled, fresh, pc, frames, line, decoded>>
    BY DEF IInv, vars
  <1>2. Loc' /\ decoded' \subseteq 0 .. Len(frames) /\ s_tail' \in Tails
    BY <1>1 DEF Types, Loc, AtHeader, AtBits, AtStore, DurationType, Tails
  <1>3. Below => Below'
    BY <1>1 DEF Below, Place
  <1> QED
    BY <1>1, <1>2, <1>3, QuietStep

(* The invariant holds in every state, whatever frames are sent, however   *)
(* the interrupt and decode() interleave, and whenever the receiver is     *)
(* attached and detached. *)
THEOREM Inductive == Spec => []IInv
  <1>1. Init => IInv
    BY InitInv
  <1>2. IInv /\ [Next]_vars => IInv'
    <2> SUFFICES ASSUME IInv, [Next]_vars PROVE IInv'
      OBVIOUS
    <2>1. CASE FrameEdge
      BY <2>1, EdgeStep
    <2>2. CASE \E v \in Sent : FrameBegins(v)
      BY <2>2, BeginsStep
    <2>3. CASE enableIRIn
      BY <2>3, EnableStep
    <2>4. CASE disableIRIn
      BY <2>4, DisableStep
    <2>5. CASE resume
      BY <2>5, ResumeStep
    <2>6. CASE Snapshot
      BY <2>6, SnapshotStep
    <2>7. CASE ReadHeader
      BY <2>7, HeaderStep
    <2>8. CASE ReadBit
      BY <2>8, BitStep
    <2>9. CASE Store
      BY <2>9, StoreStep
    <2>10. CASE UNCHANGED vars
      BY <2>10, StutterStep
    <2> QED
      BY <2>1, <2>2, <2>3, <2>4, <2>5, <2>6, <2>7, <2>8, <2>9, <2>10 DEF Next
  <1> QED
    BY <1>1, <1>2, PTL DEF Spec

-----------------------------------------------------------------------------
(* A piece of the ring that begins at the tail and ends at the head lies   *)
(* in what has been written. *)
LEMMA PieceIsWritten ==
  ASSUME Types, NEW W \in SUBSET Slots,
         W = Slots \/ (W = 0 .. s_head - 1 /\ Place(s_tail) <= s_head),
         NEW i \in 0 .. available(s_head, s_tail) - 1,
         NEW s, s = (s_tail + i) % BufSize
  PROVE  s \in W
  <1>1. s_head \in Slots /\ s_tail \in Tails /\ Place(s_tail) \in Slots
    BY PlaceCases DEF Types
  <1>2. i \in Slots /\ i < available(s_head, s_tail)
    <2>1. PICK n \in Slots : n = available(s_head, s_tail)
      BY <1>1, AvailableCases
    <2> QED
      BY <2>1, SizeType DEF Slots
  <1>3. s = IF Place(s_tail) + i < BufSize THEN Place(s_tail) + i
                                           ELSE Place(s_tail) + i - BufSize
    BY <1>1, <1>2, SlotCases
  <1>4. s \in Slots
    <2>1. PICK a \in Slots : a = Place(s_tail)
      BY <1>1
    <2>2. s = IF a + i < BufSize THEN a + i ELSE a + i - BufSize
      BY <1>3, <2>1
    <2> QED
      BY <1>2, <2>2, SizeType DEF Slots
  <1>5. CASE W = 0 .. s_head - 1 /\ Place(s_tail) <= s_head
    <2>1. available(s_head, s_tail) = s_head - Place(s_tail)
      BY <1>1, <1>5, AvailableCases
    <2> QED
      BY <1>1, <1>2, <1>3, <1>5, <2>1, SizeType DEF Slots
  <1> QED
    BY <1>4, <1>5

LEMMA NextEntry ==
  ASSUME Types, NEW i \in 0 .. available(s_head, s_tail) - 2
  PROVE  LET s == (s_tail + i) % BufSize
         IN  /\ (s_tail + (i + 1)) % BufSize = ir_next(s)
             /\ ir_next(s) # s_head
  <1>1. s_head \in Slots /\ s_tail \in Tails /\ Place(s_tail) \in Slots
    BY PlaceCases DEF Types
  <1>2. /\ available(s_head, s_tail) \in Slots
        /\ available(s_head, s_tail) = IF Place(s_tail) <= s_head
               THEN s_head - Place(s_tail) ELSE s_head - Place(s_tail) + BufSize
    BY <1>1, AvailableCases
  <1>3. i \in Slots /\ i + 1 \in Slots /\ i + 1 < available(s_head, s_tail)
    BY <1>2, SizeType DEF Slots
  <1>4. PICK s : s = (s_tail + i) % BufSize
    OBVIOUS
  <1>5. s = IF Place(s_tail) + i < BufSize THEN Place(s_tail) + i
                                           ELSE Place(s_tail) + i - BufSize
    BY <1>1, <1>3, <1>4, SlotCases
  <1>6. (s_tail + (i + 1)) % BufSize =
          IF Place(s_tail) + (i + 1) < BufSize THEN Place(s_tail) + (i + 1)
                                               ELSE Place(s_tail) + (i + 1) - BufSize
    BY <1>1, <1>3, SlotCases
  <1>7. s \in Slots
    BY <1>1, <1>3, <1>5, SizeType DEF Slots
  <1>8. ir_next(s) = IF s = BufSize - 1 THEN 0 ELSE s + 1
    BY <1>7, NextSlot
  <1>9. (s_tail + (i + 1)) % BufSize = ir_next(s)
    BY <1>1, <1>3, <1>5, <1>6, <1>8, SizeType DEF Slots
  <1>10. ir_next(s) # s_head
    BY <1>1, <1>2, <1>3, <1>5, <1>8, SizeType DEF Slots
  <1> QED
    BY <1>4, <1>9, <1>10

(* Every variable keeps its type: no index of the interrupt leaves the     *)
(* ring, and the tail fits its uint8_t, whatever decode() stores. *)
LEMMA TypesImplied == IInv => TypeOK
  <1> SUFFICES ASSUME IInv PROVE TypeOK
    OBVIOUS
  <1>1. Types
    BY DEF IInv
  <1>2. pc.at \in {"loop", "header", "bits", "store"}
    BY <1>1, LocParts
  <1> QED
    BY <1>1, <1>2 DEF Types, TypeOK, Tails

(* The i-th entry between tail and head, and the one behind it. *)
LEMMA Ahead ==
  ASSUME IInv, NEW i \in Nat, i < available(s_head, s_tail),
         NEW s, s = (s_tail + i) % BufSize
  PROVE  /\ s \in Slots /\ s # s_head /\ s_dur[s].frame \in 1 .. Len(frames)
         /\ i + 1 < available(s_head, s_tail) =>
              /\ (s_tail + (i + 1)) % BufSize = ir_next(s)
              /\ s_dur[ir_next(s)].frame \in 1 .. Len(frames)
              /\ Succeeds(s_dur[s], s_dur[ir_next(s)])
  <1>1. Types
    BY DEF IInv
  <1>2. PICK W \in SUBSET Slots :
          /\ Contiguous(W)
          /\ W = Slots \/ (W = 0 .. s_head - 1 /\ Place(s_tail) <= s_head)
    <2>1. CASE AllWritten
      BY <2>1 DEF AllWritten
    <2>2. CASE PartlyWritten
      <3>1. 0 .. s_head - 1 \in SUBSET Slots
        BY <1>1, SizeType DEF Types, Slots
      <3> QED
        BY <2>2, <3>1 DEF PartlyWritten, Below
    <2> QED
      BY <2>1, <2>2 DEF IInv
  <1>3. /\ s_head \in Slots /\ s_tail \in Tails /\ Place(s_tail) \in Slots
        /\ available(s_head, s_tail) \in Slots
        /\ available(s_head, s_tail) = IF Place(s_tail) <= s_head
               THEN s_head - Place(s_tail) ELSE s_head - Place(s_tail) + BufSize
    BY <1>1, PlaceCases, AvailableCases DEF Types
  <1>4. i \in 0 .. available(s_head, s_tail) - 1 /\ i \in Slots
    BY <1>3, SizeType DEF Slots
  <1>5. s \in W /\ s \in Slots /\ s_dur[s].frame \in 1 .. Len(frames)
    BY <1>1, <1>2, <1>4, PieceIsWritten DEF Contiguous
  <1>6. s # s_head
    <2>1. s = IF Place(s_tail) + i < BufSize THEN Place(s_tail) + i
                                             ELSE Place(s_tail) + i - BufSize
      BY <1>3, <1>4, SlotCases
    <2> QED
      BY <1>3, <1>4, <2>1, SizeType DEF Slots
  <1>7. ASSUME i + 1 < available(s_head, s_tail)
        PROVE  /\ (s_tail + (i + 1)) % BufSize = ir_next(s)
               /\ s_dur[ir_next(s)].frame \in 1 .. Len(frames)
               /\ Succeeds(s_dur[s], s_dur[ir_next(s)])
    <2>1. i \in 0 .. available(s_head, s_tail) - 2
          /\ i + 1 \in 0 .. available(s_head, s_tail) - 1
      BY <1>3, <1>7 DEF Slots
    <2>2. (s_tail + (i + 1)) % BufSize = ir_next(s) /\ ir_next(s) # s_head
      BY <1>1, <2>1, NextEntry
    <2>3. ir_next(s) \in W
      BY <1>1, <1>2, <2>1, <2>2, PieceIsWritten
    <2> QED
      BY <1>2, <1>5, <2>2, <2>3 DEF Contiguous
  <1> QED
    BY <1>5, <1>6, <1>7

LEMMA ContiguousImplied == IInv => RingIsContiguous
  <1> SUFFICES ASSUME IInv PROVE RingIsContiguous
    OBVIOUS
  <1>1. Types /\ TypeOK
    BY TypesImplied DEF IInv
  <1>2. available(s_head, s_tail) \in Nat
    BY <1>1, AvailableCases, SizeType DEF Types, Slots
  <1>3. ASSUME NEW i \in 0 .. available(s_head, s_tail) - 1
        PROVE  Entry(i).frame \in 1 .. Len(frames)
    BY <1>2, Ahead DEF Entry
  <1>4. ASSUME NEW i \in 0 .. available(s_head, s_tail) - 2
        PROVE  Follows(Entry(i), Entry(i + 1))
    BY <1>2, Ahead DEF Entry, Succeeds
  <1> QED
    BY <1>1, <1>3, <1>4 DEF RingIsContiguous

(* What is between tail and head is a contiguous piece of what the line    *)
(* brought, for every size of the ring and every sequence of frames: the   *)
(* tail that decode() stores from its old snapshot brings no stale or      *)
(* unwritten slot back (RingIsContiguous). *)
THEOREM RingCorrect == Spec => []RingIsContiguous
  BY Inductive, ContiguousImplied, PTL

-----------------------------------------------------------------------------
(* What decode() returns.  Of each entry the ring ever held:               *)
(* its first duration has been over since, and it is as its frame has it   *)
(* unless it is the one the receiver was attached in.                      *)
Begun(f) == f < Current \/ (f = Current /\ (line = << >> \/ Pos > 1))

Entered(e) ==
    /\ e.frame = 0 => e.pos = 0
    /\ e.frame # 0 => Exact(e) \/ e.us \in {100, 1687, 40000}
    /\ e.pos = 1 => Begun(e.frame)

History ==
    /\ \A s \in Slots : Entered(s_dur[s])
    /\ \A s, r \in Slots : s_dur[s].pos = 1 /\ s_dur[r].pos = 1
                           /\ s_dur[s].frame = s_dur[r].frame => s = r
    /\ \A f \in decoded : Begun(f)

(* The slots from a tail up to a head. *)
Region(t, h) ==
    {s \in Slots : IF Place(t) <= h THEN Place(t) <= s /\ s < h
                                    ELSE Place(t) <= s \/ s < h}

(* No frame begins in R that decode() has returned. *)
Undecoded(R) == \A s \in R : s_dur[s].pos = 1 => s_dur[s].frame \notin decoded

(* A decode() under way with tail t, of which it needs n entries, still    *)
(* has them unless the interrupt has dropped one: then the ring is full,   *)
(* and has lost every entry that it had returned.                          *)
Here(t, n) == s_tail = t /\ n <= available(s_head, s_tail)

Snapped(t, n, k) ==
    /\ Undecoded(Slots) \/ (Here(t, n) /\ Undecoded(Region(t, s_head)))
    /\ k /\ t \in Slots => Here(t, n)

(* In front of bit i, decode() has read the space of the bit before it, or *)
(* of the header, and has the bits up to there.                            *)
ReadSoFar(s, i, v, f) ==
    s_dur[s].frame = f /\ s_dur[s].pos = 2 + 2 * i /\ v = frames[f] \cap (0 .. i - 1)

BitsRead(t, i, v, e, b, k) ==
    /\ i \in 0 .. FrameBits - 1
    /\ b => t \in Slots
    /\ e.frame = 0 => e.pos = 0
    /\ k /\ t \notin Slots => e.frame = 0
    /\ k /\ t \in Slots => e = s_dur[t] /\ e.pos = 1 /\ frames[e.frame] # Repeat
    /\ k /\ b => ReadSoFar((t + (1 + 2 * i)) % BufSize, i, v, e.frame)

(* What decode() will return, and the tail it will store: behind the       *)
(* beginning of the frame it returns.                                      *)
Outcome(t, e, b, v, k) ==
    /\ Undecoded(Region(t, s_head))
    /\ e.frame = 0 => e.pos = 0
    /\ k /\ v # None =>
         /\ Begun(e.frame)
         /\ \A s \in Region(t, s_head) : s_dur[s].pos = 1 => s_dur[s].frame # e.frame
    /\ b /\ k /\ v # None => e.pos = 1 /\ v = frames[e.frame] /\ e.frame \notin decoded
    /\ b /\ k /\ v = None => e.pos # 1 \/ e.us # 9000

InLoop == pc.at = "loop" => Undecoded(Region(s_tail, s_head))
InHeader == pc.at = "header" => Snapped(pc.tail, pc.avail, pc.kept)
InBits ==
    pc.at = "bits" =>
        /\ Snapped(pc.tail, 2 + 2 * FrameBits, pc.kept)
        /\ BitsRead(pc.tail, pc.i, pc.data, pc.from, pc.inside, pc.kept)
InStore == pc.at = "store" => Outcome(pc.to, pc.from, pc.inside, pc.value, pc.kept)

DecodeInv == IInv /\ History /\ InLoop /\ InHeader /\ InBits /\ InStore

(* The region between a tail and the head, as both move. *)
LEMMA RegionGrows ==
  ASSUME NEW t \in Tails, NEW h \in Slots
  PROVE  /\ Region(t, h) \subseteq Slots
         /\ Region(t, ir_next(h)) \subseteq Region(t, h) \cup {h}
         /\ Place(t) = ir_next(h) => Slots = Region(t, h) \cup {h}
         /\ ir_next(h) = t =>
              Region(ir_next(t), ir_next(h)) \subseteq Region(t, h) \cup {h}
  <1>1. PICK p \in Slots, n \in Slots : p = Place(t) /\ n = ir_next(h)
    BY PlaceCases, NextSlot
  <1>2. n = IF h = BufSize - 1 THEN 0 ELSE h + 1
    BY <1>1, NextSlot
  <1>3. ASSUME NEW s \in Slots, s \in Region(t, n)
        PROVE  s \in Region(t, h) \cup {h}
    BY <1>1, <1>2, <1>3, SizeType DEF Region, Slots
  <1>4. Region(t, n) \subseteq Region(t, h) \cup {h}
    BY <1>3 DEF Region
  <1>5. ASSUME p = n, NEW s \in Slots
        PROVE  s \in Region(t, h) \cup {h}
    BY <1>1, <1>2, <1>5, SizeType DEF Region, Slots
  <1>6. ASSUME n = t
        PROVE  Region(ir_next(t), n) \subseteq Region(t, h) \cup {h}
    <2>1. p = n
      BY <1>1, <1>6, SlotIsTail
    <2> QED
      BY <1>5, <2>1 DEF Region
  <1>7. Region(t, h) \subseteq Slots
    BY DEF Region
  <1> QED
    BY <1>1, <1>4, <1>5, <1>6, <1>7

LEMMA RegionShrinks ==
  ASSUME NEW t \in Tails, NEW h \in Slots, NEW n \in Slots, n > 0,
         n <= available(h, t), NEW u \in Tails,
         Place(u) = IF Place(t) + n < BufSize THEN Place(t) + n ELSE Place(t) + n - BufSize
  PROVE  Region(u, h) \subseteq Region(t, h) \ {Place(t)}
  <1>1. PICK p \in Slots, q \in Slots : p = Place(t) /\ q = Place(u)
    BY PlaceCases
  <1>2. q = IF p + n < BufSize THEN p + n ELSE p + n - BufSize
    BY <1>1
  <1>3. n <= IF p <= h THEN h - p ELSE h - p + BufSize
    BY <1>1, AvailableCases
  <1>4. ASSUME NEW s \in Slots, s \in Region(u, h)
        PROVE  s \in Region(t, h) /\ s # p
    BY <1>1, <1>2, <1>3, <1>4, SizeType DEF Region, Slots
  <1> QED
    BY <1>1, <1>4 DEF Region

LEMMA RegionBegins ==
  ASSUME NEW t \in Tails, NEW h \in Slots, available(h, t) > 0
  PROVE  Place(t) \in Region(t, h)
  <1>1. PICK p \in Slots : p = Place(t)
    BY PlaceCases
  <1>2. 0 < IF p <= h THEN h - p ELSE h - p + BufSize
    BY <1>1, AvailableCases
  <1> QED
    BY <1>1, <1>2, SizeType DEF Region, Slots

LEMMA RegionEmpty ==
  ASSUME NEW h \in Slots
  PROVE  Region(h, h) = {}
  BY SlotIsTail DEF Region, Slots

(* Recording adds to what is available, unless the head runs into the tail. *)
LEMMA AvailableGrows ==
  ASSUME NEW t \in Tails, NEW h \in Slots, Place(t) # ir_next(h)
  PROVE  available(h, t) <= available(ir_next(h), t)
  <1>1. PICK p \in Slots, n \in Slots : p = Place(t) /\ n = ir_next(h)
    BY PlaceCases, NextSlot
  <1>2. n = IF h = BufSize - 1 THEN 0 ELSE h + 1
    BY <1>1, NextSlot
  <1>3. available(h, t) = IF p <= h THEN h - p ELSE h - p + BufSize
    BY <1>1, AvailableCases
  <1>4. available(n, t) = IF p <= n THEN n - p ELSE n - p + BufSize
    BY <1>1, AvailableCases
  <1> QED
    BY <1>1, <1>2, <1>3, <1>4, SizeType DEF Slots

(* The durations of a frame: only its first two can be those of a header,  *)
(* and each bit is a mark and its space. *)
LEMMA RepeatDurations ==
  LET F == FrameOf(Repeat)
  IN  Len(F) = 3 /\ F[1] = 9000 /\ F[2] = 2250 /\ F[3] = 562
  BY DEF FrameOf

LEMMA WordDurations ==
  ASSUME NEW v, v # Repeat, NEW F, F = FrameOf(v)
  PROVE  /\ Len(F) = 2 * FrameBits + 3
         /\ F[1] = 9000 /\ F[2] = 4500
         /\ \A j \in 3 .. 2 * FrameBits + 3 : F[j] \in {562, 1687}
         /\ \A i \in 0 .. FrameBits - 1 : F[3 + 2 * i] = 562 /\ F[4 + 2 * i] = Bit(v, i)
  <1> DEFINE N == 2 * FrameBits + 3
             us(j) == CASE j = 1 -> 9000
                        [] j = 2 -> 4500
                        [] j > 2 /\ j % 2 = 1 -> 562
                        [] j > 2 /\ j % 2 = 0 -> Bit(v, (j - 4) \div 2)
  <1>1. F = [j \in 1 .. N |-> us(j)] /\ N \in Nat /\ N >= 5
    BY SizeType DEF FrameOf
  <1>2. \A j \in 1 .. N : F[j] = us(j)
    BY <1>1
  <1>3. Len(F) = N
    BY <1>1
  <1>4. us(1) = 9000 /\ us(2) = 4500
    OBVIOUS
  <1>5. \A i : Bit(v, i) \in {562, 1687}
    BY DEF Bit
  <1>6. ASSUME NEW j \in 3 .. N
        PROVE  us(j) \in {562, 1687}
    <2>1. CASE j % 2 = 1
      BY <1>6, <2>1
    <2>2. CASE j % 2 = 0
      <3>1. us(j) = Bit(v, (j - 4) \div 2)
        BY <1>6, <2>2
      <3> QED
        BY <1>5, <3>1
    <2> QED
      BY <1>1, <2>1, <2>2
  <1>7. ASSUME NEW i \in 0 .. FrameBits - 1
        PROVE  /\ us(3 + 2 * i) = 562 /\ us(4 + 2 * i) = Bit(v, i)
               /\ 3 + 2 * i \in 1 .. N /\ 4 + 2 * i \in 1 .. N
    <2>1. i \in Nat /\ i <= FrameBits - 1
      BY SizeType
    <2>2. (3 + 2 * i) % 2 = 1 /\ (4 + 2 * i) % 2 = 0 /\ ((4 + 2 * i) - 4) \div 2 = i
      BY <2>1
    <2>3. us(3 + 2 * i) = 562
      BY <2>1, <2>2
    <2>4. PICK j \in Nat : j = 4 + 2 * i
      BY <2>1
    <2>5. us(j) = Bit(v, (j - 4) \div 2) /\ (j - 4) \div 2 = i
      BY <2>1, <2>2, <2>4
    <2> QED
      BY <2>1, <2>3, <2>4, <2>5, SizeType
  <1>8. 1 \in 1 .. N /\ 2 \in 1 .. N /\ 3 .. N \subseteq 1 .. N
    BY <1>1
  <1> HIDE DEF us
  <1>9. F[1] = 9000 /\ F[2] = 4500
    BY <1>2, <1>4, <1>8
  <1>10. \A j \in 3 .. N : F[j] \in {562, 1687}
    BY <1>2, <1>6, <1>8
  <1>11. \A i \in 0 .. FrameBits - 1 : F[3 + 2 * i] = 562 /\ F[4 + 2 * i] = Bit(v, i)
    BY <1>2, <1>7
  <1> QED
    BY <1>3, <1>9, <1>10, <1>11

(* An entry in front of the end of its frame, and the one behind it. *)
LEMMA WithinFrame ==
  ASSUME NEW e, NEW d, Succeeds(e, d), e.pos # 0, e.pos \in Nat,
         e.pos # Len(FrameOf(frames[e.frame]))
  PROVE  d.frame = e.frame /\ d.pos = e.pos + 1
         /\ d.us = FrameOf(frames[e.frame])[e.pos + 1]
  BY DEF Succeeds, Follows, Exact

LEMMA BeginningIsHeader ==
  ASSUME NEW e, NEW d, e.pos = 1, e.us = 9000, Succeeds(e, d)
  PROVE  ~NotHeader(e.us, d.us)
  <1>1. PICK v, F : v = frames[e.frame] /\ F = FrameOf(v)
    OBVIOUS
  <1>2. CASE v = Repeat
    <2>1. Len(F) = 3 /\ F[2] = 2250
      BY <1>1, <1>2, RepeatDurations
    <2>2. d.us = F[2]
      BY <1>1, <2>1, WithinFrame
    <2> QED
      BY <2>1, <2>2 DEF NotHeader
  <1>3. CASE v # Repeat
    <2>1. Len(F) = 2 * FrameBits + 3 /\ F[2] = 4500
      BY <1>1, <1>3, WordDurations
    <2>2. d.us = F[2]
      BY <1>1, <2>1, SizeType, WithinFrame
    <2> QED
      BY <2>1, <2>2 DEF NotHeader
  <1> QED
    BY <1>2, <1>3

LEMMA HeaderIsBeginning ==
  ASSUME NEW e, NEW d, e.frame \in Nat \ {0}, e.pos \in Nat, Entered(e),
         Succeeds(e, d), ~NotHeader(e.us, d.us)
  PROVE  /\ e.pos = 1 /\ e.us = 9000
         /\ d.frame = e.frame /\ d.pos = 2
         /\ IF frames[e.frame] = Repeat THEN d.us = 2250 ELSE d.us = 4500
  <1>1. PICK v, F : v = frames[e.frame] /\ F = FrameOf(v)
    OBVIOUS
  <1>2. e.pos \in 1 .. Len(F) /\ e.us = F[e.pos] /\ ~(e.us < 4000) /\ ~(d.us < 1400)
    BY <1>1 DEF Entered, Exact, NotHeader
  <1>3. CASE v = Repeat
    <2>1. Len(F) = 3 /\ F[1] = 9000 /\ F[2] = 2250 /\ F[3] = 562
      BY <1>1, <1>3, RepeatDurations
    <2>2. e.pos = 1
      BY <1>2, <2>1
    <2>3. d.frame = e.frame /\ d.pos = 2 /\ d.us = F[2]
      BY <1>1, <2>1, <2>2, WithinFrame
    <2> QED
      BY <1>1, <1>2, <1>3, <2>1, <2>2, <2>3
  <1>4. CASE v # Repeat
    <2>1. /\ Len(F) = 2 * FrameBits + 3 /\ F[1] = 9000 /\ F[2] = 4500
          /\ \A j \in 3 .. 2 * FrameBits + 3 : F[j] \in {562, 1687}
          /\ \A i \in 0 .. FrameBits - 1 : F[3 + 2 * i] = 562
      BY <1>1, <1>4, WordDurations
    <2>2. e.pos \in {1, 2}
      BY <1>2, <2>1, SizeType
    <2>3. d.frame = e.frame /\ d.pos = e.pos + 1 /\ d.us = F[e.pos + 1]
      BY <1>1, <2>1, <2>2, SizeType, WithinFrame
    <2>4. F[3 + 2 * 0] = 562
      BY <2>1, SizeType
    <2>5. e.pos # 2
      BY <1>2, <2>3, <2>4
    <2> QED
      BY <1>1, <1>2, <1>4, <2>1, <2>2, <2>3, <2>5
  <1> QED
    BY <1>3, <1>4

(* Behind the space of bit i - 1 come the mark and the space of bit i. *)
LEMMA BitFollows ==
  ASSUME NEW e, NEW m, NEW sp, NEW i \in 0 .. FrameBits - 1,
         frames[e.frame] # Repeat, e.pos = 2 + 2 * i,
         Succeeds(e, m), Succeeds(m, sp)
  PROVE  /\ m.us = 562 /\ sp.us = Bit(frames[e.frame], i)
         /\ sp.frame = e.frame /\ sp.pos = 4 + 2 * i
  <1>1. PICK v, F : v = frames[e.frame] /\ F = FrameOf(v)
    OBVIOUS
  <1>2. /\ Len(F) = 2 * FrameBits + 3
        /\ F[3 + 2 * i] = 562 /\ F[4 + 2 * i] = Bit(v, i)
    BY <1>1, WordDurations
  <1>3. i \in Nat /\ i <= FrameBits - 1
    BY SizeType
  <1>4. m.frame = e.frame /\ m.pos = 3 + 2 * i /\ m.us = F[3 + 2 * i]
    <2>1. e.pos # 0 /\ e.pos \in Nat /\ e.pos # Len(F) /\ e.pos + 1 = 3 + 2 * i
      BY <1>2, <1>3, SizeType
    <2> QED
      BY <1>1, <2>1, WithinFrame
  <1>5. sp.frame = e.frame /\ sp.pos = 4 + 2 * i /\ sp.us = F[4 + 2 * i]
    <2>1. m.pos # 0 /\ m.pos \in Nat /\ m.pos # Len(F) /\ m.pos + 1 = 4 + 2 * i
      BY <1>2, <1>3, <1>4, SizeType
    <2> QED
      BY <1>1, <1>4, <2>1, WithinFrame
  <1> QED
    BY <1>1, <1>2, <1>4, <1>5

-----------------------------------------------------------------------------
(* The line goes on, and the interrupt records a duration or not. *)
Onward ==
    /\ Extends /\ Len(frames)' \in Nat /\ decoded' = decoded
    /\ \A f \in 0 .. Len(frames) : Begun(f) => Begun(f)'

Entering(d) ==
    /\ Onward /\ Record(d)
    /\ d.frame \in 1 .. Len(frames)' /\ Entered(d)'
    /\ d.pos = 1 => ~Begun(d.frame)

(* Of a decode() under way the interrupt changes its history only. *)
LEMMA CallKept ==
  ASSUME Types, pc' = pc \/ (InDecode /\ pc' = [pc EXCEPT !.kept = FALSE])
  PROVE  /\ pc'.at = pc.at
         /\ pc.at \in {"header", "bits", "store"} => (pc'.kept => pc.kept)
         /\ pc.at = "header" => pc'.tail = pc.tail /\ pc'.avail = pc.avail
         /\ pc.at = "bits" => /\ pc'.tail = pc.tail /\ pc'.i = pc.i
                              /\ pc'.data = pc.data /\ pc'.from = pc.from
                              /\ pc'.inside = pc.inside
         /\ pc.at = "store" => /\ pc'.to = pc.to /\ pc'.from = pc.from
                               /\ pc'.inside = pc.inside /\ pc'.value = pc.value
  <1>1. CASE pc' = pc
    BY <1>1
  <1>2. CASE InDecode /\ pc' = [pc EXCEPT !.kept = FALSE]
    <2>1. CASE pc = Loop
      BY <1>2, <2>1 DEF InDecode, Loop
    <2>2. CASE AtHeader
      <3>1. PICK t, n, k : pc = [at |-> "header", tail |-> t, avail |-> n, kept |-> k]
        BY <2>2 DEF AtHeader
      <3>2. pc' = [at |-> "header", tail |-> t, avail |-> n, kept |-> FALSE]
        BY <1>2, <3>1
      <3> QED
        BY <3>1, <3>2
    <2>3. CASE AtBits
      <3>1. PICK t, e, i, v, b, k :
              pc = [at |-> "bits", tail |-> t, i |-> i, data |-> v, from |-> e,
                    inside |-> b, kept |-> k]
        BY <2>3 DEF AtBits
      <3>2. pc' = [at |-> "bits", tail |-> t, i |-> i, data |-> v, from |-> e,
                   inside |-> b, kept |-> FALSE]
        BY <1>2, <3>1
      <3> QED
        BY <3>1, <3>2
    <2>4. CASE AtStore
      <3>1. PICK t, e, b, v, k :
              pc = [at |-> "store", to |-> t, from |-> e, inside |-> b,
                    value |-> v, kept |-> k]
        BY <2>4 DEF AtStore
      <3>2. pc' = [at |-> "store", to |-> t, from |-> e, inside |-> b,
                   value |-> v, kept |-> FALSE]
        BY <1>2, <3>1
      <3> QED
        BY <3>1, <3>2
    <2> QED
      BY <2>1, <2>2, <2>3, <2>4 DEF Types, Loc
  <1> QED
    BY <1>1, <1>2

LEMMA EnteredKept ==
  ASSUME Types, Onward, NEW e \in DurationType, Entered(e)
  PROVE  Entered(e)'
  <1>1. e.frame \in 0 .. Len(frames) /\ Len(frames) \in Nat
    BY FramesType DEF DurationType
  <1>2. e.frame # 0 /\ Exact(e) => Exact(e)'
    BY <1>1, ExactKept DEF Onward
  <1>3. e.pos = 1 => Begun(e.frame)'
    BY <1>1 DEF Onward, Entered
  <1> QED
    BY <1>2, <1>3 DEF Entered

LEMMA RecordedSlots ==
  ASSUME Types, NEW d, Record(d)
  PROVE  /\ s_head \in Slots /\ s_dur'[s_head] = d
         /\ \A s \in Slots : s # s_head => s_dur'[s] = s_dur[s]
         /\ \A s \in Slots : s_dur[s] \in DurationType
  BY DEF Types, Record

LEMMA RecordedHistory ==
  ASSUME Types, History, NEW d, Entering(d)
  PROVE  History'
  <1>1. /\ s_head \in Slots /\ s_dur'[s_head] = d
        /\ \A s \in Slots : s # s_head => s_dur'[s] = s_dur[s]
        /\ \A s \in Slots : s_dur[s] \in DurationType
    BY RecordedSlots DEF Entering
  <1>2. ASSUME NEW s \in Slots
        PROVE  Entered(s_dur[s])'
    <2>1. CASE s = s_head
      <3>1. s_dur'[s] = d /\ Entered(d)'
        BY <1>1, <2>1 DEF Entering
      <3> QED
        BY <3>1 DEF Entered, Exact, Begun
    <2>2. CASE s # s_head
      <3>1. PICK e \in DurationType : e = s_dur[s] /\ s_dur'[s] = e
        BY <1>1, <2>2
      <3>2. Entered(e)'
        BY <3>1, EnteredKept DEF History, Entering
      <3> QED
        BY <3>1, <3>2 DEF Entered, Exact, Begun
    <2> QED
      BY <2>1, <2>2
  <1>3. ASSUME NEW s \in Slots, s # s_head, s_dur[s].pos = 1, d.pos = 1
        PROVE  s_dur[s].frame # d.frame
    BY <1>3 DEF History, Entered, Entering
  <1>4. ASSUME NEW s \in Slots, NEW r \in Slots, s_dur'[s].pos = 1, s_dur'[r].pos = 1,
               s_dur'[s].frame = s_dur'[r].frame
        PROVE  s = r
    <2>1. CASE s = s_head /\ r # s_head
      BY <1>1, <1>3, <1>4, <2>1
    <2>2. CASE s # s_head /\ r = s_head
      BY <1>1, <1>3, <1>4, <2>2
    <2>3. CASE s # s_head /\ r # s_head
      BY <1>1, <1>4, <2>3 DEF History
    <2> QED
      BY <2>1, <2>2, <2>3
  <1>5. \A f \in decoded' : Begun(f)'
    BY DEF History, Entering, Onward, Types
  <1> QED
    BY <1>2, <1>4, <1>5 DEF History

(* A frame that only begins now has not been returned. *)
LEMMA RecordedUndecoded ==
  ASSUME Types, History, NEW d, Entering(d),
         NEW R \in SUBSET Slots, NEW Q \in SUBSET Slots,
         Undecoded(R), Q \subseteq R \cup {s_head}
  PROVE  Undecoded(Q)'
  <1>1. /\ s_head \in Slots /\ s_dur'[s_head] = d
        /\ \A s \in Slots : s # s_head => s_dur'[s] = s_dur[s]
    BY RecordedSlots DEF Entering
  <1>2. d.pos = 1 => d.frame \notin decoded
    BY DEF History, Entering
  <1>3. decoded' = decoded
    BY DEF Entering, Onward
  <1>4. ASSUME NEW s \in Q, s_dur'[s].pos = 1
        PROVE  s_dur'[s].frame \notin decoded'
    <2>1. CASE s = s_head
      BY <1>1, <1>2, <1>3, <1>4, <2>1
    <2>2. CASE s # s_head
      BY <1>1, <1>3, <1>4, <2>2 DEF Undecoded
    <2> QED
      BY <2>1, <2>2
  <1> QED
    BY <1>4 DEF Undecoded

LEMMA RecordedSnapped ==
  ASSUME IInv, History, NEW d, Entering(d), NEW t \in Tails, NEW n \in Nat, NEW k, NEW j,
         Snapped(t, n, k), j => k, Full => ~j
  PROVE  Snapped(t, n, j)'
  <1>1. /\ s_head \in Slots /\ s_head' = ir_next(s_head)
        /\ s_tail' = IF Full THEN ir_next(s_tail) ELSE s_tail
        /\ Types /\ available(s_head, t) \in Nat /\ available(ir_next(s_head), t) \in Nat
        /\ ir_next(s_head) \in Slots
    <2>1. /\ s_head \in Slots /\ s_head' = ir_next(s_head) /\ Types
          /\ s_tail' = IF Full THEN ir_next(s_tail) ELSE s_tail
      BY DEF IInv, Types, Entering, Record
    <2>2. ir_next(s_head) \in Slots
      BY <2>1, NextSlot
    <2>3. available(s_head, t) \in Slots /\ available(ir_next(s_head), t) \in Slots
      BY <2>1, <2>2, AvailableCases
    <2> QED
      BY <2>1, <2>2, <2>3, SizeType DEF Slots
  <1>2. ASSUME Here(t, n), Place(t) # ir_next(s_head)
        PROVE  Here(t, n)'
    <2>1. s_tail = t /\ n <= available(s_head, t)
      BY <1>2 DEF Here
    <2>2. ~Full
      <3>1. ASSUME Full PROVE FALSE
        BY <1>1, <1>2, <2>1, <3>1, SlotIsTail DEF Full
      <3> QED
        BY <3>1
    <2>3. s_tail' = t
      BY <1>1, <2>1, <2>2
    <2>4. available(s_head, t) <= available(ir_next(s_head), t)
      BY <1>1, <1>2, AvailableGrows
    <2>5. n <= available(ir_next(s_head), t)
      BY <1>1, <2>1, <2>4
    <2>6. available(s_head, s_tail)' = available(ir_next(s_head), t)
      BY <1>1, <2>3 DEF available
    <2> QED
      BY <2>3, <2>5, <2>6 DEF Here
  <1>3. ASSUME Undecoded(Slots)
        PROVE  Undecoded(Slots)'
    BY <1>1, <1>3, RecordedUndecoded
  <1>4. CASE Here(t, n) /\ Undecoded(Region(t, s_head))
    <2>1. PICK R \in SUBSET Slots : R = Region(t, s_head)
      BY DEF Region
    <2>2. PICK Q \in SUBSET Slots : Q = Region(t, ir_next(s_head))
      BY DEF Region
    <2>3. Q \subseteq R \cup {s_head}
          /\ (Place(t) = ir_next(s_head) => Slots \subseteq R \cup {s_head})
      BY <1>1, <2>1, <2>2, RegionGrows
    <2>4. Undecoded(R)
      BY <1>4, <2>1
    <2>5. CASE Place(t) = ir_next(s_head)
      <3>1. Slots \subseteq R \cup {s_head}
        BY <2>3, <2>5
      <3>2. Undecoded(Slots)'
        BY <1>1, <2>4, <3>1, RecordedUndecoded
      <3>3. t \in Slots => Full
        BY <1>1, <1>4, <2>5, SlotIsTail DEF Here, Full
      <3> QED
        BY <3>2, <3>3 DEF Snapped
    <2>6. CASE Place(t) # ir_next(s_head)
      <3>1. Undecoded(Q)'
        BY <1>1, <2>3, <2>4, RecordedUndecoded
      <3>2. Region(t, s_head)' = Q
        BY <1>1, <2>2 DEF Region, Place
      <3>3. Here(t, n)'
        BY <1>2, <1>4, <2>6
      <3> QED
        BY <3>1, <3>2, <3>3 DEF Snapped, Undecoded
    <2> QED
      BY <2>5, <2>6
  <1>5. CASE Undecoded(Slots)
    <2>1. ASSUME j, t \in Slots
          PROVE  Here(t, n)'
      <3>1. Here(t, n) /\ ~Full
        BY <2>1 DEF Snapped
      <3>2. Place(t) # ir_next(s_head)
        BY <2>1, <3>1, SlotIsTail DEF Here, Full
      <3> QED
        BY <1>2, <3>1, <3>2
    <2> QED
      BY <1>3, <1>5, <2>1 DEF Snapped
  <1> QED
    BY <1>4, <1>5 DEF Snapped

(* The entries that a decode() under way has yet to read stay in the ring. *)
LEMMA RecordedBits ==
  ASSUME IInv, NEW d, Entering(d), NEW t \in Tails, NEW i, NEW v,
         NEW e \in DurationType, NEW b, NEW k, NEW j, j => k,
         k /\ t \in Slots => Here(t, 2 + 2 * FrameBits),
         BitsRead(t, i, v, e, b, k)
  PROVE  BitsRead(t, i, v, e, b, j)'
  <1>1. /\ Types /\ s_tail \in Tails /\ available(s_head, s_tail) \in Nat
        /\ \A s \in Slots : s # s_head => s_dur'[s] = s_dur[s]
        /\ Len(frames) \in Nat
        /\ \A f \in 1 .. Len(frames) : frames'[f] = frames[f]
    <2>1. Types /\ s_head \in Slots /\ s_tail \in Tails
      BY DEF IInv, Types
    <2>2. available(s_head, s_tail) \in Nat
      BY <2>1, AvailableCases, SizeType DEF Slots
    <2> QED
      BY <2>1, <2>2, RecordedSlots, FramesType DEF Entering, Onward, Extends
  <1>2. i \in 0 .. FrameBits - 1 /\ (b => t \in Slots) /\ (e.frame = 0 => e.pos = 0)
        /\ (k /\ t \notin Slots => e.frame = 0)
    BY DEF BitsRead
  <1>3. ASSUME j, t \in Slots
        PROVE  e = s_dur'[t] /\ e.pos = 1 /\ frames'[e.frame] # Repeat
               /\ frames'[e.frame] = frames[e.frame]
    <2>1. /\ k /\ e = s_dur[t] /\ e.pos = 1 /\ frames[e.frame] # Repeat
          /\ Here(t, 2 + 2 * FrameBits)
      BY <1>3 DEF BitsRead
    <2>2. 0 < available(s_head, s_tail) /\ t = (s_tail + 0) % BufSize
      <3>1. s_tail = t /\ 2 + 2 * FrameBits <= available(s_head, s_tail)
        BY <2>1 DEF Here
      <3>2. t \in Tails /\ Place(t) = t
        BY <1>3, SlotIsTail
      <3>3. t + 0 = t
        BY <1>3, SizeType DEF Slots
      <3> QED
        BY <1>1, <3>1, <3>2, <3>3, SizeType DEF Place
    <2>3. t # s_head
      BY <2>2, Ahead
    <2>4. e.frame \in 1 .. Len(frames)
      BY <1>1, <1>2, <2>1 DEF DurationType
    <2> QED
      BY <1>1, <1>3, <2>1, <2>3, <2>4
  <1>4. ASSUME j, b
        PROVE  ReadSoFar((t + (1 + 2 * i)) % BufSize, i, v, e.frame)'
    <2>1. PICK s : s = (t + (1 + 2 * i)) % BufSize
      OBVIOUS
    <2>2. k /\ t \in Slots /\ ReadSoFar(s, i, v, e.frame) /\ Here(t, 2 + 2 * FrameBits)
      BY <1>2, <1>4, <2>1 DEF BitsRead
    <2>3. 1 + 2 * i \in Nat /\ 1 + 2 * i < available(s_head, s_tail) /\ s_tail = t
      BY <1>1, <1>2, <2>2, SizeType DEF Here
    <2>4. s \in Slots /\ s # s_head
      BY <2>1, <2>3, Ahead
    <2>5. s_dur'[s] = s_dur[s]
      BY <1>1, <2>4
    <2>6. frames'[e.frame] = frames[e.frame]
      BY <1>3, <1>4, <2>2
    <2> QED
      BY <2>1, <2>2, <2>5, <2>6 DEF ReadSoFar
  <1> QED
    BY <1>2, <1>3, <1>4 DEF BitsRead

LEMMA RecordedOutcome ==
  ASSUME IInv, History, NEW d, Entering(d), NEW t \in Tails,
         NEW e \in DurationType, NEW b, NEW v, NEW k, NEW j, j => k,
         Outcome(t, e, b, v, k)
  PROVE  Outcome(t, e, b, v, j)'
  <1>1. /\ Types /\ s_head \in Slots /\ s_head' = ir_next(s_head)
        /\ s_dur'[s_head] = d
        /\ \A s \in Slots : s # s_head => s_dur'[s] = s_dur[s]
    BY RecordedSlots DEF IInv, Entering, Record
  <1>2. PICK R \in SUBSET Slots : R = Region(t, s_head)
    BY DEF Region
  <1>3. PICK Q \in SUBSET Slots : Q = Region(t, ir_next(s_head))
    BY DEF Region
  <1>4. Q \subseteq R \cup {s_head} /\ Region(t, s_head)' = Q
    <2>1. Q \subseteq R \cup {s_head}
      BY <1>1, <1>2, <1>3, RegionGrows
    <2>2. Region(t, s_head)' = Q
      BY <1>1, <1>3 DEF Region, Place
    <2> QED
      BY <2>1, <2>2
  <1>5. Undecoded(Q)'
    BY <1>1, <1>2, <1>4, RecordedUndecoded DEF Outcome
  <1>6. e.frame = 0 => e.pos = 0
    BY DEF Outcome
  <1>7. ASSUME j, v # None
        PROVE  /\ Begun(e.frame)'
               /\ \A s \in Q : s_dur'[s].pos = 1 => s_dur'[s].frame # e.frame
    <2>1. Begun(e.frame) /\ \A s \in R : s_dur[s].pos = 1 => s_dur[s].frame # e.frame
      BY <1>2, <1>7 DEF Outcome
    <2>2. Begun(e.frame)'
      BY <2>1 DEF Entering, Onward, DurationType
    <2>3. d.pos = 1 => d.frame # e.frame
      BY <2>1 DEF Entering
    <2> QED
      BY <1>1, <1>4, <2>1, <2>2, <2>3
  <1>8. ASSUME b, j, v # None
        PROVE  e.pos = 1 /\ v = frames'[e.frame] /\ e.frame \notin decoded'
    <2>1. k /\ e.pos = 1 /\ v = frames[e.frame] /\ e.frame \notin decoded
      BY <1>8 DEF Outcome
    <2>2. e.frame \in 1 .. Len(frames)
      BY <1>1, <1>6, <2>1, FramesType DEF DurationType
    <2> QED
      BY <2>1, <2>2 DEF Entering, Onward, Extends
  <1>9. b /\ j /\ v = None => e.pos # 1 \/ e.us # 9000
    BY DEF Outcome
  <1>10. Undecoded(Region(t, s_head))'
    BY <1>4, <1>5 DEF Undecoded
  <1>11. j /\ v # None => /\ Begun(e.frame)'
           /\ \A s \in Region(t, s_head)' : s_dur'[s].pos = 1 => s_dur'[s].frame # e.frame
    BY <1>4, <1>7
  <1> QED
    BY <1>6, <1>8, <1>9, <1>10, <1>11 DEF Outcome

(* Every duration the interrupt may record, at any point of decode(). *)
LEMMA RecordedDecode ==
  ASSUME DecodeInv, IInv', NEW d, Entering(d)
  PROVE  DecodeInv'
  <1>1. IInv /\ Types /\ History /\ InLoop /\ InHeader /\ InBits /\ InStore
    BY DEF DecodeInv, IInv
  <1>2. /\ pc' = pc \/ (InDecode /\ pc' = [pc EXCEPT !.kept = FALSE])
        /\ s_head' = ir_next(s_head) /\ s_head \in Slots /\ s_tail \in Tails
        /\ s_tail' = IF Full THEN ir_next(s_tail) ELSE s_tail
    BY <1>1 DEF Entering, Record, Types
  <1>3. pc'.at = pc.at
    BY <1>1, <1>2, CallKept
  <1>4. ASSUME Full, pc.at \in {"header", "bits"}
        PROVE  ~pc'.kept
    <2>1. pc # Loop
      BY <1>4 DEF Loop
    <2>2. pc' = [pc EXCEPT !.kept = FALSE]
      BY <1>1, <1>4, LocParts DEF Entering, Record, InDecode, Loop
    <2>3. "kept" \in DOMAIN pc
      BY <1>1, <1>4, <2>1 DEF Types, Loc, AtHeader, AtBits, AtStore
    <2> QED
      BY <2>2, <2>3
  <1>5. History'
    BY <1>1, RecordedHistory
  <1>6. InLoop'
    <2> SUFFICES ASSUME pc.at = "loop" PROVE Undecoded(Region(s_tail, s_head))'
      BY <1>3 DEF InLoop
    <2>1. PICK R \in SUBSET Slots : R = Region(s_tail, s_head)
      BY DEF Region
    <2>2. PICK Q \in SUBSET Slots : Q = Region(s_tail', s_head')
      BY DEF Region
    <2>3. Q \subseteq R \cup {s_head}
      BY <1>2, <2>1, <2>2, RegionGrows DEF Full
    <2>4. Undecoded(R)
      BY <1>1, <2>1 DEF InLoop
    <2>5. Undecoded(Q)'
      BY <1>1, <2>3, <2>4, RecordedUndecoded
    <2>6. Region(s_tail, s_head)' = Q
      BY <2>2 DEF Region, Place
    <2> QED
      BY <2>5, <2>6 DEF Undecoded
  <1>7. InHeader'
    <2> SUFFICES ASSUME pc.at = "header"
                 PROVE  Snapped(pc.tail, pc.avail, pc.kept)'
      BY <1>3 DEF InHeader
    <2>1. PICK t, n, k, j :
            t \in Tails /\ n \in Nat /\
            t = pc.tail /\ n = pc.avail /\ k = pc.kept /\ j = pc'.kept
      BY <1>1, LocParts, SizeType
    <2>2. pc'.tail = t /\ pc'.avail = n /\ (j => k) /\ (Full => ~j)
      BY <1>1, <1>2, <1>4, <2>1, CallKept
    <2>3. Snapped(t, n, k)
      BY <1>1, <2>1 DEF InHeader
    <2>4. Snapped(t, n, j)'
      BY <2>1, <1>1, <2>2, <2>3, RecordedSnapped
    <2>5. t = pc'.tail /\ n = pc'.avail /\ j = pc'.kept
      BY <2>1, <2>2
    <2> QED
      BY <2>4, <2>5
  <1>8. InBits'
    <2> SUFFICES ASSUME pc.at = "bits"
                 PROVE  /\ Snapped(pc.tail, 2 + 2 * FrameBits, pc.kept)'
                        /\ BitsRead(pc.tail, pc.i, pc.data, pc.from, pc.inside, pc.kept)'
      BY <1>3 DEF InBits
    <2>1. PICK t, e, i, v, b, k, j :
            t \in Tails /\ e \in DurationType /\
            t = pc.tail /\ e = pc.from /\ i = pc.i /\ v = pc.data /\ b = pc.inside
            /\ k = pc.kept /\ j = pc'.kept
      BY <1>1, LocParts
    <2>2. /\ pc'.tail = t /\ pc'.from = e /\ pc'.i = i /\ pc'.data = v /\ pc'.inside = b
          /\ (j => k) /\ (Full => ~j)
      BY <1>1, <1>2, <1>4, <2>1, CallKept
    <2>3. PICK n \in Nat : n = 2 + 2 * FrameBits
      BY SizeType
    <2>4. Snapped(t, n, k) /\ BitsRead(t, i, v, e, b, k)
      BY <1>1, <2>1, <2>3 DEF InBits
    <2>5. Snapped(t, n, j)'
      BY <2>1, <1>1, <2>2, <2>4, RecordedSnapped
    <2>6. k /\ t \in Slots => Here(t, 2 + 2 * FrameBits)
      BY <2>3, <2>4 DEF Snapped
    <2>7. BitsRead(t, i, v, e, b, j)'
      BY <2>1, <1>1, <2>2, <2>4, <2>6, RecordedBits
    <2>8. t = pc'.tail /\ e = pc'.from /\ i = pc'.i /\ v = pc'.data /\ b = pc'.inside
          /\ j = pc'.kept
      BY <2>1, <2>2
    <2>9. Snapped(pc.tail, 2 + 2 * FrameBits, pc.kept)'
      BY <2>3, <2>5, <2>8
    <2>10. BitsRead(pc.tail, pc.i, pc.data, pc.from, pc.inside, pc.kept)'
      BY <2>7, <2>8
    <2> QED
      BY <2>9, <2>10
  <1>9. InStore'
    <2> SUFFICES ASSUME pc.at = "store"
                 PROVE  Outcome(pc.to, pc.from, pc.inside, pc.value, pc.kept)'
      BY <1>3 DEF InStore
    <2>1. PICK t, e, v, b, k, j :
            t \in Tails /\ e \in DurationType /\
            t = pc.to /\ e = pc.from /\ v = pc.value /\ b = pc.inside
            /\ k = pc.kept /\ j = pc'.kept
      BY <1>1, LocParts
    <2>2. /\ pc'.to = t /\ pc'.from = e /\ pc'.value = v /\ pc'.inside = b
          /\ (j => k)
      BY <1>1, <1>2, <2>1, CallKept
    <2>3. Outcome(t, e, b, v, k)
      BY <1>1, <2>1 DEF InStore
    <2>4. Outcome(t, e, b, v, j)'
      BY <2>1, <1>1, <2>2, <2>3, RecordedOutcome
    <2>5. t = pc'.to /\ e = pc'.from /\ v = pc'.value /\ b = pc'.inside /\ j = pc'.kept
      BY <2>1, <2>2
    <2> QED
      BY <2>4, <2>5
  <1> QED
    BY <1>5, <1>6, <1>7, <1>8, <1>9 DEF DecodeInv

(* A duration nobody records leaves decode() as it was. *)
LEMMA SkippedDecode ==
  ASSUME DecodeInv, IInv', Skip, Onward
  PROVE  DecodeInv'
  <1>1. IInv /\ Types /\ History /\ InLoop /\ InHeader /\ InBits /\ InStore
    BY DEF DecodeInv, IInv
  <1>2. UNCHANGED <<s_dur, s_head, s_tail, pc, decoded>>
    BY DEF Skip, Onward
  <1>3. ASSUME NEW f \in DurationType, f.frame # 0
        PROVE  frames'[f.frame] = frames[f.frame]
    <2>1. f.frame \in 1 .. Len(frames)
      BY <1>1, <1>3, FramesType DEF DurationType
    <2> QED
      BY <2>1 DEF Onward, Extends
  <1>4. History'
    <2>1. ASSUME NEW s \in Slots
          PROVE  Entered(s_dur[s])'
      <3>1. PICK e \in DurationType : e = s_dur[s] /\ s_dur'[s] = e
        BY <1>1, <1>2 DEF Types
      <3>2. Entered(e)'
        BY <1>1, <3>1, EnteredKept DEF History
      <3> QED
        BY <3>1, <3>2 DEF Entered, Exact, Begun
    <2>2. \A s, r \in Slots : s_dur'[s].pos = 1 /\ s_dur'[r].pos = 1
                              /\ s_dur'[s].frame = s_dur'[r].frame => s = r
      BY <1>1, <1>2 DEF History
    <2>3. \A f \in decoded' : Begun(f)'
      BY <1>1, <1>2 DEF History, Onward, Types
    <2> QED
      BY <2>1, <2>2, <2>3 DEF History
  <1>5. InLoop' /\ InHeader'
    BY <1>1, <1>2 DEF InLoop, InHeader, Undecoded, Snapped, Here, Region, Place, available
  <1>6. InBits'
    <2> SUFFICES ASSUME pc.at = "bits"
                 PROVE  /\ Snapped(pc.tail, 2 + 2 * FrameBits, pc.kept)'
                        /\ BitsRead(pc.tail, pc.i, pc.data, pc.from, pc.inside, pc.kept)'
      BY <1>2 DEF InBits
    <2>1. PICK t, e, i, v, b, k :
            t \in Tails /\ e \in DurationType /\
            t = pc.tail /\ e = pc.from /\ i = pc.i /\ v = pc.data /\ b = pc.inside
            /\ k = pc.kept
      BY <1>1, LocParts
    <2>2. Snapped(t, 2 + 2 * FrameBits, k) /\ BitsRead(t, i, v, e, b, k)
      BY <1>1, <2>1 DEF InBits
    <2>3. Snapped(t, 2 + 2 * FrameBits, k)'
      BY <1>2, <2>2 DEF Snapped, Here, Undecoded, Region, Place, available
    <2>4. BitsRead(t, i, v, e, b, k)'
      <3>1. ASSUME k, t \in Slots
            PROVE  e.frame # 0
        BY <2>2, <3>1 DEF BitsRead
      <3>2. k /\ t \in Slots => frames'[e.frame] = frames[e.frame]
        BY <2>1, <1>3, <3>1
      <3> QED
        BY <1>2, <2>2, <3>2 DEF BitsRead, ReadSoFar
    <2>5. t = pc'.tail /\ e = pc'.from /\ i = pc'.i /\ v = pc'.data /\ b = pc'.inside
          /\ k = pc'.kept
      BY <1>2, <2>1
    <2>6. Snapped(pc.tail, 2 + 2 * FrameBits, pc.kept)'
      BY <2>3, <2>5
    <2>7. BitsRead(pc.tail, pc.i, pc.data, pc.from, pc.inside, pc.kept)'
      BY <2>4, <2>5
    <2> QED
      BY <2>6, <2>7
  <1>7. InStore'
    <2> SUFFICES ASSUME pc.at = "store"
                 PROVE  Outcome(pc.to, pc.from, pc.inside, pc.value, pc.kept)'
      BY <1>2 DEF InStore
    <2>1. PICK t, e, v, b, k :
            t \in Tails /\ e \in DurationType /\
            t = pc.to /\ e = pc.from /\ v = pc.value /\ b = pc.inside /\ k = pc.kept
      BY <1>1, LocParts
    <2>2. Outcome(t, e, b, v, k)
      BY <1>1, <2>1 DEF InStore
    <2>3. Outcome(t, e, b, v, k)'
      <3>1. ASSUME b, k, v # None
            PROVE  e.frame # 0
        BY <2>2, <3>1 DEF Outcome
      <3>2. b /\ k /\ v # None => frames'[e.frame] = frames[e.frame]
        BY <2>1, <1>3, <3>1
      <3>3. Begun(e.frame) => Begun(e.frame)'
        BY <2>1 DEF Onward, DurationType
      <3>4. Undecoded(Region(t, s_head))' /\ Region(t, s_head)' = Region(t, s_head)
        BY <1>2, <2>2 DEF Outcome, Undecoded, Region, Place
      <3> QED
        BY <1>2, <2>2, <3>2, <3>3, <3>4 DEF Outcome
    <2>4. t = pc'.to /\ e = pc'.from /\ v = pc'.value /\ b = pc'.inside /\ k = pc'.kept
      BY <1>2, <2>1
    <2> QED
      BY <2>3, <2>4
  <1> QED
    BY <1>4, <1>5, <1>6, <1>7 DEF DecodeInv

LEMMA EdgeDecode ==
  ASSUME DecodeInv, FrameEdge
  PROVE  DecodeInv'
  <1>1. IInv /\ Types /\ IInv'
    BY EdgeStep DEF DecodeInv, IInv
  <1>2. /\ line # << >> /\ line' = Tail(line)
        /\ UNCHANGED <<frames, decoded>>
        /\ Measured \/ FirstMeasured \/ Unseen
    BY DEF FrameEdge
  <1>3. PICK F : F = FrameOf(frames[Current])
    OBVIOUS
  <1>4. /\ Current \in Nat /\ Current > 0 /\ Current = Len(frames)
        /\ Len(F) \in Nat /\ Pos \in Nat /\ Pos >= 1 /\ Pos <= Len(F)
        /\ Head(line) = F[Pos] /\ Len(line) \in Nat
        /\ Len(Tail(line)) = Len(line) - 1
        /\ Pos = Len(F) - Len(line) + 1
    BY <1>1, <1>2, <1>3, LineFacts DEF Types, LineType
  <1>5. Current' = Current /\ FrameOf(frames[Current])' = F
    BY <1>2, <1>3 DEF Current
  <1>6. line' = << >> \/ Pos' = Pos + 1
    BY <1>2, <1>4, <1>5 DEF Pos
  <1>7. Onward
    <2>1. Extends /\ Len(frames)' \in Nat
      BY <1>1, <1>2, FramesType DEF Extends
    <2>2. ASSUME NEW f \in 0 .. Len(frames), Begun(f)
          PROVE  Begun(f)'
      BY <1>2, <1>4, <1>5, <1>6, <2>2 DEF Begun
    <2> QED
      BY <1>2, <2>1, <2>2 DEF Onward
  <1>8. ASSUME NEW us, Record(Duration(us, Current, Pos)),
               us \in {100, 1687, 40000} \/ us = F[Pos]
        PROVE  DecodeInv'
    <2>1. PICK d : d = Duration(us, Current, Pos)
      OBVIOUS
    <2>2. d.frame = Current /\ d.pos = Pos /\ d.us = us
      BY <2>1 DEF Duration
    <2>3. us = F[Pos] => Exact(d)'
      <3>1. FrameOf(frames'[d.frame]) = F
        BY <1>3, <1>2, <2>2
      <3>2. PICK n \in Nat : n = Pos
        BY <1>4
      <3> QED
        BY <1>4, <2>2, <3>1, <3>2 DEF Exact
    <2>4. Begun(d.frame)'
      BY <1>4, <1>5, <1>6, <2>2 DEF Begun
    <2>5. Entered(d)'
      BY <1>4, <1>8, <2>2, <2>3, <2>4 DEF Entered
    <2>6. d.pos = 1 => ~Begun(d.frame)
      BY <1>2, <1>4, <2>2 DEF Begun
    <2>7. d.frame \in 1 .. Len(frames)'
      BY <1>2, <1>4, <2>2
    <2>8. Entering(d)
      BY <1>7, <1>8, <2>1, <2>5, <2>6, <2>7 DEF Entering
    <2> QED
      BY <1>1, <2>8, RecordedDecode
  <1>9. CASE Measured
    BY <1>4, <1>8, <1>9 DEF Measured
  <1>10. CASE FirstMeasured
    <2>1. CASE Pos = 1 /\ Skip
      BY <1>1, <1>7, <2>1, SkippedDecode
    <2>2. ASSUME NEW us \in IF Pos = 1 THEN {100, 9000, 40000} ELSE {100, 1687},
                 Record(Duration(us, Current, Pos))
          PROVE  DecodeInv'
      <3>1. F[1] = 9000
        <4>1. CASE frames[Current] = Repeat
          BY <1>3, <4>1, RepeatDurations
        <4>2. CASE frames[Current] # Repeat
          BY <1>3, <4>2, WordDurations
        <4> QED
          BY <4>1, <4>2
      <3>2. us \in {100, 1687, 40000} \/ us = F[Pos]
        BY <2>2, <3>1
      <3> QED
        BY <1>8, <2>2, <3>2
    <2> QED
      BY <1>10, <2>1, <2>2 DEF FirstMeasured
  <1>11. CASE Unseen
    BY <1>1, <1>7, <1>11, SkippedDecode DEF Unseen
  <1> QED
    BY <1>2, <1>9, <1>10, <1>11

LEMMA BeginsDecode ==
  ASSUME DecodeInv, NEW v \in Sent, FrameBegins(v)
  PROVE  DecodeInv'
  <1>1. IInv /\ Types /\ IInv'
    BY BeginsStep DEF DecodeInv, IInv
  <1>2. /\ line = << >> /\ frames' = Append(frames, v)
        /\ UNCHANGED decoded
        /\ Skip \/ (enabled /\ ~fresh /\ Record(Duration(40000, Current + 1, 0)))
    BY DEF FrameBegins
  <1>3. /\ Len(frames) \in Nat /\ Len(frames') = Len(frames) + 1
        /\ \A i \in 1 .. Len(frames) : frames'[i] = frames[i]
    BY <1>1, <1>2, FramesType DEF Types
  <1>4. Onward
    <2>1. Extends /\ Len(frames)' \in Nat
      BY <1>3 DEF Extends
    <2>2. ASSUME NEW f \in 0 .. Len(frames)
          PROVE  Begun(f)'
      <3>1. f < Current'
        BY <1>3 DEF Current
      <3> QED
        BY <3>1 DEF Begun
    <2> QED
      BY <1>2, <2>1, <2>2 DEF Onward
  <1>5. CASE Skip
    BY <1>1, <1>4, <1>5, SkippedDecode
  <1>6. CASE Record(Duration(40000, Current + 1, 0))
    <2>1. PICK d : d = Duration(40000, Current + 1, 0)
      OBVIOUS
    <2>2. d.frame \in 1 .. Len(frames)' /\ d.pos = 0 /\ d.us = 40000
          /\ d.frame # 0
      BY <1>3, <2>1 DEF Duration, Current
    <2>3. Entered(d)'
      BY <2>2 DEF Entered
    <2>4. Entering(d)
      BY <1>4, <1>6, <2>1, <2>2, <2>3 DEF Entering
    <2> QED
      BY <1>1, <2>4, RecordedDecode
  <1> QED
    BY <1>2, <1>5, <1>6

-----------------------------------------------------------------------------
(* The steps of the sketch, which leave line and entries alone. *)
Alone == UNCHANGED <<s_dur, s_head, frames, line>>

LEMMA AloneHistory ==
  ASSUME History, Alone, \A f \in decoded' : Begun(f)
  PROVE  History'
  BY DEF History, Alone, Entered, Exact, Begun, Pos, Current

LEMMA LoopDecode ==
  ASSUME DecodeInv, IInv', Alone, UNCHANGED decoded, pc' = Loop,
         Undecoded(Region(s_tail', s_head))
  PROVE  DecodeInv'
  <1>1. History /\ \A f \in decoded' : Begun(f)
    BY DEF DecodeInv, History
  <1>2. History'
    BY <1>1, AloneHistory
  <1>3. InLoop'
    BY DEF InLoop, Undecoded, Region, Place, Alone
  <1> QED
    BY <1>2, <1>3 DEF DecodeInv, InHeader, InBits, InStore, Loop

LEMMA EnableDecode ==
  ASSUME DecodeInv, enableIRIn
  PROVE  DecodeInv'
  <1>1. IInv /\ Types /\ History /\ IInv'
    BY EnableStep DEF DecodeInv, IInv
  <1>2. /\ pc = Loop /\ UNCHANGED <<s_dur, frames, line, decoded, pc>>
        /\ s_head' = 0 /\ s_tail' = 0
    BY DEF enableIRIn
  <1>3. History'
    BY <1>1, <1>2 DEF History, Entered, Exact, Begun, Pos, Current
  <1>4. Region(0, 0) = {}
    BY SizeType, RegionEmpty DEF Slots
  <1>5. Region(s_tail, s_head)' = {}
    BY <1>2, <1>4 DEF Region, Place
  <1>6. InLoop'
    BY <1>5 DEF InLoop, Undecoded
  <1> QED
    BY <1>1, <1>2, <1>3, <1>6 DEF DecodeInv, InHeader, InBits, InStore, Loop

LEMMA DisableDecode ==
  ASSUME DecodeInv, disableIRIn
  PROVE  DecodeInv'
  <1>1. IInv' /\ InLoop /\ pc = Loop
    BY DisableStep DEF DecodeInv, disableIRIn
  <1>2. Alone /\ UNCHANGED <<decoded, s_tail>> /\ pc' = Loop
    BY DEF disableIRIn, Alone
  <1> QED
    BY <1>1, <1>2, LoopDecode DEF InLoop, Loop

LEMMA ResumeDecode ==
  ASSUME DecodeInv, resume
  PROVE  DecodeInv'
  <1>1. IInv' /\ s_head \in Slots
    BY ResumeStep DEF DecodeInv, IInv, Types
  <1>2. Alone /\ UNCHANGED decoded /\ pc' = Loop /\ s_tail' = s_head
    BY DEF resume, Alone
  <1>3. Undecoded(Region(s_tail', s_head))
    BY <1>1, <1>2, RegionEmpty DEF Undecoded
  <1> QED
    BY <1>1, <1>2, <1>3, LoopDecode

LEMMA SnapshotDecode ==
  ASSUME DecodeInv, Snapshot
  PROVE  DecodeInv'
  <1>1. IInv' /\ Types /\ History /\ InLoop /\ pc = Loop
    BY SnapshotStep DEF DecodeInv, IInv, Snapshot
  <1>2. Alone /\ UNCHANGED <<decoded, s_tail>>
    BY DEF Snapshot, Alone
  <1>3. PICK t, n : t = s_tail /\ n = available(s_head, s_tail)
    OBVIOUS
  <1>4. pc' = [at |-> "header", tail |-> t, avail |-> n, kept |-> TRUE]
    BY <1>3 DEF Snapshot
  <1>5. History'
    BY <1>1, <1>2, AloneHistory DEF History
  <1>6. Undecoded(Region(t, s_head))'
    BY <1>1, <1>2, <1>3 DEF InLoop, Loop, Undecoded, Region, Place, Alone
  <1>7. n \in Nat
    BY <1>1, <1>3, AvailableCases, SizeType DEF Types, Slots
  <1>8. Here(t, n)'
    BY <1>2, <1>3, <1>7 DEF Here, available, Alone
  <1>9. Snapped(t, n, TRUE)'
    BY <1>6, <1>8 DEF Snapped
  <1>10. InHeader'
    BY <1>4, <1>9 DEF InHeader
  <1> QED
    BY <1>1, <1>4, <1>5, <1>10 DEF DecodeInv, InLoop, InBits, InStore

(* A tail behind the first entry of the snapshot. *)
LEMMA SnappedMoves ==
  ASSUME Types, NEW t \in Tails, NEW n \in Nat, NEW k, Snapped(t, n, k),
         NEW m \in Slots, m > 0, m <= n, NEW u \in Tails,
         Place(u) = IF Place(t) + m < BufSize THEN Place(t) + m ELSE Place(t) + m - BufSize
  PROVE  /\ Undecoded(Region(u, s_head))
         /\ k /\ t \in Slots => t \notin Region(u, s_head)
  <1>1. s_head \in Slots /\ available(s_head, t) \in Nat
    BY AvailableCases, SizeType DEF Types, Slots
  <1>2. ASSUME Here(t, n)
        PROVE  Region(u, s_head) \subseteq Region(t, s_head) \ {Place(t)}
    <2>1. m <= available(s_head, t)
      BY <1>1, <1>2, SizeType DEF Here, Slots
    <2> QED
      BY <1>1, <2>1, RegionShrinks
  <1>3. Undecoded(Region(u, s_head))
    <2>1. CASE Undecoded(Slots)
      BY <2>1 DEF Undecoded, Region
    <2>2. CASE Here(t, n) /\ Undecoded(Region(t, s_head))
      BY <1>2, <2>2 DEF Undecoded
    <2> QED
      BY <2>1, <2>2 DEF Snapped
  <1>4. k /\ t \in Slots => t \notin Region(u, s_head)
    <2>1. ASSUME k, t \in Slots
          PROVE  t \notin Region(u, s_head)
      BY <1>2, <2>1, SlotIsTail DEF Snapped
    <2> QED
      BY <2>1
  <1> QED
    BY <1>3, <1>4

(* The frame that begins at a snapshot's tail has not been returned. *)
LEMMA SnappedUndecoded ==
  ASSUME Types, NEW t \in Slots, NEW n \in Nat, n > 0, NEW k, k, Snapped(t, n, k),
         s_dur[t].pos = 1
  PROVE  s_dur[t].frame \notin decoded
  <1>1. t \in Tails /\ Place(t) = t /\ s_head \in Slots
    BY SlotIsTail DEF Types
  <1>2. available(s_head, t) > 0
    <2>1. available(s_head, t) \in Nat
      BY <1>1, AvailableCases, SizeType DEF Slots
    <2> QED
      BY <2>1 DEF Snapped, Here
  <1>3. t \in Region(t, s_head)
    BY <1>1, <1>2, RegionBegins
  <1> QED
    BY <1>3 DEF Snapped, Undecoded

(* What decode() returns when it finds a frame. *)
LEMMA FrameFound ==
  ASSUME Types, History, NEW t \in Tails, NEW n \in Nat, n > 0, NEW k, Snapped(t, n, k),
         NEW u, Undecoded(Region(u, s_head)), Region(u, s_head) \subseteq Slots,
         k /\ t \in Slots => t \notin Region(u, s_head),
         NEW e \in DurationType, e.frame = 0 => e.pos = 0,
         k /\ t \notin Slots => e.frame = 0,
         k /\ t \in Slots => e = s_dur[t] /\ e.pos = 1,
         NEW b, b => t \in Slots, NEW v,
         b /\ k => v # None /\ v = frames[e.frame]
  PROVE  Outcome(u, e, b, v, k)
  <1>1. ASSUME k
        PROVE  Begun(e.frame)
    <2>1. CASE t \in Slots
      BY <1>1, <2>1 DEF History, Entered
    <2>2. CASE t \notin Slots
      <3>1. e.frame = 0
        BY <1>1, <2>2
      <3>2. 0 < Current \/ (0 = Current /\ line = << >>)
        BY FramesType DEF Types, LineType
      <3> QED
        BY <3>1, <3>2 DEF Begun
    <2> QED
      BY <2>1, <2>2
  <1>2. ASSUME k, NEW s \in Region(u, s_head), s_dur[s].pos = 1
        PROVE  s_dur[s].frame # e.frame
    <2>1. CASE t \in Slots
      BY <1>2, <2>1 DEF History
    <2>2. CASE t \notin Slots
      BY <1>2, <2>2 DEF History, Entered
    <2> QED
      BY <2>1, <2>2
  <1>3. ASSUME b, k
        PROVE  e.pos = 1 /\ v = frames[e.frame] /\ e.frame \notin decoded
    BY <1>3, SnappedUndecoded
  <1>4. b /\ k => v # None
    OBVIOUS
  <1> QED
    BY <1>1, <1>2, <1>3, <1>4 DEF Outcome

LEMMA NothingFound ==
  ASSUME NEW u, Undecoded(Region(u, s_head)), NEW e, e.frame = 0 => e.pos = 0,
         NEW b, NEW k, b /\ k => e.pos # 1 \/ e.us # 9000
  PROVE  Outcome(u, e, b, None, k)
  BY DEF Outcome

LEMMA OutcomeReturned ==
  ASSUME DecodeInv, IInv', Alone, UNCHANGED decoded,
         NEW u, NEW e, NEW b, NEW v, NEW k, Outcome(u, e, b, v, k),
         pc' = [at |-> "store", to |-> u, from |-> e, inside |-> b, value |-> v, kept |-> k]
  PROVE  DecodeInv'
  <1>1. History /\ \A f \in decoded' : Begun(f)
    BY DEF DecodeInv, History
  <1>2. History'
    BY <1>1, AloneHistory
  <1>3. Outcome(u, e, b, v, k)'
    BY DEF Outcome, Undecoded, Region, Place, Begun, Pos, Current, Alone
  <1>4. InStore'
    BY <1>3 DEF InStore
  <1> QED
    BY <1>2, <1>4 DEF DecodeInv, InLoop, InHeader, InBits

LEMMA AloneSnapped ==
  ASSUME Alone, UNCHANGED <<decoded, s_tail>>, NEW t, NEW n, NEW k, Snapped(t, n, k)
  PROVE  Snapped(t, n, k)'
  BY DEF Alone, Snapped, Undecoded, Here, Region, Place, available

(* What decode() reads at an index: the entry there, or, behind the ring,  *)
(* no entry of a frame. *)
LEMMA AtEntry ==
  ASSUME Types, History, NEW x, NEW e \in At(x)
  PROVE  /\ x \in Slots => e = s_dur[x]
         /\ x \notin Slots => e.frame = 0
         /\ e.frame = 0 => e.pos = 0
  <1>1. CASE x \in Slots
    BY <1>1 DEF At, History, Entered
  <1>2. CASE x \notin Slots
    BY <1>2 DEF At, Beyond, Duration
  <1> QED
    BY <1>1, <1>2

LEMMA HeaderDecode ==
  ASSUME DecodeInv, ReadHeader
  PROVE  DecodeInv'
  <1>1. IInv /\ Types /\ History /\ InHeader /\ IInv' /\ pc.at = "header"
    BY HeaderStep DEF DecodeInv, IInv, ReadHeader
  <1>2. Alone /\ UNCHANGED <<decoded, s_tail>>
    BY DEF ReadHeader, Alone
  <1>3. PICK t, n, k :
          t \in Tails /\ n \in Nat /\
          /\ pc = [at |-> "header", tail |-> t, avail |-> n, kept |-> k]
          /\ n >= 3 /\ n <= BufSize - 1
    BY <1>1, LocParts, SizeType DEF AtHeader
  <1>4. Snapped(t, n, k)
    BY <1>1, <1>3 DEF InHeader
  <1>5. PICK d0 \in At(t), d1 \in At(ir_next(t)) :
          NoHeader(d0, d1) \/ Waits(d0, d1) \/ DataFrame(d0, d1) \/ RepeatFrame(d0, d1)
    BY <1>3 DEF ReadHeader
  <1>6. PICK b : b = (t \in Slots)
    OBVIOUS
  <1>7. b <=> t \in Slots
    BY <1>6
  <1>8. /\ d0 \in DurationType /\ (d0.frame = 0 => d0.pos = 0)
        /\ (t \notin Slots => d0.frame = 0) /\ (t \in Slots => d0 = s_dur[t])
    BY <1>1, <1>3, AtType, AtEntry
  <1>9. ASSUME k, t \in Slots
        PROVE  /\ d0.frame \in Nat \ {0} /\ d0.pos \in Nat /\ Entered(d0)
               /\ Succeeds(d0, d1)
    <2>1. s_tail = t /\ n <= available(s_head, s_tail)
      BY <1>4, <1>9 DEF Snapped, Here
    <2>2. available(s_head, s_tail) \in Nat
      BY <1>1, AvailableCases, SizeType DEF Types, Slots
    <2>3. t = (s_tail + 0) % BufSize
      <3>1. Place(t) = t /\ t + 0 = t
        BY <1>9, SlotIsTail, SizeType DEF Slots
      <3> QED
        BY <2>1, <3>1 DEF Place
    <2>4. s_dur[t].frame \in 1 .. Len(frames) /\ Succeeds(s_dur[t], s_dur[ir_next(t)])
      BY <1>1, <1>3, <2>1, <2>2, <2>3, Ahead
    <2>5. d1 = s_dur[ir_next(t)]
      BY <1>1, <1>9, NextSlot, AtEntry
    <2>6. Entered(d0)
      BY <1>1, <1>8, <1>9 DEF History
    <2> QED
      BY <1>8, <1>9, <2>4, <2>5, <2>6 DEF DurationType
  <1>10. ASSUME NEW m \in Slots, m > 0, m <= n, NEW u \in Tails,
                Place(u) = IF Place(t) + m < BufSize THEN Place(t) + m
                                                     ELSE Place(t) + m - BufSize
         PROVE  /\ Undecoded(Region(u, s_head)) /\ Region(u, s_head) \subseteq Slots
                /\ k /\ t \in Slots => t \notin Region(u, s_head)
    BY <1>3, <1>1, <1>4, <1>10, SnappedMoves DEF Region
  <1>11. CASE NoHeader(d0, d1)
    <2>1. PICK u \in Tails : u = ir_next(t)
      BY <1>3, NextCases
    <2>2. pc' = [at |-> "store", to |-> u, from |-> d0, inside |-> b,
                 value |-> None, kept |-> k]
      BY <1>3, <1>6, <1>11, <2>1 DEF NoHeader, Returns
    <2>3. 1 \in Slots /\ Place(u) = IF Place(t) + 1 < BufSize THEN Place(t) + 1
                                                             ELSE Place(t) + 1 - BufSize
      <3>1. u \in Slots /\ u = IF Place(t) = BufSize - 1 THEN 0 ELSE Place(t) + 1
        BY <1>3, <2>1, NextCases
      <3>2. Place(u) = u /\ Place(t) \in Slots
        BY <1>3, <3>1, SlotIsTail, PlaceCases
      <3> QED
        BY <3>1, <3>2, SizeType DEF Slots
    <2>4. Undecoded(Region(u, s_head))
      BY <1>3, <1>10, <2>3
    <2>5. b /\ k => d0.pos # 1 \/ d0.us # 9000
      BY <1>7, <1>9, <1>11, BeginningIsHeader DEF NoHeader
    <2>6. Outcome(u, d0, b, None, k)
      BY <1>8, <2>4, <2>5, NothingFound
    <2> QED
      BY <1>1, <1>2, <2>2, <2>6, OutcomeReturned
  <1>12. CASE RepeatFrame(d0, d1)
    <2>1. PICK u : u = (t + 3) % IndexSize
      OBVIOUS
    <2>2. 3 \in Slots
      BY SizeType DEF Slots
    <2>3. u \in Tails /\ Place(u) = IF Place(t) + 3 < BufSize THEN Place(t) + 3
                                                             ELSE Place(t) + 3 - BufSize
      BY <1>3, <2>1, <2>2, MoveCases
    <2>4. pc' = [at |-> "store", to |-> u, from |-> d0, inside |-> b,
                 value |-> Repeat, kept |-> k]
      BY <1>3, <1>6, <1>12, <2>1 DEF RepeatFrame, Returns
    <2>5. /\ Undecoded(Region(u, s_head)) /\ Region(u, s_head) \subseteq Slots
          /\ k /\ t \in Slots => t \notin Region(u, s_head)
      BY <1>3, <1>10, <2>2, <2>3
    <2>6. ASSUME k, t \in Slots
          PROVE  d0 = s_dur[t] /\ d0.pos = 1 /\ Repeat = frames[d0.frame]
      BY <1>8, <1>9, <1>12, <2>6, HeaderIsBeginning DEF RepeatFrame
    <2>7. Repeat # None
      BY SentAssumption
    <2>8. Outcome(u, d0, b, Repeat, k)
      BY <1>1, <1>3, <1>4, <1>7, <1>8, <2>5, <2>6, <2>7, FrameFound
    <2> QED
      BY <1>1, <1>2, <2>4, <2>8, OutcomeReturned
  <1>13. CASE Waits(d0, d1)
    <2>1. pc' = Loop /\ s_tail' = s_tail
      BY <1>2, <1>13 DEF Waits
    <2>2. CASE Undecoded(Slots)
      <3>1. Undecoded(Region(s_tail', s_head))
        BY <2>2 DEF Undecoded, Region
      <3> QED
        BY <1>1, <1>2, <2>1, <3>1, LoopDecode
    <2>3. CASE Here(t, n) /\ Undecoded(Region(t, s_head))
      <3>1. Undecoded(Region(s_tail', s_head))
        BY <2>1, <2>3 DEF Here
      <3> QED
        BY <1>1, <1>2, <2>1, <3>1, LoopDecode
    <2> QED
      BY <1>4, <2>2, <2>3 DEF Snapped
  <1>14. CASE DataFrame(d0, d1)
    <2>1. pc' = [at |-> "bits", tail |-> t, i |-> 0, data |-> {}, from |-> d0,
                 inside |-> b, kept |-> k]
      BY <1>3, <1>6, <1>14 DEF DataFrame
    <2>2. n >= 2 + 2 * FrameBits /\ 2 + 2 * FrameBits \in Nat
      BY <1>3, <1>14, SizeType DEF DataFrame, Complete
    <2>3. Snapped(t, 2 + 2 * FrameBits, k)
      <3>1. available(s_head, s_tail) \in Nat
        BY <1>1, AvailableCases, SizeType DEF Types, Slots
      <3>2. Here(t, n) => Here(t, 2 + 2 * FrameBits)
        BY <1>3, <2>2, <3>1 DEF Here
      <3> QED
        BY <1>4, <3>2 DEF Snapped
    <2>4. ASSUME k, t \in Slots
          PROVE  /\ d0 = s_dur[t] /\ d0.pos = 1 /\ frames[d0.frame] # Repeat
                 /\ ReadSoFar((t + (1 + 2 * 0)) % BufSize, 0, {}, d0.frame)
      <3>1. /\ d0.pos = 1 /\ d1.frame = d0.frame /\ d1.pos = 2
            /\ frames[d0.frame] # Repeat
        BY <1>9, <1>14, <2>4, HeaderIsBeginning DEF DataFrame
      <3>2. d1 = s_dur[ir_next(t)] /\ t + (1 + 2 * 0) = t + 1
        BY <1>1, <2>4, NextSlot, AtEntry, SizeType DEF Slots
      <3>3. {} = frames[d0.frame] \cap (0 .. 0 - 1)
        OBVIOUS
      <3>4. ReadSoFar(ir_next(t), 0, {}, d0.frame)
        BY <3>1, <3>2, <3>3 DEF ReadSoFar
      <3> QED
        BY <1>8, <2>4, <3>1, <3>2, <3>4 DEF ir_next
    <2>5. BitsRead(t, 0, {}, d0, b, k)
      BY <1>7, <1>8, <2>4, SizeType DEF BitsRead
    <2>6. Snapped(t, 2 + 2 * FrameBits, k)'
      BY <1>2, <2>3, AloneSnapped
    <2>7. BitsRead(t, 0, {}, d0, b, k)'
      BY <1>2, <2>5 DEF BitsRead, ReadSoFar, Alone
    <2>8. InBits'
      BY <2>1, <2>6, <2>7 DEF InBits
    <2>9. History'
      BY <1>1, <1>2, AloneHistory DEF History
    <2> QED
      BY <1>1, <2>1, <2>8, <2>9 DEF DecodeInv, InLoop, InHeader, InStore
  <1> QED
    BY <1>5, <1>11, <1>12, <1>13, <1>14

(* The slots of bit i, when no index of it runs out of the ring. *)
LEMMA BitSlots ==
  ASSUME NEW t \in Slots, NEW i \in 0 .. FrameBits - 1,
         NEW s, s = (t + (1 + 2 * i)) % BufSize,
         NEW x, x = (t + 2 + 2 * i) % IndexSize, NEW y, y = (t + 3 + 2 * i) % IndexSize,
         x \in Slots, y \in Slots
  PROVE  /\ x = ir_next(s) /\ y = ir_next(x) /\ s \in Slots
         /\ y = (t + (1 + 2 * (i + 1))) % BufSize
         /\ x = (t + ((1 + 2 * i) + 1)) % BufSize
  <1>1. i \in Nat /\ i <= FrameBits - 1 /\ t \in Nat /\ t <= BufSize - 1
    BY SizeType DEF Slots
  <1>2. x = t + 2 + 2 * i /\ y = t + 3 + 2 * i
    <2>1. t + 2 + 2 * i < IndexSize /\ t + 3 + 2 * i < IndexSize
      BY <1>1, SizeType
    <2> QED
      BY <1>1, <2>1, SizeType
  <1>3. x < BufSize /\ y < BufSize
    BY SizeType DEF Slots
  <1>4. s = t + (1 + 2 * i) /\ s \in Slots
    BY <1>1, <1>2, <1>3, SizeType DEF Slots
  <1>5. x = ir_next(s) /\ y = ir_next(x)
    BY <1>1, <1>2, <1>3, <1>4, SizeType, NextSlot DEF Slots
  <1>6. y = (t + (1 + 2 * (i + 1))) % BufSize
    <2>1. t + (1 + 2 * (i + 1)) = y
      BY <1>1, <1>2
    <2> QED
      BY <1>1, <1>2, <1>3, <2>1, SizeType
  <1>7. x = (t + ((1 + 2 * i) + 1)) % BufSize
    <2>1. t + ((1 + 2 * i) + 1) = x
      BY <1>1, <1>2
    <2> QED
      BY <1>1, <1>2, <1>3, <2>1, SizeType
  <1> QED
    BY <1>4, <1>5, <1>6, <1>7

LEMMA BitDecode ==
  ASSUME DecodeInv, ReadBit
  PROVE  DecodeInv'
  <1>1. IInv /\ Types /\ History /\ InBits /\ IInv' /\ pc.at = "bits"
    BY BitStep DEF DecodeInv, IInv, ReadBit
  <1>2. Alone /\ UNCHANGED <<decoded, s_tail>>
    BY DEF ReadBit, Alone
  <1>3. PICK t, e, i, v, b, k :
          t \in Tails /\ e \in DurationType /\
          pc = [at |-> "bits", tail |-> t, i |-> i, data |-> v, from |-> e,
                inside |-> b, kept |-> k]
    BY <1>1, LocParts DEF AtBits
  <1>4. PICK N \in Slots : N = 2 + 2 * FrameBits /\ N > 0 /\ N \in Nat
    BY SizeType DEF Slots
  <1>5. Snapped(t, N, k) /\ BitsRead(t, i, v, e, b, k)
    BY <1>1, <1>3, <1>4 DEF InBits
  <1>6. /\ i \in 0 .. FrameBits - 1 /\ (b => t \in Slots) /\ (e.frame = 0 => e.pos = 0)
        /\ (k /\ t \notin Slots => e.frame = 0)
        /\ (k /\ t \in Slots => e = s_dur[t] /\ e.pos = 1 /\ frames[e.frame] # Repeat)
    BY <1>5 DEF BitsRead
  <1>7. PICK x, y : x = BitIndex(2) /\ y = BitIndex(3)
    OBVIOUS
  <1>8. x = (t + 2 + 2 * i) % IndexSize /\ y = (t + 3 + 2 * i) % IndexSize
    BY <1>3, <1>7 DEF BitIndex
  <1>9. PICK c : c = (b /\ {x, y} \subseteq Slots)
    OBVIOUS
  <1>10. c = Inside /\ (c <=> b /\ x \in Slots /\ y \in Slots)
    <2>1. c <=> b /\ x \in Slots /\ y \in Slots
      BY <1>9
    <2>2. pc.inside = b
      BY <1>3
    <2> QED
      BY <1>7, <1>9, <2>1, <2>2 DEF Inside
  <1>11. PICK m, sp, w :
           m \in At(x) /\ sp \in At(y) /\
           /\ w = IF sp.us > 1100 THEN v \cup {i} ELSE v
           /\ \/ /\ NotBit(m.us, sp.us)
                 /\ Returns(ir_next(t), e, c, None)
              \/ /\ ~NotBit(m.us, sp.us) /\ i < FrameBits - 1
                 /\ pc' = [pc EXCEPT !.i = @ + 1, !.data = w, !.inside = c]
              \/ /\ ~NotBit(m.us, sp.us) /\ i = FrameBits - 1
                 /\ Returns((t + 2 + 2 * FrameBits) % IndexSize, e, c, w)
    <2>1. /\ pc.data = v /\ pc.i = i /\ pc.from = e /\ pc.tail = t
      BY <1>3
    <2>2. PICK m \in At(BitIndex(2)), sp \in At(BitIndex(3)) :
            LET data == IF sp.us > 1100 THEN pc.data \cup {pc.i} ELSE pc.data
            IN  \/ /\ NotBit(m.us, sp.us)
                   /\ Returns(ir_next(pc.tail), pc.from, Inside, None)
                \/ /\ ~NotBit(m.us, sp.us) /\ pc.i < FrameBits - 1
                   /\ pc' = [pc EXCEPT !.i = @ + 1, !.data = data, !.inside = Inside]
                \/ /\ ~NotBit(m.us, sp.us) /\ pc.i = FrameBits - 1
                   /\ Returns((pc.tail + 2 + 2 * FrameBits) % IndexSize, pc.from, Inside, data)
      BY ZenonT(30) DEF ReadBit
    <2>3. PICK w : w = IF sp.us > 1100 THEN v \cup {i} ELSE v
      OBVIOUS
    <2>4. m \in At(x) /\ sp \in At(y)
      BY <1>7
    <2>5. \/ /\ NotBit(m.us, sp.us)
             /\ Returns(ir_next(t), e, c, None)
          \/ /\ ~NotBit(m.us, sp.us) /\ i < FrameBits - 1
             /\ pc' = [pc EXCEPT !.i = @ + 1, !.data = w, !.inside = c]
          \/ /\ ~NotBit(m.us, sp.us) /\ i = FrameBits - 1
             /\ Returns((t + 2 + 2 * FrameBits) % IndexSize, e, c, w)
      <3>1. c = Inside /\ w = IF sp.us > 1100 THEN pc.data \cup {pc.i} ELSE pc.data
        BY <1>10, <2>1, <2>3
      <3>2. CASE NotBit(m.us, sp.us) /\ Returns(ir_next(pc.tail), pc.from, Inside, None)
        BY <2>1, <3>1, <3>2, Zenon
      <3>3. CASE /\ ~NotBit(m.us, sp.us) /\ pc.i < FrameBits - 1
                 /\ pc' = [pc EXCEPT !.i = @ + 1, !.data = w, !.inside = Inside]
        BY <2>1, <3>1, <3>3
      <3>4. CASE /\ ~NotBit(m.us, sp.us) /\ pc.i = FrameBits - 1
                 /\ Returns((pc.tail + 2 + 2 * FrameBits) % IndexSize, pc.from, Inside, w)
        BY <2>1, <3>1, <3>4, Zenon
      <3> QED
        BY <2>2, <3>1, <3>2, <3>3, <3>4, ZenonT(30)
    <2> QED
      BY <2>3, <2>4, <2>5, ZenonT(30)
  <1>12. ASSUME k, c
         PROVE  /\ m.us = 562 /\ sp.us = Bit(frames[e.frame], i)
                /\ ReadSoFar((t + (1 + 2 * (i + 1))) % BufSize, i + 1, w, e.frame)
    <2>1. PICK s : s = (t + (1 + 2 * i)) % BufSize
      OBVIOUS
    <2>2. t \in Slots /\ x \in Slots /\ y \in Slots /\ b
      BY <1>6, <1>10, <1>12
    <2>3. /\ s_dur[s].frame = e.frame /\ s_dur[s].pos = 2 + 2 * i
          /\ v = frames[e.frame] \cap (0 .. i - 1)
      BY <1>5, <1>12, <2>1, <2>2 DEF BitsRead, ReadSoFar
    <2>4. s_tail = t /\ N <= available(s_head, s_tail) /\ available(s_head, s_tail) \in Nat
      <3>1. available(s_head, s_tail) \in Nat
        BY <1>1, AvailableCases, SizeType DEF Types, Slots
      <3> QED
        BY <1>5, <1>12, <2>2, <3>1 DEF Snapped, Here
    <2>5. /\ x = ir_next(s) /\ y = ir_next(x) /\ s \in Slots
          /\ y = (t + (1 + 2 * (i + 1))) % BufSize
          /\ x = (t + ((1 + 2 * i) + 1)) % BufSize
      BY <1>6, <1>8, <2>1, <2>2, BitSlots
    <2>6. PICK q : q = 1 + 2 * i /\ q \in Nat /\ q + 2 < N /\ q + 1 \in Nat
                   /\ s = (s_tail + q) % BufSize /\ x = (s_tail + (q + 1)) % BufSize
      BY <1>4, <1>6, <2>1, <2>4, <2>5, SizeType
    <2>7. Succeeds(s_dur[s], s_dur[x])
      <3>1. q < available(s_head, s_tail) /\ q + 1 < available(s_head, s_tail)
        BY <1>4, <2>4, <2>6
      <3> QED
        BY <1>1, <2>5, <2>6, <3>1, Ahead
    <2>8. Succeeds(s_dur[x], s_dur[y])
      <3>1. q + 1 < available(s_head, s_tail) /\ (q + 1) + 1 < available(s_head, s_tail)
        BY <1>4, <2>4, <2>6
      <3> QED
        BY <1>1, <2>5, <2>6, <3>1, Ahead
    <2>9. frames[s_dur[s].frame] # Repeat
      BY <1>6, <1>12, <2>2, <2>3
    <2>10. /\ s_dur[x].us = 562 /\ s_dur[y].us = Bit(frames[e.frame], i)
           /\ s_dur[y].frame = e.frame /\ s_dur[y].pos = 4 + 2 * i
      BY <1>6, <2>3, <2>7, <2>8, <2>9, BitFollows
    <2>11. m = s_dur[x] /\ sp = s_dur[y]
      BY <1>1, <1>11, <2>2, AtEntry
    <2>12. sp.us > 1100 <=> i \in frames[e.frame]
      BY <2>10, <2>11 DEF Bit
    <2>13. w = frames[e.frame] \cap (0 .. (i + 1) - 1)
      <3>1. 0 .. (i + 1) - 1 = (0 .. i - 1) \cup {i}
        BY <1>6, SizeType
      <3> QED
        BY <1>11, <2>3, <2>12, <3>1
    <2>14. 4 + 2 * i = 2 + 2 * (i + 1)
      BY <1>6, SizeType
    <2>15. ReadSoFar(y, i + 1, w, e.frame)
      BY <2>10, <2>13, <2>14 DEF ReadSoFar
    <2> QED
      BY <2>5, <2>10, <2>11, <2>15
  <1>13. CASE NotBit(m.us, sp.us) /\ Returns(ir_next(t), e, c, None)
    <2>1. PICK u \in Tails : u = ir_next(t)
      BY <1>3, NextCases
    <2>2. pc' = [at |-> "store", to |-> u, from |-> e, inside |-> c,
                 value |-> None, kept |-> k]
      BY <1>3, <1>13, <2>1 DEF Returns
    <2>3. 1 \in Slots /\ 1 > 0 /\ 1 <= N
          /\ Place(u) = IF Place(t) + 1 < BufSize THEN Place(t) + 1
                                                  ELSE Place(t) + 1 - BufSize
      <3>1. u \in Slots /\ u = IF Place(t) = BufSize - 1 THEN 0 ELSE Place(t) + 1
        BY <1>3, <2>1, NextCases
      <3>2. Place(u) = u /\ Place(t) \in Slots
        BY <1>3, <3>1, SlotIsTail, PlaceCases
      <3> QED
        BY <1>4, <3>1, <3>2, SizeType DEF Slots
    <2>4. Undecoded(Region(u, s_head))
      BY <1>3, <1>1, <1>4, <1>5, <2>3, SnappedMoves
    <2>5. ~(c /\ k)
      BY <1>12, <1>13 DEF NotBit, Bit
    <2>6. Outcome(u, e, c, None, k)
      BY <1>6, <2>4, <2>5, NothingFound
    <2> QED
      BY <1>1, <1>2, <2>2, <2>6, OutcomeReturned
  <1>14. CASE i < FrameBits - 1 /\ pc' = [pc EXCEPT !.i = @ + 1, !.data = w, !.inside = c]
    <2>1. pc' = [at |-> "bits", tail |-> t, i |-> i + 1, data |-> w, from |-> e,
                 inside |-> c, kept |-> k]
      BY <1>3, <1>14
    <2>2. i + 1 \in 0 .. FrameBits - 1
      BY <1>6, <1>14, SizeType
    <2>3. k /\ c => ReadSoFar((t + (1 + 2 * (i + 1))) % BufSize, i + 1, w, e.frame)
      BY <1>12
    <2>4. c => t \in Slots
      BY <1>6, <1>10
    <2>5. PICK j : j = i + 1
      OBVIOUS
    <2>6. BitsRead(t, j, w, e, c, k)
      BY <1>6, <2>2, <2>3, <2>4, <2>5 DEF BitsRead
    <2>7. Snapped(t, N, k)'
      BY <1>2, <1>5, AloneSnapped
    <2>8. BitsRead(t, j, w, e, c, k)'
      BY <1>2, <2>6 DEF BitsRead, ReadSoFar, Alone
    <2>9. InBits'
      BY <1>4, <2>1, <2>5, <2>7, <2>8 DEF InBits
    <2>10. History'
      BY <1>1, <1>2, AloneHistory DEF History
    <2> QED
      BY <1>1, <2>1, <2>9, <2>10 DEF DecodeInv, InLoop, InHeader, InStore
  <1>15. CASE i = FrameBits - 1 /\ Returns((t + 2 + 2 * FrameBits) % IndexSize, e, c, w)
    <2>1. PICK u : u = (t + N) % IndexSize
      OBVIOUS
    <2>2. t + 2 + 2 * FrameBits = t + N
      BY <1>3, <1>4, SizeType DEF Tails
    <2>3. u \in Tails /\ Place(u) = IF Place(t) + N < BufSize THEN Place(t) + N
                                                             ELSE Place(t) + N - BufSize
      BY <1>3, <2>1, MoveCases
    <2>4. pc' = [at |-> "store", to |-> u, from |-> e, inside |-> c,
                 value |-> w, kept |-> k]
      BY <1>3, <1>15, <2>1, <2>2 DEF Returns
    <2>5. /\ Undecoded(Region(u, s_head)) /\ Region(u, s_head) \subseteq Slots
          /\ k /\ t \in Slots => t \notin Region(u, s_head)
      <3>1. N <= N
        BY <1>4
      <3> QED
        BY <1>3, <1>1, <1>4, <1>5, <2>3, <3>1, SnappedMoves DEF Region
    <2>6. ASSUME c, k
          PROVE  w # None /\ w = frames[e.frame]
      <3>1. t \in Slots /\ e.pos = 1 /\ frames[e.frame] # Repeat /\ e.frame # 0
        BY <1>6, <1>10, <2>6
      <3>2. e.frame \in 1 .. Len(frames)
        BY <1>3, <1>1, <3>1, FramesType DEF DurationType
      <3>3. frames[e.frame] \in Sent
        BY <1>1, <3>2 DEF Types
      <3>4. frames[e.frame] \in Words
        BY <3>1, <3>3, SentAssumption
      <3>5. w = frames[e.frame] \cap (0 .. (i + 1) - 1)
        BY <1>12, <2>6 DEF ReadSoFar
      <3>6. (i + 1) - 1 = FrameBits - 1
        BY <1>15, SizeType
      <3>7. w = frames[e.frame]
        BY <3>4, <3>5, <3>6 DEF Words
      <3> QED
        BY <3>4, <3>7, SentAssumption
    <2>7. c => t \in Slots
      BY <1>6, <1>10
    <2>8. Outcome(u, e, c, w, k)
      BY <1>3, <1>1, <1>4, <1>5, <1>6, <2>5, <2>6, <2>7, FrameFound
    <2> QED
      BY <1>1, <1>2, <2>4, <2>8, OutcomeReturned
  <1> QED
    BY <1>11, <1>13, <1>14, <1>15

LEMMA StoreDecode ==
  ASSUME DecodeInv, Store
  PROVE  DecodeInv'
  <1>1. IInv /\ Types /\ History /\ InStore /\ IInv' /\ pc.at = "store"
    BY StoreStep DEF DecodeInv, IInv, Store
  <1>2. PICK u, e, b, v, k :
          u \in Tails /\ e \in DurationType /\
          pc = [at |-> "store", to |-> u, from |-> e, inside |-> b,
                value |-> v, kept |-> k]
    BY <1>1, LocParts DEF AtStore
  <1>3. Outcome(u, e, b, v, k)
    BY <1>1, <1>2 DEF InStore
  <1>4. /\ Alone /\ pc' = Loop /\ s_tail' = u
        /\ decoded' = IF v # None /\ k THEN decoded \cup {e.frame} ELSE decoded
    BY <1>2 DEF Store, Alone
  <1>5. \A f \in decoded' : Begun(f)
    BY <1>1, <1>3, <1>4 DEF History, Outcome
  <1>6. History'
    BY <1>1, <1>4, <1>5, AloneHistory
  <1>7. \A s \in Region(u, s_head) : s_dur[s].pos = 1 => s_dur[s].frame \notin decoded'
    BY <1>3, <1>4 DEF Outcome, Undecoded
  <1>8. Undecoded(Region(s_tail, s_head))'
    BY <1>4, <1>7 DEF Undecoded, Region, Place, Alone
  <1>9. InLoop'
    BY <1>8 DEF InLoop
  <1> QED
    BY <1>1, <1>4, <1>6, <1>9 DEF DecodeInv, InHeader, InBits, InStore, Loop

LEMMA InitDecode == Init => DecodeInv
  <1> SUFFICES ASSUME Init PROVE DecodeInv
    OBVIOUS
  <1>1. IInv
    BY InitInv
  <1>2. /\ \A s \in Slots : s_dur[s].frame = 0 /\ s_dur[s].pos = 0
        /\ decoded = {} /\ pc = Loop
    BY DEF Init, Duration
  <1>3. History
    BY <1>2 DEF History, Entered
  <1>4. InLoop
    BY <1>2 DEF InLoop, Undecoded
  <1> QED
    BY <1>1, <1>2, <1>3, <1>4 DEF DecodeInv, InHeader, InBits, InStore, Loop

LEMMA StutterDecode ==
  ASSUME DecodeInv, UNCHANGED vars
  PROVE  DecodeInv'
  <1>1. IInv' /\ Types
    BY StutterStep DEF DecodeInv, IInv
  <1>2. Skip /\ Onward
    <2>1. Skip /\ Extends /\ Len(frames)' \in Nat /\ decoded' = decoded
      BY <1>1, FramesType DEF vars, Skip, Extends
    <2>2. \A f \in 0 .. Len(frames) : Begun(f) => Begun(f)'
      BY DEF vars, Begun, Pos, Current
    <2> QED
      BY <2>1, <2>2 DEF Onward
  <1> QED
    BY <1>1, <1>2, SkippedDecode

(* Whatever the interrupt drops while decode() reads with interrupts on,   *)
(* decode() keeps its invariant. *)
THEOREM DecodeInductive == Spec => []DecodeInv
  <1>1. Init => DecodeInv
    BY InitDecode
  <1>2. DecodeInv /\ [Next]_vars => DecodeInv'
    <2> SUFFICES ASSUME DecodeInv, [Next]_vars PROVE DecodeInv'
      OBVIOUS
    <2>1. CASE FrameEdge
      BY <2>1, EdgeDecode
    <2>2. CASE \E v \in Sent : FrameBegins(v)
      BY <2>2, BeginsDecode
    <2>3. CASE enableIRIn
      BY <2>3, EnableDecode
    <2>4. CASE disableIRIn
      BY <2>4, DisableDecode
    <2>5. CASE resume
      BY <2>5, ResumeDecode
    <2>6. CASE Snapshot
      BY <2>6, SnapshotDecode
    <2>7. CASE ReadHeader
      BY <2>7, HeaderDecode
    <2>8. CASE ReadBit
      BY <2>8, BitDecode
    <2>9. CASE Store
      BY <2>9, StoreDecode
    <2>10. CASE UNCHANGED vars
      BY <2>10, StutterDecode
    <2> QED
      BY <2>1, <2>2, <2>3, <2>4, <2>5, <2>6, <2>7, <2>8, <2>9, <2>10 DEF Next
  <1> QED
    BY <1>1, <1>2, PTL DEF Spec

LEMMA DecodeImplied ==
  DecodeInv => DecodesWhatWasSent /\ DecodesOnce /\ SkipsNoFrame
  <1> SUFFICES ASSUME DecodeInv, pc.at = "store", pc.inside, pc.kept
               PROVE  /\ pc.value # None => /\ pc.from.pos = 1
                                            /\ pc.value = frames[pc.from.frame]
                                            /\ pc.from.frame \notin decoded
                      /\ pc.value = None => pc.from.pos # 1 \/ pc.from.us # 9000
    BY DEF DecodesWhatWasSent, DecodesOnce, SkipsNoFrame, Returned, Undisturbed
  <1>1. Outcome(pc.to, pc.from, pc.inside, pc.value, pc.kept)
    BY DEF DecodeInv, InStore
  <1> QED
    BY <1>1 DEF Outcome

(* decode() reads the ring with interrupts on, from an old snapshot, while *)
(* the interrupt fills the ring and drops its oldest entries.  When it     *)
(* loses none of its entries and its indices stay inside the ring, what it *)
(* returns is the frame that was sent, from its first duration on, for     *)
(* every word of every number of bits (DecodesWhatWasSent). *)
THEOREM FramesDecoded == Spec => []DecodesWhatWasSent
  BY DecodeInductive, DecodeImplied, PTL

(* decode() returns no frame twice: the tail it stores lies behind the     *)
(* beginning of the frame, and no later step, not even resume() or an      *)
(* entry dropped meanwhile, brings that beginning back (DecodesOnce). *)
THEOREM FramesDecodedOnce == Spec => []DecodesOnce
  BY DecodeInductive, DecodeImplied, PTL

(* An entry that decode() skips is not the beginning of a frame            *)
(* (SkipsNoFrame). *)
THEOREM FramesNotSkipped == Spec => []SkipsNoFrame
  BY DecodeInductive, DecodeImplied, PTL
=============================================================================
