----------------------------- MODULE Tasks_proofs -----------------------------
(***************************************************************************)
(* Proofs about the sketch, the receiver and the player, for every size of *)
(* the ring, every frame, pin and tone.                                    *)
(***************************************************************************)
EXTENDS Tasks, SequenceTheorems, TLAPS

(* The ring's arithmetic, without the modulus. *)
Advance(i, k) == (i + k) % RxSize
Distance(i, j) == (j - i) % RxSize

LEMMA RxSizeType == RxSize \in Nat /\ RxSize > 1
  BY RxSizeAssumption

LEMMA AdvanceCases ==
  ASSUME NEW i \in Slots, NEW k \in 0 .. RxSize
  PROVE  /\ Advance(i, k) = IF i + k < RxSize THEN i + k ELSE i + k - RxSize
         /\ Advance(i, k) \in Slots
  BY RxSizeType DEF Advance, Slots

LEMMA DistanceCases ==
  ASSUME NEW i \in Slots, NEW j \in Slots
  PROVE  /\ Distance(i, j) = IF i <= j THEN j - i ELSE j - i + RxSize
         /\ Distance(i, j) \in Slots
  BY RxSizeType DEF Distance, Slots

(* The step of a cursor is an advance by one. *)
LEMMA NextSlot ==
  ASSUME NEW i \in Slots
  PROVE  /\ sw_next(i) = Advance(i, 1)
         /\ sw_next(i) = IF i + 1 < RxSize THEN i + 1 ELSE 0
         /\ sw_next(i) \in Slots
  BY RxSizeType DEF sw_next, Advance, Slots

(* A push that finds room lengthens the content by one and stores behind   *)
(* all of it.                                                              *)
LEMMA HeadMoves ==
  ASSUME NEW t \in Slots, NEW h \in Slots, sw_next(h) # t
  PROVE  /\ Distance(t, sw_next(h)) = Distance(t, h) + 1
         /\ Advance(t, Distance(t, h)) = h
         /\ \A k \in 0 .. Distance(t, h) - 1 : Advance(t, k) # h
  <1>1. /\ sw_next(h) \in Slots
        /\ sw_next(h) = IF h + 1 < RxSize THEN h + 1 ELSE 0
    BY NextSlot
  <1>2. /\ Distance(t, h) = IF t <= h THEN h - t ELSE h - t + RxSize
        /\ Distance(t, h) \in Slots
    BY DistanceCases
  <1>3. Distance(t, sw_next(h)) =
          IF t <= sw_next(h) THEN sw_next(h) - t ELSE sw_next(h) - t + RxSize
    BY <1>1, DistanceCases
  <1>4. ASSUME NEW k \in 0 .. Distance(t, h)
        PROVE  Advance(t, k) = IF t + k < RxSize THEN t + k ELSE t + k - RxSize
    <2>1. k \in 0 .. RxSize
      BY <1>2, RxSizeType DEF Slots
    <2> QED
      BY <2>1, AdvanceCases
  <1> QED
    BY <1>1, <1>2, <1>3, <1>4, RxSizeType DEF Slots

(* A read shortens it by one, and what was second is now first. *)
LEMMA TailMoves ==
  ASSUME NEW t \in Slots, NEW h \in Slots, t # h
  PROVE  /\ Distance(sw_next(t), h) = Distance(t, h) - 1
         /\ \A k \in 0 .. Distance(t, h) - 2 :
              Advance(sw_next(t), k) = Advance(t, k + 1)
  <1>1. /\ sw_next(t) \in Slots
        /\ sw_next(t) = IF t + 1 < RxSize THEN t + 1 ELSE 0
    BY NextSlot
  <1>2. /\ Distance(t, h) = IF t <= h THEN h - t ELSE h - t + RxSize
        /\ Distance(t, h) \in Slots
    BY DistanceCases
  <1>3. Distance(sw_next(t), h) =
          IF sw_next(t) <= h THEN h - sw_next(t) ELSE h - sw_next(t) + RxSize
    BY <1>1, DistanceCases
  <1>4. ASSUME NEW k \in 0 .. Distance(t, h) - 2
        PROVE  Advance(sw_next(t), k) = Advance(t, k + 1)
    <2>1. k \in 0 .. RxSize /\ k + 1 \in 0 .. RxSize
      BY <1>2, RxSizeType DEF Slots
    <2>2. Advance(t, k + 1) =
            IF t + (k + 1) < RxSize THEN t + (k + 1) ELSE t + (k + 1) - RxSize
      BY <2>1, AdvanceCases
    <2>3. Advance(sw_next(t), k) =
            IF sw_next(t) + k < RxSize THEN sw_next(t) + k
                                       ELSE sw_next(t) + k - RxSize
      BY <1>1, <2>1, AdvanceCases
    <2> QED
      BY <1>1, <1>2, <2>1, <2>2, <2>3, RxSizeType DEF Slots
  <1> QED
    BY <1>1, <1>2, <1>3, <1>4, RxSizeType DEF Slots

(* The content as the property states it, in these terms. *)
LEMMA UsedIsDistance ==
  ASSUME head \in Slots, tail \in Slots
  PROVE  /\ Used = Distance(tail, head)
         /\ Used \in Slots
         /\ Used = 0 <=> head = tail
  BY DistanceCases, RxSizeType DEF Used, Distance, Slots

-----------------------------------------------------------------------------
(* The inductive invariant.  RingHoldsUnread says nothing between the two  *)
(* stores of begin(); what makes it true after the second is that the      *)
(* receiver, which may run between them, never moves tail.                 *)
RingType ==
    /\ head \in Slots /\ tail \in Slots
    /\ rxbuf \in [Slots -> Bytes \cup {Noise}]
    /\ unread \in Seq(Bytes)

RingInv ==
    /\ RingType
    /\ pc.at = "begin.head" => tail = 0
    /\ RingHoldsUnread

(* After end() one more byte comes only from a receiver that has not       *)
(* looked at the flag since, and with that byte it looks and stops.        *)
EndInv ==
    /\ listening \in BOOLEAN
    /\ late \in {0, 1}
    /\ listening => late = 0
    /\ late = 1 => rx.at = "idle"

IInv == RingInv /\ EndInv

(* The ring's content in terms of the arithmetic above. *)
Holds(h, t, u) ==
    /\ Distance(t, h) = Len(u)
    /\ \A k \in 0 .. Len(u) - 1 : rxbuf[Advance(t, k)] = u[k + 1]

LEMMA HoldsUnread ==
  ASSUME RingType
  PROVE  (/\ Used = Len(unread)
          /\ \A i \in 1 .. Used : rxbuf[(tail + i - 1) % RxSize] = unread[i])
         <=> Holds(head, tail, unread)
  <1>1. Used = Distance(tail, head) /\ Used \in Slots
    BY UsedIsDistance DEF RingType
  <1>2. tail \in Int /\ Used \in Nat /\ Len(unread) \in Nat
    BY <1>1, RxSizeType DEF RingType, Slots
  <1>3. \A i \in 1 .. Used :
          /\ i - 1 \in 0 .. Used - 1
          /\ (tail + i - 1) % RxSize = Advance(tail, i - 1)
          /\ unread[i] = unread[(i - 1) + 1]
    BY <1>2 DEF Advance
  <1>4. \A k \in 0 .. Used - 1 :
          /\ k + 1 \in 1 .. Used
          /\ (tail + (k + 1) - 1) % RxSize = Advance(tail, k)
    BY <1>2 DEF Advance
  <1> QED
    BY <1>1, <1>2, <1>3, <1>4 DEF Holds

-----------------------------------------------------------------------------
LEMMA InitInv == Init => IInv
  <1> SUFFICES ASSUME Init PROVE IInv
    OBVIOUS
  <1> USE DEF Init, PortInit
  <1>1. RingType
    BY RxSizeType DEF RingType, Slots
  <1>2. Used = 0 /\ Len(unread) = 0
    BY <1>1, UsedIsDistance DEF RingType
  <1>3. RingInv
    BY <1>1, <1>2 DEF RingInv, RingHoldsUnread
  <1>4. FALSE \in BOOLEAN
    OBVIOUS
  <1>5. listening = FALSE /\ late = 0 /\ late # 1
    OBVIOUS
  <1>6. EndInv
    BY <1>4, <1>5, Zenon DEF EndInv
  <1> QED
    BY <1>3, <1>6 DEF IInv

(* Steps that leave the ring alone and do not begin or end a call on it. *)
LEMMA RingUnchanged ==
  ASSUME RingInv, UNCHANGED <<rxbuf, head, tail, unread>>,
         \/ pc' = pc
         \/ pc.at # "begin.head" /\ pc'.at \notin {"begin.head", "read.advance"}
  PROVE  RingInv'
  BY DEF RingInv, RingType, RingHoldsUnread, Used

(* The receiver stores behind the content, or drops the byte. *)
LEMMA PushInv ==
  ASSUME RingInv, NEW c \in Bytes, Push(c), UNCHANGED <<pc, tail>>
  PROVE  RingInv'
  <1>1. CASE sw_next(head) = tail
    BY <1>1, RingUnchanged DEF Push
  <1>2. CASE sw_next(head) # tail
    <2> USE <1>2
    <2>1. RingType
      BY DEF RingInv
    <2>2. /\ rxbuf' = [rxbuf EXCEPT ![head] = c]
          /\ head' = sw_next(head)
          /\ unread' = Append(unread, c)
      BY DEF Push
    <2>3. RingType'
      BY <2>1, <2>2, NextSlot DEF RingType
    <2>4. Len(unread') = Len(unread) + 1 /\ Len(unread) \in Nat
      BY <2>1, <2>2 DEF RingType
    <2>5. ASSUME Holds(head, tail, unread)
          PROVE  Holds(head, tail, unread)'
      <3>1. /\ Distance(tail, sw_next(head)) = Len(unread) + 1
            /\ Advance(tail, Len(unread)) = head
            /\ \A k \in 0 .. Len(unread) - 1 : Advance(tail, k) # head
        BY <2>1, <2>5, HeadMoves DEF Holds, RingType
      <3>2. Distance(tail, head)' = Len(unread')
        BY <2>2, <2>4, <3>1 DEF Distance
      <3>3. ASSUME NEW k \in 0 .. Len(unread)
            PROVE  rxbuf'[Advance(tail, k)] = unread'[k + 1]
        <4>1. CASE k = Len(unread)
          BY <2>1, <2>2, <2>4, <3>1, <4>1 DEF RingType
        <4>2. CASE k < Len(unread)
          <5>1. k \in 0 .. Len(unread) - 1 /\ k + 1 \in 1 .. Len(unread)
            BY <2>4, <4>2
          <5>2. unread'[k + 1] = unread[k + 1]
            BY <2>1, <2>2, <5>1 DEF RingType
          <5>3. k \in 0 .. RxSize
            BY <2>1, <2>4, <2>5, <5>1, DistanceCases, RxSizeType
               DEF Holds, RingType, Slots
          <5>4. Advance(tail, k) \in Slots /\ Advance(tail, k) # head
            BY <2>1, <3>1, <5>1, <5>3, AdvanceCases DEF RingType
          <5>5. rxbuf'[Advance(tail, k)] = rxbuf[Advance(tail, k)]
            BY <2>1, <2>2, <5>4 DEF RingType
          <5> QED
            BY <2>5, <5>1, <5>2, <5>5 DEF Holds
        <4> QED
          BY <2>4, <4>1, <4>2
      <3> QED
        BY <2>4, <3>2, <3>3 DEF Holds, Advance
    <2>6. pc.at # "begin.head" => Holds(head, tail, unread)'
      BY <2>1, <2>5, HoldsUnread DEF RingInv, RingHoldsUnread
    <2>7. pc.at = "read.advance" =>
            (unread # << >> /\ pc.c = unread[1] => unread' # << >> /\ pc.c = unread'[1])
      BY <2>1, <2>2, <2>4 DEF RingType
    <2>8. (/\ Used = Len(unread)
           /\ \A i \in 1 .. Used : rxbuf[(tail + i - 1) % RxSize] = unread[i])'
          <=> Holds(head, tail, unread)'
      BY <2>3, HoldsUnread, PTL
    <2> QED
      BY <2>3, <2>6, <2>7, <2>8 DEF RingInv, RingHoldsUnread
  <1> QED
    BY <1>1, <1>2

(* The sketch takes the oldest byte. *)
LEMMA ReadLoadInv ==
  ASSUME RingInv, ReadLoad
  PROVE  RingInv'
  <1>1. RingType /\ pc.at = "loop" /\ head # tail
    BY DEF RingInv, ReadLoad, Calling, At, Empty
  <1>2. Used = Len(unread) /\ Used \in Slots /\ Used # 0
    BY <1>1, UsedIsDistance DEF RingInv, RingHoldsUnread, RingType
  <1>3. Used \in Nat /\ 1 \in 1 .. Used
    BY <1>2, RxSizeType DEF Slots
  <1>4. (tail + 1 - 1) % RxSize = tail
    BY <1>1, RxSizeType DEF RingType, Slots
  <1>5. rxbuf[tail] = unread[1] /\ unread # << >>
    BY <1>1, <1>2, <1>3, <1>4 DEF RingInv, RingHoldsUnread, RingType
  <1> QED
    BY <1>1, <1>5 DEF RingInv, RingType, RingHoldsUnread, Used, ReadLoad, port

LEMMA ReadAdvanceInv ==
  ASSUME RingInv, ReadAdvance
  PROVE  RingInv'
  <1>1. RingType /\ pc.at = "read.advance" /\ unread # << >>
    BY DEF RingInv, RingHoldsUnread, ReadAdvance, Calling, At
  <1>2. Holds(head, tail, unread)
    BY <1>1, HoldsUnread DEF RingInv, RingHoldsUnread
  <1>3. /\ tail' = sw_next(tail) /\ unread' = Tail(unread)
        /\ head' = head /\ rxbuf' = rxbuf /\ pc'.at = "loop"
    BY DEF ReadAdvance, Return
  <1>4. RingType'
    BY <1>1, <1>3, NextSlot DEF RingType
  <1>5. /\ Len(unread) \in Nat \ {0} /\ Len(unread') = Len(unread) - 1
        /\ \A k \in 0 .. Len(unread') - 1 : unread'[k + 1] = unread[(k + 1) + 1]
    BY <1>1, <1>3 DEF RingType
  <1>6. tail # head
    BY <1>1, <1>2, <1>5, DistanceCases, RxSizeType DEF Holds, RingType, Slots
  <1>7. /\ Distance(sw_next(tail), head) = Len(unread) - 1
        /\ \A k \in 0 .. Len(unread) - 2 :
             Advance(sw_next(tail), k) = Advance(tail, k + 1)
    BY <1>1, <1>2, <1>6, TailMoves DEF Holds, RingType
  <1>8. ASSUME NEW k \in 0 .. Len(unread') - 1
        PROVE  rxbuf[Advance(sw_next(tail), k)] = unread'[k + 1]
    <2>1. k \in 0 .. Len(unread) - 2 /\ k + 1 \in 0 .. Len(unread) - 1
      BY <1>5
    <2> QED
      BY <1>2, <1>5, <1>7, <2>1 DEF Holds
  <1>9. Holds(head, tail, unread)'
    BY <1>3, <1>5, <1>7, <1>8 DEF Holds, Distance, Advance
  <1>10. (/\ Used = Len(unread)
          /\ \A i \in 1 .. Used : rxbuf[(tail + i - 1) % RxSize] = unread[i])'
         <=> Holds(head, tail, unread)'
    BY <1>4, HoldsUnread, PTL
  <1> QED
    BY <1>3, <1>4, <1>9, <1>10 DEF RingInv, RingHoldsUnread

(* begin() leaves an empty ring, whatever came between its two stores. *)
LEMMA BeginInv ==
  ASSUME RingInv, BeginTail \/ BeginHead
  PROVE  RingInv'
  <1>1. CASE BeginTail
    <2>1. 0 \in Slots
      BY RxSizeType DEF Slots
    <2> QED
      BY <1>1, <2>1 DEF RingInv, RingType, RingHoldsUnread, BeginTail
  <1>2. CASE BeginHead
    <2>1. /\ head' = 0 /\ tail' = 0 /\ unread' = << >> /\ rxbuf' = rxbuf
          /\ pc'.at = "loop"
      BY <1>2 DEF RingInv, BeginHead, Calling, At, Return
    <2>2. RingType' /\ Len(unread') = 0
      BY <2>1, RxSizeType DEF RingInv, RingType, Slots
    <2>3. Used' = 0
      BY <2>1, RxSizeType DEF Used
    <2> QED
      BY <2>1, <2>2, <2>3 DEF RingInv, RingHoldsUnread
  <1> QED
    BY <1>1, <1>2

(* Every step keeps the ring. *)
LEMMA StepRing ==
  ASSUME RingInv, [Next]_vars
  PROVE  RingInv'
  <1> USE DEF port, sound, Calling, At, Goto, Return
  <1>1. CASE Receive
    <2>1. CASE RxPush
      <3>1. PICK c \in Bytes : Push(c) /\ UNCHANGED tail
        BY <2>1 DEF RxPush
      <3> QED
        BY <1>1, <3>1, PushInv DEF Receive, PortOnly
    <2>2. CASE RxDetect \/ RxSample \/ RxRest \/ RxWake
      BY <1>1, <2>2, RingUnchanged
         DEF Receive, PortOnly, RxDetect, RxSample, RxRest, RxWake
    <2> QED
      BY <1>1, <2>1, <2>2 DEF Receive, PortOnly, RxStep
  <1>2. CASE Play
    BY <1>2, RingUnchanged
       DEF Play, ToneOnly, PlayerStep, PlayerIdles, PlayerWakes, PlayerPlays,
           PlayerCounts
  <1>3. CASE Continue
    <2>1. CASE ToneOnly(ToneContinues)
      BY <2>1, RingUnchanged
         DEF ToneOnly, ToneContinues, ToneHalf, ToneCount, NoToneRest
    <2> QED
      BY <1>3, <2>1, BeginInv, ReadAdvanceInv DEF Continue, PortOnly, PortContinues
  <1>4. CASE Call
    <2>1. CASE ToneOnly(ToneCalled)
      BY <2>1, RingUnchanged DEF ToneOnly, ToneCalled, ToneStart, NoToneCount
    <2>2. ASSUME NEW on \in BOOLEAN, SetListening(on)
          PROVE  RingInv'
      BY <2>2, RingUnchanged DEF SetListening
    <2> QED
      BY <1>4, <2>1, <2>2, BeginInv, ReadLoadInv DEF Call, PortOnly, PortCalled
  <1>5. CASE Line
    BY <1>5, RingUnchanged DEF Line, PortOnly, Tick, StartFrame
  <1>6. CASE UNCHANGED vars
    BY <1>6, RingUnchanged DEF vars
  <1> QED
    BY <1>1, <1>2, <1>3, <1>4, <1>5, <1>6 DEF Next

(* Every step keeps what end() has achieved. *)
LEMMA StepEnd ==
  ASSUME EndInv, [Next]_vars
  PROVE  EndInv'
  <1> USE DEF port, sound
  <1>1. CASE Receive
    <2>1. CASE RxPush
      <3>1. /\ rx.at # "idle"
            /\ rx' = NextFrame /\ listening' = listening
            /\ late' = IF listening THEN late ELSE late + 1
        BY <2>1 DEF RxPush, Pushes, RxRuns, Blocked
      <3>2. late = 0
        BY <3>1 DEF EndInv
      <3> QED
        BY <3>1, <3>2 DEF EndInv, NextFrame
    <2>2. CASE RxDetect \/ RxSample \/ RxRest \/ RxWake
      <3>1. rx.at # "idle" \/ listening
        BY <2>2 DEF RxDetect, RxSample, RxRest, RxWake, RxRuns, Blocked
      <3>2. late = 0
        BY <3>1 DEF EndInv
      <3> QED
        BY <2>2, <3>2 DEF EndInv, RxDetect, RxSample, RxRest, RxWake
    <2> QED
      BY <1>1, <2>1, <2>2 DEF Receive, PortOnly, RxStep
  <1>2. CASE Play
    BY <1>2
       DEF EndInv, Play, ToneOnly, PlayerStep, PlayerIdles, PlayerWakes,
           PlayerPlays, PlayerCounts
  <1>3. CASE Continue
    <2>1. CASE ToneOnly(ToneContinues) \/ ReadAdvance
      BY <2>1 DEF EndInv, ToneOnly, ReadAdvance
    <2>2. CASE BeginHead
      <3>1. TRUE \in BOOLEAN
        OBVIOUS
      <3> QED
        BY <2>2, <3>1 DEF EndInv, BeginHead
    <2> QED
      BY <1>3, <2>1, <2>2 DEF Continue, PortOnly, PortContinues
  <1>4. CASE Call
    <2>1. CASE ToneOnly(ToneCalled) \/ BeginTail \/ ReadLoad
      BY <2>1 DEF EndInv, ToneOnly, ToneCalled, BeginTail, ReadLoad, ToneStart,
                  NoToneCount
    <2>2. ASSUME NEW on \in BOOLEAN, SetListening(on)
          PROVE  EndInv'
      BY <2>2 DEF EndInv, SetListening
    <2> QED
      BY <1>4, <2>1, <2>2 DEF Call, PortOnly, PortCalled
  <1>5. CASE Line
    <2>1. UNCHANGED <<listening, late>>
      BY <1>5 DEF Line, PortOnly, Tick, StartFrame
    <2>2. rx' = rx \/ rx.at = "frame"
      BY <1>5 DEF Line, PortOnly, Tick, StartFrame
    <2> QED
      BY <2>1, <2>2 DEF EndInv
  <1>6. CASE UNCHANGED vars
    BY <1>6 DEF EndInv, vars
  <1> QED
    BY <1>1, <1>2, <1>3, <1>4, <1>5, <1>6 DEF Next

-----------------------------------------------------------------------------
(* The invariant the properties below follow from. *)
THEOREM Inductive == Spec => []IInv
  <1>1. IInv /\ [Next]_vars => IInv'
    BY StepRing, StepEnd DEF IInv
  <1> QED
    BY <1>1, InitInv, PTL DEF Spec

(* Whatever the order in which the receiver and the sketch go, outside     *)
(* begin() the ring is what was pushed and not yet read.                   *)
THEOREM RingCorrect == Spec => []RingHoldsUnread
  <1>1. IInv => RingHoldsUnread
    BY DEF IInv, RingInv
  <1> QED
    BY <1>1, Inductive, PTL

(* At most one byte is pushed after end(). *)
THEOREM EndCorrect == Spec => []EndIsEffective
  <1>1. IInv => EndIsEffective
    BY DEF IInv, EndInv, EndIsEffective
  <1> QED
    BY <1>1, Inductive, PTL

(* A tone that is under way is changed by the player alone: in every step  *)
(* of the sketch the player is blocked, and every step of the player that  *)
(* changes what is played moves the player too.                            *)
THEOREM ToneCorrect == Spec => ToneIsExclusive
  <1>1. ASSUME [Next]_vars, PlayerRuns, ~Silent, player' = player
        PROVE  UNCHANGED sound
    <2> USE <1>1 DEF sound, Calling, SketchRuns, PlayerRuns
    <2>1. CASE Play
      BY <2>1 DEF Play, ToneOnly, PlayerStep, PlayerIdles, PlayerWakes,
                  PlayerPlays, PlayerCounts, Blocked
    <2>2. CASE ToneOnly(ToneContinues) \/ ToneOnly(ToneCalled)
      BY <2>2 DEF ToneOnly, ToneContinues, ToneHalf, ToneCount, NoToneRest,
                  ToneCalled, ToneStart, NoToneCount
    <2>3. CASE Receive \/ Line \/ PortOnly(PortContinues) \/ PortOnly(PortCalled)
      BY <2>3 DEF Receive, Line, PortOnly
    <2>4. CASE UNCHANGED vars
      BY <2>4 DEF vars
    <2> QED
      BY <2>1, <2>2, <2>3, <2>4 DEF Next, Continue, Call
  <1>2. [Next]_vars =>
          [PlayerRuns /\ ~Silent /\ player' = player => UNCHANGED sound]_<<player, sound>>
    BY <1>1
  <1> QED
    BY <1>2, PTL DEF Spec, ToneIsExclusive

-----------------------------------------------------------------------------
(* What lets the sketch run again, as SketchKeepsRunning has it: that the  *)
(* player and the receiver come to rest.                                   *)

(* A tone under way that counts, and how much of it is left. *)
Counted == PlayerRuns /\ ~Silent /\ tone_cycles_left > 0
Left == 2 * tone_cycles_left + (IF player.at = "fetch" THEN 1 ELSE 0)

(* A counted tone ends: every step brings its end nearer or leaves it as   *)
(* it is, it keeps its count until it has none, and then it is silent: no  *)
(* call of the sketch makes it a tone that plays for ever.                 *)
CountsDown ==
    Counted =>
        /\ UNCHANGED <<player, sound>> \/ Left' < Left
        /\ Counted' \/ (player'.at = "fetch" /\ Silent')

(* What the receiver has left to do before it rests on a quiet line. *)
Work ==
    IF Blocked(rx) THEN 0
    ELSE IF rx.at = "poll" THEN 1
    ELSE 1 + (Due(DataBits - 1) - rx.clock) + (DataBits - Len(rx.c))

(* On a quiet line a receiver at work comes to rest: it samples the rest   *)
(* of its frame, pushes it and finds no other, whatever the player and the *)
(* sketch do.                                                              *)
Settles ==
    (line = Quiet /\ line' = Quiet /\ ~Blocked(rx)) => (rx' = rx \/ Work' < Work)

(* The inductive invariants they need.  A period is played on the pin that *)
(* the sound still has, for the player holds the CPU; a frame is sampled   *)
(* no later than its clock says.                                           *)
ToneInv ==
    /\ tone_cycles_left \in Nat
    /\ pc.at \in {"tone.half", "tone.count"} => pc.n \in Nat
    /\ player.at \in {"absent", "idle", "fetch", "period"}
    /\ player.at = "period" => player.pin = tone_pin /\ ~Silent

FrameInv ==
    /\ rx.at \in {"absent", "idle", "quiet", "poll", "frame"}
    /\ rx.at = "frame" =>
         /\ rx.clock \in 0 .. Due(DataBits - 1)
         /\ rx.c \in Seq({0, 1}) /\ Len(rx.c) < DataBits
         /\ rx = [at |-> "frame", clock |-> rx.clock, c |-> rx.c]
    /\ line \in [b : Bytes, k : 0 .. 2 * DataBits + 3] \cup {Quiet}

LEMMA PlayCounts ==
  ASSUME ToneInv, Play
  PROVE  ToneInv' /\ CountsDown
  <1> USE ToneAssumption DEF sound, ToneOnly
  <1>1. CASE ToneOnly(PlayerIdles) \/ ToneOnly(PlayerWakes) \/ ToneOnly(PlayerPlays)
    <2>1. ToneInv'
      BY <1>1 DEF ToneInv, PlayerIdles, PlayerWakes, PlayerPlays, Silent
    <2>2. Counted => player.at = "fetch" /\ player' = [at |-> "period", pin |-> tone_pin]
                       /\ UNCHANGED sound
      BY <1>1 DEF Counted, PlayerRuns, Blocked, PlayerIdles, PlayerWakes, PlayerPlays
    <2>3. Counted => Left' < Left /\ Counted'
      <3>1. tone_cycles_left \in Nat
        BY DEF ToneInv
      <3> QED
        BY <2>2, <3>1 DEF Left, Counted, PlayerRuns, Blocked, Silent
    <2> QED
      BY <2>1, <2>3 DEF CountsDown
  <1>2. CASE ToneOnly(PlayerCounts)
    <2>1. /\ player.at = "period" /\ player' = [at |-> "fetch"] /\ pc' = pc
          /\ player.pin = tone_pin /\ ~Silent /\ tone_cycles_left \in Nat
      BY <1>2 DEF ToneInv, PlayerCounts
    <2>2. CASE Last
      <3>1. /\ tone_cycles_left = 1 /\ tone_cycles_left' = 0
            /\ tone_half_us' = 0 /\ tone_pin' = NoPin
        BY <1>2, <2>1, <2>2 DEF PlayerCounts, Last, Silenced
      <3>2. Left = 2 /\ Left' = 1 /\ Silent'
        BY <2>1, <3>1 DEF Left, Silent
      <3> QED
        BY <2>1, <3>1, <3>2 DEF ToneInv, CountsDown
    <2>3. CASE ~Last
      <3>1. tone_cycles_left' = Counts(tone_cycles_left) /\ tone_pin' = tone_pin
              /\ tone_half_us' = tone_half_us
        BY <1>2, <2>3 DEF PlayerCounts
      <3>2. /\ tone_cycles_left' \in Nat
            /\ tone_cycles_left > 0 =>
                 tone_cycles_left' = tone_cycles_left - 1 /\ tone_cycles_left' > 0
        BY <2>1, <2>3, <3>1 DEF Last, Counts
      <3>3. ToneInv'
        BY <2>1, <3>2 DEF ToneInv
      <3>4. Counted => Left' < Left /\ Counted'
        BY <2>1, <3>1, <3>2 DEF Left, Counted, PlayerRuns, Blocked, Silent
      <3> QED
        BY <3>3, <3>4 DEF CountsDown
    <2> QED
      BY <2>2, <2>3
  <1> QED
    BY <1>1, <1>2 DEF Play, PlayerStep

(* The player holds the CPU: while a tone is under way nobody else touches *)
(* it.                                                                     *)
LEMMA OthersCount ==
  ASSUME ToneInv, [Next]_vars, ~Play
  PROVE  ToneInv' /\ CountsDown
  <1> USE ToneAssumption DEF sound, port
  <1>1. CASE Receive \/ Line \/ PortOnly(PortContinues) \/ PortOnly(PortCalled)
             \/ UNCHANGED vars
    <2>1. player' = player /\ UNCHANGED sound
      BY <1>1 DEF Receive, Line, PortOnly, vars
    <2>2. pc' = pc \/ pc'.at \notin {"tone.half", "tone.count"}
      BY <1>1 DEF Receive, Line, PortOnly, vars, PortContinues, BeginHead, ReadAdvance,
                  PortCalled, BeginTail, ReadLoad, SetListening, Return
    <2> QED
      BY <2>1, <2>2 DEF ToneInv, CountsDown, Counted, PlayerRuns, Silent
  <1>2. CASE ToneOnly(ToneContinues) \/ ToneOnly(ToneCalled)
    <2>1. Blocked(player)
      BY <1>2 DEF ToneOnly, ToneContinues, ToneHalf, ToneCount, NoToneRest, ToneCalled,
                  ToneStart, NoToneCount, Calling, SketchRuns
    <2>2. player.at # "period" /\ ~Counted
      BY <2>1 DEF Blocked, Counted, PlayerRuns
    <2>3. ToneInv'
      <3>1. CASE ToneHalf \/ ToneCount
        BY <2>2, <3>1 DEF ToneInv, ToneHalf, ToneCount, Return, Calling, At
      <3>2. CASE NoToneRest
        BY <2>2, <3>2 DEF ToneInv, NoToneRest, Return
      <3>3. ASSUME NEW p \in Pins, NEW h \in Halves, NEW n \in Cycles, ToneStart(p, h, n)
            PROVE  ToneInv'
        <4>1. n \in Nat
          BY <3>3
        <4> QED
          BY <2>2, <3>3, <4>1 DEF ToneInv, ToneStart
      <3>4. ASSUME NEW p \in Pins, NoToneCount(p)
            PROVE  ToneInv'
        BY <2>2, <3>4 DEF ToneInv, NoToneCount
      <3> QED
        BY <1>2, <3>1, <3>2, <3>3, <3>4 DEF ToneOnly, ToneContinues, ToneCalled
    <2> QED
      BY <2>2, <2>3 DEF CountsDown
  <1> QED
    BY <1>1, <1>2 DEF Next, Continue, Call

(* A tone with a duration ends, whatever the sketch calls: the safety half *)
(* of SketchKeepsRunning that is about tone().                             *)
THEOREM TonesWindDown == Spec => [][CountsDown]_vars
  <1>1. Init => ToneInv
    BY DEF Init, ToneInit, ToneInv
  <1>2. ToneInv /\ [Next]_vars => ToneInv' /\ CountsDown
    BY PlayCounts, OthersCount
  <1>3. ToneInv /\ [Next]_vars => ToneInv' /\ [CountsDown]_vars
    BY <1>2
  <1> QED
    BY <1>1, <1>3, PTL DEF Spec

(* The receiver, step by step. *)
LEMMA BitsType == DataBits \in Nat /\ DataBits > 0
  BY FrameAssumption

(* Whatever half bit the line is in, what is read of it is a bit. *)
LEMMA ReadsBits ==
  ASSUME line \in [b : Bytes, k : 0 .. 2 * DataBits + 3] \cup {Quiet}
  PROVE  Readable \subseteq {0, 1}
  <1>1. ASSUME NEW k \in Int, k <= 2 * DataBits + 3, line # Quiet
        PROVE  LevelAt(line, k) \in {0, 1}
    <2>1. CASE k < 0
      BY <2>1 DEF LevelAt
    <2>2. CASE k >= 0
      <3>1. PICK b : b = line.b /\ b \in Bytes
        BY <1>1
      <3>2. b \in Seq({0, 1}) /\ Len(b) = DataBits
        BY <3>1, BitsType DEF Bytes
      <3>3. FrameOf(b) \in Seq({0, 1}) /\ Len(FrameOf(b)) = DataBits + 2
        <4>1. /\ <<0>> \o b \in Seq({0, 1}) /\ Len(<<0>> \o b) = DataBits + 1
          BY <3>2, BitsType
        <4>2. /\ (<<0>> \o b) \o <<1>> \in Seq({0, 1})
              /\ Len((<<0>> \o b) \o <<1>>) = DataBits + 2
          BY <4>1, BitsType
        <4> QED
          BY <4>2 DEF FrameOf
      <3>4. k \div 2 + 1 \in 1 .. DataBits + 2
        BY <1>1, <2>2, BitsType
      <3>5. FrameOf(b)[k \div 2 + 1] \in {0, 1}
        BY <3>3, <3>4
      <3> QED
        BY <1>1, <2>2, <3>1, <3>5 DEF LevelAt
    <2> QED
      BY <1>1, <2>1, <2>2
  <1>2. CASE line = Quiet
    BY <1>2 DEF Readable, Level, LevelAt
  <1>3. CASE line # Quiet
    <2>1. line.k \in Int /\ line.k <= 2 * DataBits + 3
      BY <1>3, BitsType
    <2>2. line.k - 1 \in Int /\ line.k - 1 <= 2 * DataBits + 3
      BY <2>1, BitsType
    <2> QED
      BY <1>1, <1>3, <2>1, <2>2 DEF Readable, Level
  <1> QED
    BY <1>2, <1>3

LEMMA FrameIs ==
  ASSUME FrameInv, rx.at = "frame"
  PROVE  \E k \in Nat, n \in Nat :
           /\ k = rx.clock /\ n = Len(rx.c) /\ n < DataBits
           /\ k <= 2 * DataBits - 1 /\ rx.c \in Seq({0, 1})
           /\ Work = 1 + (2 * DataBits - 1 - k) + (DataBits - n)
           /\ Overdue <=> k >= 1 + 2 * n
  <1>1. Due(DataBits - 1) = 2 * DataBits - 1
    BY BitsType DEF Due
  <1>2. PICK k \in Nat : k = rx.clock /\ k <= 2 * DataBits - 1
    BY <1>1, BitsType DEF FrameInv
  <1>3. rx.c \in Seq({0, 1}) /\ Len(rx.c) < DataBits
    BY DEF FrameInv
  <1>4. PICK n \in Nat : n = Len(rx.c) /\ n < DataBits
    BY <1>3
  <1>5. Work = 1 + (2 * DataBits - 1 - k) + (DataBits - n)
    BY <1>1, <1>2, <1>4 DEF Work, Blocked
  <1>6. Overdue <=> k >= 1 + 2 * n
    BY <1>2, <1>4 DEF Overdue, Due
  <1> QED
    BY <1>2, <1>3, <1>4, <1>5, <1>6

LEMMA SampleSettles ==
  ASSUME FrameInv, RxSample
  PROVE  FrameInv' /\ Work' < Work
  <1>1. PICK bit \in Readable : rx' = [rx EXCEPT !.c = Append(@, bit)]
    BY DEF RxSample
  <1>0. line' = line
    BY DEF RxSample, port
  <1>2. rx.at = "frame" /\ Len(rx.c) < DataBits - 1
    BY DEF RxSample, Overdue
  <1>3. PICK k \in Nat, n \in Nat :
          /\ k = rx.clock /\ n = Len(rx.c) /\ n < DataBits
          /\ k <= 2 * DataBits - 1 /\ rx.c \in Seq({0, 1})
          /\ Work = 1 + (2 * DataBits - 1 - k) + (DataBits - n)
    BY <1>2, FrameIs
  <1>4. bit \in {0, 1}
    BY <1>1, ReadsBits DEF FrameInv
  <1>5. rx' = [at |-> "frame", clock |-> k, c |-> Append(rx.c, bit)]
    BY <1>1, <1>2, <1>3 DEF FrameInv
  <1>6. Len(Append(rx.c, bit)) = n + 1 /\ Append(rx.c, bit) \in Seq({0, 1})
    BY <1>3, <1>4
  <1>7. FrameInv'
    BY <1>0, <1>2, <1>3, <1>5, <1>6, BitsType DEF FrameInv
  <1>8. Work' = 1 + (2 * DataBits - 1 - k) + (DataBits - (n + 1))
    <2>1. rx'.at = "frame" /\ rx'.clock = k /\ Len(rx'.c) = n + 1
      BY <1>5, <1>6
    <2>2. Due(DataBits - 1) = 2 * DataBits - 1
      BY BitsType DEF Due
    <2> QED
      BY <2>1, <2>2 DEF Work, Blocked
  <1>9. k \in Nat /\ n \in Nat /\ Work = 1 + (2 * DataBits - 1 - k) + (DataBits - n)
    BY <1>3
  <1>10. Work' < Work
    BY <1>8, <1>9, BitsType
  <1> QED
    BY <1>7, <1>10

LEMMA PushSettles ==
  ASSUME FrameInv, RxPush
  PROVE  FrameInv' /\ Work' < Work
  <1>1. rx' = NextFrame /\ line' = line /\ rx.at = "frame"
    BY DEF RxPush, Pushes, Overdue
  <1>2. rx'.at \in {"poll", "idle"}
    BY <1>1 DEF NextFrame
  <1>3. FrameInv'
    BY <1>1, <1>2 DEF FrameInv
  <1>4. Work' \in {0, 1}
    BY <1>2 DEF Work, Blocked
  <1>5. PICK k \in Nat, n \in Nat :
          /\ n < DataBits /\ k <= 2 * DataBits - 1
          /\ Work = 1 + (2 * DataBits - 1 - k) + (DataBits - n)
    BY <1>1, FrameIs
  <1>6. Work \in Nat /\ Work > 1
    BY <1>5, BitsType
  <1> QED
    BY <1>3, <1>4, <1>6

(* A half bit that passes: the clock goes on until a sample is due. *)
LEMMA TickSettles ==
  ASSUME FrameInv, Tick
  PROVE  FrameInv' /\ (rx' = rx \/ Work' < Work)
  <1>1. line' \in [b : Bytes, k : 0 .. 2 * DataBits + 3] \cup {Quiet}
    <2>1. CASE line = Quiet \/ line.k = 2 * DataBits + 3
      BY <2>1 DEF Tick
    <2>2. CASE line # Quiet /\ line.k # 2 * DataBits + 3
      <3>1. line \in [b : Bytes, k : 0 .. 2 * DataBits + 3]
        BY <2>2 DEF FrameInv
      <3>2. line.k + 1 \in 0 .. 2 * DataBits + 3
        BY <2>2, <3>1, BitsType
      <3>3. line' = [line EXCEPT !.k = @ + 1]
        BY <2>2 DEF Tick
      <3> QED
        BY <3>1, <3>2, <3>3
    <2> QED
      BY <2>1, <2>2
  <1>2. CASE rx' = rx
    BY <1>1, <1>2 DEF FrameInv
  <1>3. CASE rx' # rx
    <2>1. rx.at = "frame"
      BY <1>3 DEF Tick
    <2>2. PICK k \in Nat, n \in Nat :
            /\ k = rx.clock /\ n = Len(rx.c) /\ n < DataBits
            /\ k <= 2 * DataBits - 1 /\ rx.c \in Seq({0, 1})
            /\ Work = 1 + (2 * DataBits - 1 - k) + (DataBits - n)
            /\ Overdue <=> k >= 1 + 2 * n
      BY <2>1, FrameIs
    <2>3. rx = [at |-> "frame", clock |-> k, c |-> rx.c]
      BY <2>1, <2>2 DEF FrameInv
    <2>4. ~Overdue
      BY <1>3, <2>1, <2>2, <2>3 DEF Tick
    <2>5. rx' = [at |-> "frame", clock |-> k + 1, c |-> rx.c]
      BY <2>1, <2>2, <2>3, <2>4 DEF Tick
    <2>6. k + 1 <= 2 * DataBits - 1
      BY <2>2, <2>4, BitsType
    <2>7. Due(DataBits - 1) = 2 * DataBits - 1
      BY BitsType DEF Due
    <2>8. FrameInv'
      <3>1. k + 1 \in 0 .. Due(DataBits - 1)
        BY <2>2, <2>6, <2>7, BitsType
      <3> QED
        BY <1>1, <2>2, <2>5, <3>1 DEF FrameInv
    <2>9. Work' = 1 + (2 * DataBits - 1 - (k + 1)) + (DataBits - n)
      BY <2>2, <2>5, <2>7 DEF Work, Blocked
    <2>10. k \in Nat /\ n \in Nat /\ Work = 1 + (2 * DataBits - 1 - k) + (DataBits - n)
      BY <2>2
    <2>11. Work' < Work
      BY <2>9, <2>10, BitsType
    <2> QED
      BY <2>8, <2>11
  <1> QED
    BY <1>2, <1>3

LEMMA StepSettles ==
  ASSUME FrameInv, [Next]_vars
  PROVE  FrameInv' /\ Settles
  <1> USE DEF port, sound
  <1>1. CASE RxDetect
    <2>1. line # Quiet
      BY <1>1 DEF RxDetect, Level, LevelAt
    <2>2. /\ rx' = [at |-> "frame", clock |-> 0, c |-> << >>] /\ line' = line
          /\ << >> \in Seq({0, 1}) /\ Len(<< >>) = 0
      BY <1>1 DEF RxDetect
    <2>3. 0 \in 0 .. Due(DataBits - 1)
      BY BitsType DEF Due
    <2> QED
      BY <2>1, <2>2, <2>3, BitsType DEF FrameInv, Settles
  <1>2. CASE RxSample
    BY <1>2, SampleSettles DEF Settles
  <1>3. CASE RxPush
    BY <1>3, PushSettles DEF Settles
  <1>4. CASE RxRest
    <2>1. rx.at = "poll" /\ rx' = [at |-> "quiet"] /\ line' = line
      BY <1>4 DEF RxRest
    <2>2. Work = 1 /\ Work' = 0
      BY <2>1 DEF Work, Blocked
    <2> QED
      BY <2>1, <2>2 DEF FrameInv, Settles
  <1>5. CASE RxWake
    BY <1>5 DEF FrameInv, Settles, RxWake, Blocked
  <1>6. CASE Line
    <2>1. CASE Tick
      BY <2>1, TickSettles DEF Settles
    <2>2. CASE StartFrame
      <3>1. PICK b \in Sent : line' = [b |-> b, k |-> 0]
        BY <2>2 DEF StartFrame
      <3>2. rx' = rx /\ b \in Bytes /\ 0 \in 0 .. 2 * DataBits + 3
        BY <2>2, FrameAssumption, BitsType DEF StartFrame, Bytes
      <3> QED
        BY <3>1, <3>2 DEF FrameInv, Settles
    <2> QED
      BY <1>6, <2>1, <2>2 DEF Line, PortOnly
  <1>7. CASE BeginHead
    BY <1>7 DEF BeginHead, FrameInv, Settles, Blocked
  <1>8. CASE \/ Play \/ ToneOnly(ToneContinues) \/ ToneOnly(ToneCalled)
             \/ ReadAdvance \/ PortCalled \/ UNCHANGED vars
    <2>1. rx' = rx /\ line' = line
      BY <1>8 DEF Play, ToneOnly, ReadAdvance, PortCalled, BeginTail, ReadLoad,
                  SetListening, vars
    <2> QED
      BY <2>1 DEF FrameInv, Settles
  <1> QED
    BY <1>1, <1>2, <1>3, <1>4, <1>5, <1>6, <1>7, <1>8
       DEF Next, Receive, Continue, Call, PortOnly, RxStep, PortContinues

(* The receiver rests when the line is quiet: the safety half of           *)
(* SketchKeepsRunning that is about SoftwareSerial.                        *)
THEOREM ReceiverSettles == Spec => [][Settles]_vars
  <1>1. Init => FrameInv
    BY DEF Init, PortInit, FrameInv
  <1>2. FrameInv /\ [Next]_vars => FrameInv' /\ [Settles]_vars
    BY StepSettles
  <1> QED
    BY <1>1, <1>2, PTL DEF Spec
=============================================================================
