-------------------------------- MODULE Tone --------------------------------
(***************************************************************************)
(* cores/arduino/wiring_tone.c: tone() stores what to play, a task at the  *)
(* highest priority plays it and holds the CPU meanwhile.                  *)
(***************************************************************************)
EXTENDS Scheduler, Integers

CONSTANTS
    Pins, NoPin,  \* NoPin is 0xFF
    Halves,       \* bound: half periods asked for; 0 above 500 kHz
    Cycles        \* bound: counts asked for; 0 for no duration, or one
                  \* shorter than a period

ASSUME ToneAssumption ==
    NoPin \notin Pins /\ Halves \subseteq Nat /\ Cycles \subseteq Nat

VARIABLES
    tone_pin, tone_half_us, tone_cycles_left

sound == <<tone_pin, tone_half_us, tone_cycles_left>>

ToneInit ==
    /\ player = [at |-> "absent"]
    /\ tone_pin = NoPin
    /\ tone_half_us = 0
    /\ tone_cycles_left = 0

-----------------------------------------------------------------------------
(* tone_task_fn(): nothing to play, wait a tick ... *)
Silent == tone_half_us = 0 \/ tone_pin = NoPin

PlayerIdles ==
    /\ player.at = "fetch" /\ Silent
    /\ player' = [at |-> "idle"]
    /\ UNCHANGED <<pc, sound>>

PlayerWakes ==
    /\ player.at = "idle"
    /\ player' = [at |-> "fetch"]
    /\ UNCHANGED <<pc, sound>>

(* ... else one period on the pin it fetched ... *)
PlayerPlays ==
    /\ player.at = "fetch" /\ ~Silent
    /\ player' = [at |-> "period", pin |-> tone_pin]
    /\ UNCHANGED <<pc, sound>>

(* ... after which it counts, and stops by noTone(). *)
Silenced(p) ==
    IF tone_pin = p
    THEN tone_cycles_left' = 0 /\ tone_half_us' = 0 /\ tone_pin' = NoPin
    ELSE tone_cycles_left' = 0 /\ UNCHANGED <<tone_half_us, tone_pin>>

Last == tone_cycles_left = 1

Counts(k) == IF k = 0 THEN 0 ELSE k - 1

PlayerCounts ==
    /\ player.at = "period"
    /\ IF Last
       THEN Silenced(player.pin)
       ELSE /\ tone_cycles_left' = Counts(tone_cycles_left)
            /\ UNCHANGED <<tone_pin, tone_half_us>>
    /\ player' = [at |-> "fetch"]
    /\ UNCHANGED pc

-----------------------------------------------------------------------------
(* tone(): three stores, then the task is created if there is none. *)
ToneStart(p, h, n) ==
    /\ Calling("loop")
    /\ tone_pin' = p
    /\ pc' = [at |-> "tone.half", h |-> h, n |-> n]
    /\ UNCHANGED <<player, tone_half_us, tone_cycles_left>>

ToneHalf ==
    /\ Calling("tone.half")
    /\ tone_half_us' = pc.h
    /\ pc' = [at |-> "tone.count", n |-> pc.n]
    /\ UNCHANGED <<player, tone_pin, tone_cycles_left>>

ToneCount ==
    /\ Calling("tone.count")
    /\ tone_cycles_left' = pc.n
    /\ player' = IF player.at = "absent" THEN [at |-> "fetch"] ELSE player
    /\ Return
    /\ UNCHANGED <<tone_pin, tone_half_us>>

(* noTone() of the sketch clears the count before it clears the rest. *)
NoToneCount(p) ==
    /\ Calling("loop") /\ tone_pin = p
    /\ tone_cycles_left' = 0
    /\ pc' = [at |-> "noTone.rest"]
    /\ UNCHANGED <<player, tone_pin, tone_half_us>>

NoToneRest ==
    /\ Calling("noTone.rest")
    /\ tone_half_us' = 0
    /\ tone_pin' = NoPin
    /\ Return
    /\ UNCHANGED <<player, tone_cycles_left>>

-----------------------------------------------------------------------------
PlayerStep == PlayerIdles \/ PlayerWakes \/ PlayerPlays \/ PlayerCounts
ToneContinues == ToneHalf \/ ToneCount \/ NoToneRest
ToneCalled ==
    \E p \in Pins :
        \/ \E h \in Halves, n \in Cycles : ToneStart(p, h, n)
        \/ NoToneCount(p)

(* tone() and noTone() of the sketch never reach a tone that is under way: *)
(* the player holds the CPU until it has stopped by itself, so a tone      *)
(* changes neither pin nor pitch, and only the player counts its periods.  *)
ToneIsExclusive ==
    [][PlayerRuns /\ ~Silent /\ player' = player => UNCHANGED sound]_<<player, sound>>

(* The player has begun a period and counts nothing: tone() was called     *)
(* without a duration, or with one shorter than a period, or the player    *)
(* fetched between two stores of tone() or of noTone().                    *)
PlaysForEver == player.at = "period" /\ tone_cycles_left = 0
=============================================================================
