----------------------------- MODULE Scheduler -----------------------------
(***************************************************************************)
(* The one CPU and its three tasks: the sketch (loop task, priority 15),   *)
(* the receiver of SoftwareSerial (18) and the player of tone() (20).      *)
(* FreeRTOS runs the highest ready priority; a task gives the CPU to lower *)
(* ones only while it is blocked in vTaskDelay(), and taskYIELD() gives it *)
(* to none of them.                                                        *)
(***************************************************************************)
EXTENDS Sketch

VARIABLES
    rx,      \* where the receiver is; see SoftwareSerial
    player   \* where the player is; see Tone

Blocked(task) == task.at \in {"absent", "idle", "quiet"}

PlayerRuns == ~Blocked(player)
RxRuns == ~Blocked(rx) /\ Blocked(player)
SketchRuns_SharesWithPlayer == Blocked(rx)
SketchRuns == Blocked(rx) /\ Blocked(player)

Calling(step) == SketchRuns /\ At(step)
=============================================================================
