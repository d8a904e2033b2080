-------------------------------- MODULE Timer --------------------------------
(***************************************************************************)
(* cores/arduino/wiring_timer.c: the one hardware timer, its flags, and    *)
(* the callback, which runs in the interrupt, between any two steps of a   *)
(* call, and may call the library itself.                                  *)
(***************************************************************************)
EXTENDS Sketch, Naturals

CONSTANTS Periods  \* bound: periods in microseconds

ASSUME PeriodsAssumption == Periods \subseteq Nat /\ Periods # {}

VARIABLES
    s_inited, s_started,
    timer,     \* the hardware: its period, and whether it counts
    wanted,    \* history: the period asked for last
    crossed    \* history: an interrupt stopped the timer, or set it up again,
               \* between the start of the hardware and s_started = 1

timerVars == <<s_inited, s_started, timer, wanted, crossed>>

Unset == [period |-> 0, counts |-> FALSE]

TimerInit ==
    /\ s_inited = FALSE /\ s_started = FALSE
    /\ timer = Unset /\ wanted = 0 /\ crossed = FALSE

-----------------------------------------------------------------------------
(* timer_begin() and timer_set_period(): stop and finalize what was set    *)
(* up, forget it, set up anew and start.                                   *)
TimerTeardown_KeepsStarted(period, go) ==
    /\ timer' = Unset
    /\ s_inited' = FALSE
    /\ wanted' = period
    /\ pc' = [at |-> "timer.init", go |-> go]
    /\ UNCHANGED <<s_started, crossed>>

TimerTeardown(period, go) ==
    /\ timer' = Unset
    /\ s_inited' = FALSE /\ s_started' = FALSE
    /\ wanted' = period
    /\ pc' = [at |-> "timer.init", go |-> go]
    /\ UNCHANGED crossed

timer_begin(period) ==
    /\ InLoop
    /\ pc' = [at |-> "timer.replace", period |-> period, go |-> TRUE]
    /\ UNCHANGED timerVars

(* timer_set_period() restarts a timer that it found started. *)
timer_set_period(period) ==
    /\ InLoop /\ s_inited
    /\ pc' = [at |-> "timer.replace", period |-> period, go |-> s_started]
    /\ UNCHANGED timerVars

TimerReplace ==
    /\ At("timer.replace")
    /\ TimerTeardown(pc.period, pc.go)

TimerSetUp(ok) ==
    /\ At("timer.init")
    /\ IF ok
       THEN /\ timer' = [timer EXCEPT !.period = wanted]
            /\ s_inited' = TRUE
            /\ IF pc.go THEN Goto("timer.go") ELSE Return
       ELSE Return /\ UNCHANGED <<timer, s_inited>>
    /\ UNCHANGED <<s_started, wanted, crossed>>

TimerGo(ok) ==
    /\ At("timer.go")
    /\ IF ok
       THEN /\ timer' = [timer EXCEPT !.counts = TRUE]
            /\ crossed' = FALSE
            /\ Goto("timer.started")
       ELSE Return /\ UNCHANGED <<timer, crossed>>
    /\ UNCHANGED <<s_inited, s_started, wanted>>

TimerStarted ==
    /\ At("timer.started")
    /\ s_started' = TRUE
    /\ Return
    /\ UNCHANGED <<s_inited, timer, wanted, crossed>>

timer_start ==
    /\ InLoop /\ s_inited /\ ~s_started
    /\ Goto("timer.go")
    /\ UNCHANGED timerVars

timer_stop ==
    /\ InLoop /\ s_started
    /\ timer' = [timer EXCEPT !.counts = FALSE]
    /\ Goto("timer.stopped")
    /\ UNCHANGED <<s_inited, s_started, wanted, crossed>>

TimerStopped ==
    /\ At("timer.stopped")
    /\ s_started' = FALSE
    /\ Return
    /\ UNCHANGED <<s_inited, timer, wanted, crossed>>

-----------------------------------------------------------------------------
(* What the callback may do: it runs to its end before the sketch goes on. *)
CallbackStops ==
    /\ timer.counts /\ s_started
    /\ timer' = [timer EXCEPT !.counts = FALSE]
    /\ s_started' = FALSE
    /\ crossed' = (crossed \/ At("timer.started"))
    /\ UNCHANGED <<pc, s_inited, wanted>>

CallbackStarts(ok) ==
    /\ timer.counts /\ s_inited /\ ~s_started
    /\ s_started' = ok
    /\ UNCHANGED <<pc, s_inited, timer, wanted, crossed>>

(* timer_set_period() or timer_begin(), which may fail half-way. *)
CallbackReplaces(period, initialised, started) ==
    /\ timer.counts /\ s_inited
    /\ started => initialised
    /\ wanted' = period
    /\ s_inited' = initialised
    /\ s_started' = started
    /\ timer' = [period |-> IF initialised THEN period ELSE 0, counts |-> started]
    /\ crossed' = (crossed \/ At("timer.started"))
    /\ UNCHANGED pc

TimerStep ==
    \/ \E period \in Periods : timer_begin(period) \/ timer_set_period(period)
    \/ TimerReplace
    \/ \E ok \in BOOLEAN : TimerSetUp(ok) \/ TimerGo(ok) \/ CallbackStarts(ok)
    \/ TimerStarted \/ timer_start \/ timer_stop \/ TimerStopped
    \/ CallbackStops
    \/ \E period \in Periods, initialised, started \in BOOLEAN :
         CallbackReplaces(period, initialised, started)

-----------------------------------------------------------------------------
(* Between two calls the flags tell what the hardware does, whichever call *)
(* failed half-way and wherever the callback stopped, started or changed   *)
(* the timer: so timer_start() and timer_stop(), which do nothing when the *)
(* flag says so, leave the timer in the state they are named for.  (Not so *)
(* when the callback sets the timer up before timer_begin() or            *)
(* timer_start() has set the flag: the timer stands still and they say     *)
(* that it is started.)                                                    *)
FlagsTellTheTimer ==
    (InLoop /\ ~crossed) =>
        /\ s_started = timer.counts
        /\ s_inited => timer.period = wanted
        /\ timer.counts => s_inited
=============================================================================
