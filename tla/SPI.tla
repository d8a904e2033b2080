--------------------------------- MODULE SPI ---------------------------------
(***************************************************************************)
(* libraries/SPI: the master's settings, its controller, and the chip      *)
(* select, a GPIO that the library drives behind the cache of digitalWrite *)
(* (see Pins).                                                             *)
(***************************************************************************)
EXTENDS Pins

CONSTANTS
    SpiBus,    \* the pins SCK, MOSI and MISO
    Selects,   \* the pins a slave's chip select is wired to
    Clocks, Modes  \* bound: settings the sketch uses

ASSUME SpiAssumption ==
    /\ SpiBus \subseteq Pins /\ Selects \subseteq Pins
    /\ Selects # {} /\ Clocks # {} /\ Modes # {}

VARIABLES
    _ss, _freq, _dataMode, _started, _inTransaction,
    controller,   \* what the hardware is set to, and whether it is enabled
    low,          \* chip selects that are low
    cut,          \* history: begin() or end() fell inside the transaction
    stranded      \* history: slaves that begin() with another one left selected

settings == <<_ss, _freq, _dataMode>>
history == <<cut, stranded>>
spiVars == <<settings, _started, _inTransaction, controller, low, history>>

SpiInit ==
    /\ _ss = CHOOSE s \in Selects : TRUE
    /\ _freq = CHOOSE f \in Clocks : TRUE
    /\ _dataMode = CHOOSE m \in Modes : TRUE
    /\ _started = FALSE /\ _inTransaction = FALSE
    /\ controller = [enabled |-> FALSE, freq |-> 0, mode |-> -1]
    /\ low = {} /\ cut = FALSE /\ stranded = {}

-----------------------------------------------------------------------------
(* _reinit() muxes the bus, resets the controller and enables it. *)
Enabled(f, m) == [enabled |-> TRUE, freq |-> f, mode |-> m]
Muxed(s) ==
    [p \in Pins |-> IF p = s THEN "out" ELSE IF p \in SpiBus THEN "spi" ELSE fun[p]]

(* _cs(): makes the chip select an output, past pin_modes, and drives it. *)
Selected(s) == low \cup {s}
Deselected(s) == low \ {s}

(* begin() with the pin of a slave; the bus pins stay the default ones. *)
SpiBegin(s) ==
    /\ _ss' = s
    /\ fun' = Muxed(s)
    /\ controller' = Enabled(_freq, _dataMode)
    /\ low' = Deselected(s)
    /\ _started' = TRUE
    /\ cut' = (cut \/ _inTransaction)
    /\ stranded' = low \ {s}
    /\ UNCHANGED <<_freq, _dataMode, _inTransaction>>

(* end(): _inTransaction stays as it is. *)
SpiEnd ==
    /\ _started
    /\ fun' = [fun EXCEPT ![_ss] = "out"]
    /\ low' = Deselected(_ss)
    /\ controller' = [controller EXCEPT !.enabled = FALSE]
    /\ _started' = FALSE
    /\ cut' = (cut \/ _inTransaction)
    /\ UNCHANGED <<settings, _inTransaction, stranded>>

(* beginTransaction(): the controller is set up again when the clock or    *)
(* the mode differs, then the slave is selected.                           *)
Differs_InClock(f, m) == f # _freq
Differs(f, m) == f # _freq \/ m # _dataMode

BeginTransaction(f, m) ==
    /\ IF _started /\ Differs(f, m)
       THEN fun' = Muxed(_ss) /\ controller' = Enabled(f, m)
       ELSE fun' = [fun EXCEPT ![_ss] = "out"] /\ UNCHANGED controller
    /\ _freq' = f /\ _dataMode' = m
    /\ _inTransaction' = TRUE
    /\ low' = Selected(_ss)
    /\ cut' = FALSE
    /\ UNCHANGED <<_ss, _started, stranded>>

EndTransaction_KeepsFlag ==
    /\ fun' = [fun EXCEPT ![_ss] = "out"]
    /\ low' = Deselected(_ss)
    /\ cut' = FALSE
    /\ UNCHANGED <<settings, _started, _inTransaction, controller, stranded>>

EndTransaction ==
    /\ _inTransaction' = FALSE
    /\ fun' = [fun EXCEPT ![_ss] = "out"]
    /\ low' = Deselected(_ss)
    /\ cut' = FALSE
    /\ UNCHANGED <<settings, _started, controller, stranded>>

(* transfer(), transfer16() and write(): the bytes go out while the chip   *)
(* select is driven low, by the transaction or around the call.            *)
DuringTransfer == IF _inTransaction THEN low ELSE Selected(_ss)

Transfer ==
    /\ fun' = IF _inTransaction THEN fun ELSE [fun EXCEPT ![_ss] = "out"]
    /\ low' = IF _inTransaction THEN low ELSE Deselected(_ss)
    /\ UNCHANGED <<settings, _started, _inTransaction, controller, history>>

(* setDataMode() and setClockDivider(); the latter always sets up again. *)
SetDataMode(m) ==
    /\ _dataMode' = m
    /\ IF _started /\ m # _dataMode
       THEN fun' = [p \in Pins |-> IF p \in SpiBus THEN "spi" ELSE fun[p]]
            /\ controller' = Enabled(_freq, m)
       ELSE UNCHANGED <<fun, controller>>
    /\ UNCHANGED <<_ss, _freq, _started, _inTransaction, low, history>>

SetClockDivider(f) ==
    /\ _freq' = f
    /\ IF _started
       THEN fun' = [p \in Pins |-> IF p \in SpiBus THEN "spi" ELSE fun[p]]
            /\ controller' = Enabled(f, _dataMode)
       ELSE UNCHANGED <<fun, controller>>
    /\ UNCHANGED <<_ss, _dataMode, _started, _inTransaction, low, history>>

SpiStep ==
    /\ \/ \E s \in Selects : SpiBegin(s)
       \/ SpiEnd
       \/ \E f \in Clocks, m \in Modes : BeginTransaction(f, m)
       \/ EndTransaction
       \/ Transfer
       \/ \E m \in Modes : SetDataMode(m)
       \/ \E f \in Clocks : SetClockDivider(f)
    /\ UNCHANGED <<pin_modes, pwmVars, adcVars>>

-----------------------------------------------------------------------------
(* The settings a sketch makes are those the controller works with, in     *)
(* whatever order begin(), transactions and the setters come: the library  *)
(* skips setting it up again only when it is set up like that already.     *)
ControllerFollowsSettings ==
    /\ controller.enabled = _started
    /\ _started => controller = Enabled(_freq, _dataMode)

(* Bytes go to the slave of begin() and to no other, and between two       *)
(* transfers it is selected exactly while the sketch is in a transaction.  *)
(* (Not so in a transaction that begin() or end() cuts: end() leaves the   *)
(* flag set and the slave deselected, and begin() with another chip select *)
(* leaves the first slave selected, until it is its turn again.)           *)
OneSlaveListens ==
    \/ cut
    \/ /\ low \ stranded = (IF _inTransaction THEN {_ss} ELSE {})
       /\ DuringTransfer \ stranded = {_ss}
=============================================================================
