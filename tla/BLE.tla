--------------------------------- MODULE BLE ---------------------------------
(***************************************************************************)
(* libraries/BLE: the peripheral's connection state, kept by callbacks of  *)
(* the stack's task, which come between any two steps of a call.           *)
(* External, from its use: bt_enable() reports later, by the ready         *)
(* callback; a connection ends the advertising; advertising fails to start *)
(* when it is on already, and may fail otherwise.                          *)
(***************************************************************************)
EXTENDS Sketch

VARIABLES
    BLE_started, BLE_connected,         \* BLEClass
    ble_started, s_adv_started, s_conn, \* ble_native.c; s_conn # NULL
    enabling,                           \* the ready callback is to come
    adv, link,                          \* the radio: on the air, connected
    left,                               \* history: end() left the central
                                        \* connected
    swapped                             \* history: a callback advertised while
                                        \* end() stopped it, or after end()

bleFlags == <<BLE_started, BLE_connected, ble_started>>
bleVars == <<bleFlags, s_adv_started, s_conn, enabling, adv, link, left, swapped>>

BleInit ==
    /\ BLE_started = FALSE /\ BLE_connected = FALSE /\ ble_started = FALSE
    /\ s_adv_started = FALSE /\ s_conn = FALSE
    /\ enabling = FALSE /\ adv = FALSE /\ link = FALSE
    /\ left = FALSE /\ swapped = FALSE

InEnd == pc.at \in {"end.adv", "end.conn", "end.class"}

-----------------------------------------------------------------------------
(* ble_ready_cb(), for a stack that came up. *)
Ready(ok) ==
    /\ enabling
    /\ ok => ~adv
    /\ enabling' = FALSE
    /\ s_adv_started' = ok
    /\ adv' = (adv \/ ok)
    /\ swapped' = (swapped \/ (ok /\ (InEnd \/ ~ble_started)))
    /\ UNCHANGED <<pc, bleFlags, s_conn, link, left>>

(* ... and for one that did not. *)
ReadyFails ==
    /\ enabling
    /\ enabling' = FALSE
    /\ UNCHANGED <<pc, bleFlags, s_adv_started, s_conn, adv, link, left, swapped>>

(* _connected() *)
Connected ==
    /\ adv /\ ~link
    /\ link' = TRUE /\ adv' = FALSE
    /\ s_conn' = TRUE /\ BLE_connected' = TRUE
    /\ left' = FALSE
    /\ UNCHANGED <<pc, BLE_started, ble_started, s_adv_started, enabling, swapped>>

(* _disconnected(): advertises again. *)
Disconnected ==
    /\ link
    /\ link' = FALSE
    /\ s_conn' = FALSE /\ BLE_connected' = FALSE
    /\ adv' = (adv \/ s_adv_started)
    /\ left' = FALSE
    /\ swapped' = (swapped \/ (At("end.adv") /\ s_adv_started))
    /\ UNCHANGED <<pc, BLE_started, ble_started, s_adv_started, enabling>>

-----------------------------------------------------------------------------
(* begin(); when bt_enable() fails nothing is changed. *)
BleBegin ==
    /\ InLoop /\ ~BLE_started
    /\ enabling' = TRUE
    /\ BLE_started' = TRUE /\ ble_started' = TRUE
    /\ UNCHANGED <<pc, BLE_connected, s_adv_started, s_conn, adv, link, left, swapped>>

(* end() *)
BleEnd ==
    /\ InLoop /\ BLE_started
    /\ adv' = FALSE
    /\ Goto("end.adv")
    /\ UNCHANGED <<bleFlags, s_adv_started, s_conn, enabling, link, left, swapped>>

EndAdv_StaysStarted ==
    /\ At("end.adv")
    /\ Goto("end.conn")
    /\ UNCHANGED bleVars

EndAdv ==
    /\ At("end.adv")
    /\ s_adv_started' = FALSE
    /\ Goto("end.conn")
    /\ UNCHANGED <<bleFlags, s_conn, enabling, adv, link, left, swapped>>

EndConn ==
    /\ At("end.conn")
    /\ s_conn' = FALSE
    /\ ble_started' = FALSE
    /\ left' = link
    /\ Goto("end.class")
    /\ UNCHANGED <<BLE_started, BLE_connected, s_adv_started, enabling, adv, link, swapped>>

EndClass_KeepsConnected ==
    /\ At("end.class")
    /\ BLE_started' = FALSE
    /\ Return
    /\ UNCHANGED <<BLE_connected, ble_started, s_adv_started, s_conn, enabling, adv, link, left, swapped>>

EndClass ==
    /\ At("end.class")
    /\ BLE_started' = FALSE /\ BLE_connected' = FALSE
    /\ Return
    /\ UNCHANGED <<ble_started, s_adv_started, s_conn, enabling, adv, link, left, swapped>>

BleStep ==
    \/ \E ok \in BOOLEAN : Ready(ok)
    \/ ReadyFails \/ Connected \/ Disconnected
    \/ BleBegin \/ BleEnd \/ EndAdv \/ EndConn \/ EndClass

-----------------------------------------------------------------------------
(* While the peripheral is open and was announced, a central can find it   *)
(* whenever none is connected, the next one after each disconnection too;  *)
(* once end() has returned it is not on the air, not even when a central   *)
(* that end() left connected goes.  (Not so when a disconnection falls     *)
(* between the two steps of end() that stop the advertising, or the stack  *)
(* is ready only after end(): then it is on the air and closed.)           *)
FindableWhileOpen ==
    (~InEnd /\ ~swapped) =>
        /\ s_adv_started => adv \/ link
        /\ ~ble_started => ~adv

(* connected() says what BLE.h says, "true while a central is connected",  *)
(* and send() has a connection exactly then, except for a central that     *)
(* end() has left connected, which is unknown to a begin() that follows.   *)
ConnectedIsTheLink ==
    (~InEnd /\ ~swapped) =>
        /\ BLE_connected = (link /\ ~left)
        /\ s_conn = (link /\ ~left)
=============================================================================
