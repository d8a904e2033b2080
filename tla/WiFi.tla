-------------------------------- MODULE WiFi --------------------------------
(***************************************************************************)
(* libraries/WiFi: the station.  begin() asks the manager of the SDK to    *)
(* connect and returns; what becomes of it arrives as events, which        *)
(* another task hands to the library, and status() asks the manager.       *)
(* External, from its use: once started, the manager connects to the       *)
(* access point asked for last or, by itself, back to the one it had; it   *)
(* posts the SSID it connects to, and what happens to the connection.      *)
(***************************************************************************)
EXTENDS Sketch, Sequences, Naturals

CONSTANTS
    SSIDs, None,
    MaxEvents  \* bound: events on their way

ASSUME WiFiAssumption == None \notin SSIDs /\ MaxEvents \in Nat

VARIABLES
    WiFi_started, WiFi_status, s_wifi_started, s_connected_ssid,
    started,  \* how often the manager was started
    sta,      \* the manager's state and its access point
    request,  \* what it is asked to connect to
    stored,   \* the access point it was connected to last
    events,   \* posted, and not yet handed to wifi_event_cb()
    overtaken \* history: the station was told of another access point while
              \* begin() was between asking for its own and storing the SSID

flags == <<WiFi_started, WiFi_status, s_wifi_started, s_connected_ssid>>
sdk == <<started, sta, request, stored>>
wifiVars == <<flags, sdk, events, overtaken>>

WiFiInit ==
    /\ WiFi_started = FALSE /\ WiFi_status = "DISCONNECTED"
    /\ s_wifi_started = FALSE /\ s_connected_ssid = None
    /\ started = 0
    /\ sta = [state |-> "DISCONNECT", ap |-> None]
    /\ request = None /\ stored = None
    /\ events = << >>
    /\ overtaken = FALSE

Event(code) == [code |-> code, ssid |-> None]

Post(codes) ==
    /\ Len(events) + Len(codes) <= MaxEvents
    /\ events' = events \o codes

-----------------------------------------------------------------------------
(* begin(): the first one starts the firmware and posts INIT_DONE; then    *)
(* each asks for its access point and takes its SSID for the connected one.*)
BeginStarts ==
    /\ InLoop
    /\ WiFi_status' = "IDLE" /\ WiFi_started' = TRUE
    /\ s_wifi_started' = TRUE
    /\ IF s_wifi_started THEN UNCHANGED events ELSE Post(<<Event("INIT_DONE")>>)
    /\ Goto("begin.connect")
    /\ UNCHANGED <<s_connected_ssid, sdk, overtaken>>

BeginConnects(ssid) ==
    /\ At("begin.connect")
    /\ request' = ssid
    /\ pc' = [at |-> "begin.ssid", ssid |-> ssid]
    /\ UNCHANGED <<flags, started, sta, stored, events, overtaken>>

BeginNames ==
    /\ At("begin.ssid")
    /\ s_connected_ssid' = pc.ssid
    /\ Return
    /\ UNCHANGED <<WiFi_started, WiFi_status, s_wifi_started, sdk, events, overtaken>>

(* disconnect() *)
WiFiDisconnect ==
    /\ InLoop /\ WiFi_started
    /\ sta' = [state |-> "DISCONNECT", ap |-> None]
    /\ request' = None
    /\ IF sta.ap = None THEN UNCHANGED events ELSE Post(<<Event("DISCONNECT")>>)
    /\ WiFi_status' = "DISCONNECTED"
    /\ UNCHANGED <<pc, WiFi_started, s_wifi_started, s_connected_ssid, started, stored, overtaken>>

(* status(), by sdk_state_to_wl() *)
StatusOf(state) ==
    CASE state = "IP_GOT" -> "CONNECTED"
      [] state \in {"CONNECTING", "IP_GETTING"} -> "IDLE"
      [] state = "PSK_ERROR" -> "CONNECT_FAILED"
      [] state = "NO_AP_FOUND" -> "NO_SSID_AVAIL"
      [] OTHER -> "DISCONNECTED"

Status ==
    /\ InLoop /\ WiFi_started
    /\ WiFi_status' = StatusOf(sta.state)
    /\ UNCHANGED <<pc, WiFi_started, s_wifi_started, s_connected_ssid, sdk, events, overtaken>>

-----------------------------------------------------------------------------
(* wifi_event_cb() and onEvent(). *)
AfterEvent(code) ==
    CASE code = "CONNECTED" -> "IDLE"
      [] code = "DISCONNECT" -> "DISCONNECTED"
      [] code = "GOT_IP" -> "CONNECTED"
      [] OTHER -> WiFi_status

WiFiEvent_KeepsSSID ==
    /\ events # << >>
    /\ events' = Tail(events)
    /\ started' = IF Head(events).code = "INIT_DONE" THEN started + 1 ELSE started
    /\ WiFi_status' = AfterEvent(Head(events).code)
    /\ UNCHANGED <<pc, WiFi_started, s_wifi_started, s_connected_ssid, sta, request,
                   stored, overtaken>>

WiFiEvent ==
    LET e == Head(events) IN
    /\ events # << >>
    /\ events' = Tail(events)
    /\ started' = IF e.code = "INIT_DONE" THEN started + 1 ELSE started
    /\ IF e.code = "PROV_SSID"
       THEN /\ s_connected_ssid' = e.ssid
            /\ overtaken' = (At("begin.ssid") /\ pc.ssid # e.ssid)
       ELSE UNCHANGED <<s_connected_ssid, overtaken>>
    /\ WiFi_status' = AfterEvent(e.code)
    /\ WiFi_started' = (WiFi_started \/ e.code = "CONNECTED")
    /\ UNCHANGED <<pc, s_wifi_started, sta, request, stored>>

-----------------------------------------------------------------------------
(* External: the manager.  A request that comes before it was started may  *)
(* be lost; autoconnect takes the access point it had.                     *)
Manager(s) ==
    /\ sta' = s
    /\ UNCHANGED <<pc, flags, started, overtaken>>

TakesRequest ==
    /\ started > 0 /\ request # None
    /\ Manager([state |-> "CONNECTING", ap |-> request])
    /\ request' = None
    /\ UNCHANGED <<stored, events>>

LosesRequest ==
    /\ started = 0 /\ request # None
    /\ request' = None
    /\ Manager(sta)
    /\ UNCHANGED <<stored, events>>

Autoconnects ==
    /\ started > 0 /\ request = None
    /\ stored # None /\ sta.state \notin {"CONNECTING", "IP_GETTING", "IP_GOT"}
    /\ Manager([state |-> "CONNECTING", ap |-> stored])
    /\ UNCHANGED <<request, stored, events>>

Associates ==
    /\ sta.state = "CONNECTING"
    /\ Manager([sta EXCEPT !.state = "IP_GETTING"])
    /\ stored' = sta.ap
    /\ Post(<<[code |-> "PROV_SSID", ssid |-> sta.ap], Event("CONNECTED")>>)
    /\ UNCHANGED request

GetsAddress ==
    /\ sta.state = "IP_GETTING"
    /\ Manager([sta EXCEPT !.state = "IP_GOT"])
    /\ Post(<<Event("GOT_IP")>>)
    /\ UNCHANGED <<request, stored>>

FailsOrDrops(state) ==
    /\ IF sta.state = "CONNECTING"
       THEN state \in {"PSK_ERROR", "NO_AP_FOUND"}
       ELSE sta.state \in {"IP_GETTING", "IP_GOT"} /\ state = "DISCONNECT"
    /\ Manager([state |-> state, ap |-> None])
    /\ Post(<<Event("DISCONNECT")>>)
    /\ UNCHANGED <<request, stored>>

WiFiStep ==
    \/ BeginStarts \/ BeginNames \/ WiFiDisconnect \/ Status \/ WiFiEvent
    \/ \E ssid \in SSIDs : BeginConnects(ssid)
    \/ TakesRequest \/ LosesRequest \/ Autoconnects \/ Associates \/ GetsAddress
    \/ \E state \in {"PSK_ERROR", "NO_AP_FOUND", "DISCONNECT"} : FailsOrDrops(state)

-----------------------------------------------------------------------------
(* When no event is on its way and no request is open, a station that has  *)
(* an address is connected to the access point that SSID() names, and the  *)
(* library has been told so: although begin() stores the SSID when the     *)
(* manager may have connected already, whatever came late from an earlier  *)
(* access point, and also when the manager went back to one by itself.     *)
(* (Until then status() may say CONNECTED of the access point before       *)
(* begin().  Overtaken is a begin() between whose last two steps the       *)
(* manager connected to another access point.)  And the manager is started *)
(* once, also when begin() is called again before the first one's event    *)
(* has arrived.                                                            *)
SSIDNamesTheNetwork ==
    /\ (InLoop /\ events = << >> /\ request = None /\ sta.state = "IP_GOT") =>
         /\ s_connected_ssid = sta.ap \/ overtaken
         /\ WiFi_status = "CONNECTED"
    /\ started <= 1
=============================================================================
