-------------------------- MODULE IntegrationClients --------------------------
(***************************************************************************)
(* The three clients the integrations manager starts and stops: the MQTT   *)
(* client of a Bambu printer (src/src/integrations/bambu), the WebSocket   *)
(* client of Moonraker (src/src/integrations/moonraker) and the MQTT       *)
(* client of Home Assistant (src/src/integrations/home_assistant).         *)
(*                                                                         *)
(* A client is a record and its methods are operators from record to      *)
(* record; the module Integrations holds the records and calls them in the *)
(* order the manager does.  "target" is what the client remembers of the   *)
(* printer's chamber, "heat" is the last chamber target it handed to the   *)
(* product by callback, which heats on it until it hears otherwise.        *)
(* Reconnection pauses are left out: an attempt may come at any pass.      *)
(***************************************************************************)
EXTENDS Naturals

CONSTANTS
    BambuHosts, MoonHosts, HaHosts,   \* addresses the portal may send
    NoHost,                           \* the empty address
    Temps                             \* chamber targets of a printer; 0 is off

ASSUME ClientsAssumption ==
    /\ NoHost \notin BambuHosts \cup MoonHosts \cup HaHosts
    /\ Temps \subseteq Nat \ {0}

ClientStates == {"disabled", "idle", "connecting", "connected"}
Targets == Temps \cup {0}
Sections(hosts) == [on : BOOLEAN, at : hosts \cup {NoHost}]
Configured(section) == section.at # NoHost

(***************************************************************************)
(* Bambu.  "link" is the TCP session of PubSubClient: configure and        *)
(* setMode close it without touching the state, loop() notices.            *)
(***************************************************************************)
BambuClients ==
    [on : BOOLEAN, at : BambuHosts \cup {NoHost}, valid : BOOLEAN,
     state : ClientStates, reader : BOOLEAN, link : BOOLEAN,
     target : Targets, tray : BOOLEAN, heat : Targets]

NewBambu ==
    [on |-> FALSE, at |-> NoHost, valid |-> FALSE, state |-> "disabled",
     reader |-> FALSE, link |-> FALSE, target |-> 0, tray |-> FALSE, heat |-> 0]

\* Leaving "connected" forgets the printer and, when there was something to
\* forget, tells the product that the chamber target is 0.
BambuSetState(b, s) ==
    IF b.state # "connected" \/ s = "connected"
    THEN [b EXCEPT !.state = s]
    ELSE [b EXCEPT !.state = s, !.target = 0, !.tray = FALSE,
                   !.heat = IF b.target # 0 \/ b.tray THEN 0 ELSE @]

BambuSetMode(b, reader) ==
    IF b.reader = reader THEN b ELSE [b EXCEPT !.reader = reader, !.link = FALSE]

BambuConfigure(b, c) ==
    IF b.valid /\ b.on = c.on /\ b.at = c.at THEN b
    ELSE BambuSetState([b EXCEPT !.link = FALSE, !.on = c.on, !.at = c.at,
                                 !.valid = Configured(c)],
                       IF Configured(c) THEN "connecting" ELSE "idle")

BambuShutdown(b) ==
    BambuSetState([b EXCEPT !.link = FALSE, !.valid = FALSE], "disabled")

BambuConnected(b) ==
    [BambuSetState(BambuSetState(b, "connecting"), "connected") EXCEPT !.link = TRUE]

\* A report is applied key by key; the product is called when anything in it
\* is new.  Only a reader subscribes to reports.
BambuReport(b, t, tray) ==
    [b EXCEPT !.target = t, !.tray = tray,
              !.heat = IF t # b.target \/ tray # b.tray THEN t ELSE @]

\* What one call of loop() may make of the client.  While the state is still
\* "connected" no pause is running, so the loss is dealt with at once.
BambuPass(b) ==
    IF b.state \in {"disabled", "idle"} THEN {b}
    ELSE IF b.link
    THEN {b} \cup {BambuReport(b, t, tray) : t \in IF b.reader THEN Targets ELSE {},
                                             tray \in BOOLEAN}
    ELSE {BambuSetState(b, "connecting"), BambuConnected(b)}

(***************************************************************************)
(* Moonraker.  "ws" is what the WebSocket library believes, "tcp" whether  *)
(* the connection still stands; the library reports the loss from its      *)
(* loop() or from disconnect(), each time by the DISCONNECTED event.       *)
(* "vc" says that the macro VIRTUAL_CHAMBER has been seen.                 *)
(***************************************************************************)
MoonClients ==
    [on : BOOLEAN, at : MoonHosts \cup {NoHost}, valid : BOOLEAN,
     state : ClientStates, ws : BOOLEAN, tcp : BOOLEAN, vc : BOOLEAN,
     target : Targets, heat : Targets, downReported : BOOLEAN]

NewMoon ==
    [on |-> FALSE, at |-> NoHost, valid |-> FALSE, state |-> "disabled",
     ws |-> FALSE, tcp |-> FALSE, vc |-> FALSE, target |-> 0, heat |-> 0,
     downReported |-> FALSE]

\* faulty variant: the status is cleared and the product is not called
MoonForget(m) == [m EXCEPT !.vc = FALSE, !.target = 0]

\* resetChamberFailSafe
MoonFailSafe(m) ==
    [m EXCEPT !.vc = FALSE, !.target = 0,
              !.heat = IF m.vc \/ m.target # 0 THEN 0 ELSE @]

MoonDisconnected(m) ==
    [MoonFailSafe(m) EXCEPT !.ws = FALSE, !.tcp = FALSE, !.state = "connecting"]

WsDisconnect(m) == IF m.ws THEN MoonDisconnected(m) ELSE m

\* The status is cleared with no call of the product: disconnecting has
\* already made it when there was something to withdraw.
MoonConfigure(m, c) ==
    IF m.valid /\ m.on = c.on /\ m.at = c.at THEN m
    ELSE [WsDisconnect(m) EXCEPT !.on = c.on, !.at = c.at, !.valid = Configured(c),
                                 !.vc = FALSE, !.target = 0,
                                 !.state = IF Configured(c) THEN "connecting" ELSE "idle"]

MoonShutdown(m) ==
    [MoonFailSafe(WsDisconnect(m)) EXCEPT !.valid = FALSE, !.state = "disabled"]

MoonConnected(m) == [m EXCEPT !.ws = TRUE, !.tcp = TRUE, !.state = "connected"]

\* applyStatusUpdate: the product hears of a change and of nothing else
MoonStatus(m, t) ==
    [m EXCEPT !.vc = TRUE, !.target = t,
              !.heat = IF ~m.vc \/ t # m.target THEN t ELSE @]

\* faulty variant: the loss of Klippy is reported and the chamber kept
MoonKlippyDownReports(m) == [m EXCEPT !.downReported = TRUE]

\* notify_klippy_disconnected and notify_klippy_shutdown: one critical event
\* to an incident, closed by notify_klippy_ready
MoonKlippyDown(m) == [MoonFailSafe(m) EXCEPT !.downReported = TRUE]
MoonKlippyReady(m) == [m EXCEPT !.downReported = FALSE]

(***************************************************************************)
(* Home Assistant.  "link" is the broker the MQTT session stands with;     *)
(* neither configure nor shutdown closes it.                               *)
(***************************************************************************)
HaClients ==
    [on : BOOLEAN, at : HaHosts \cup {NoHost}, valid : BOOLEAN,
     state : ClientStates, link : HaHosts \cup {NoHost}]

NewHa ==
    [on |-> FALSE, at |-> NoHost, valid |-> FALSE, state |-> "disabled",
     link |-> NoHost]

HaConfigure(h, c) ==
    IF h.valid /\ h.on = c.on /\ h.at = c.at THEN h
    ELSE [h EXCEPT !.on = c.on, !.at = c.at, !.valid = Configured(c),
                   !.state = IF c.on /\ Configured(c) THEN "connecting" ELSE "idle"]

HaShutdown(h) == [h EXCEPT !.valid = FALSE, !.state = "disabled"]

HaConnected(h) == [h EXCEPT !.state = "connected", !.link = h.at]

HaPass(h) ==
    IF h.state \in {"disabled", "idle"} \/ h.link # NoHost THEN {h}
    ELSE {[h EXCEPT !.state = "connecting"], HaConnected(h)}
===============================================================================
