----------------------------- MODULE Integrations -----------------------------
(***************************************************************************)
(* The integrations manager (src/src/integrations/common): which of the    *)
(* two printers is the active one, whether Home Assistant is on, what the  *)
(* clients are told of it, what is kept in flash and what the portal is    *)
(* shown in integrations/status.                                           *)
(*                                                                         *)
(* Handlers and loop() run in one thread, so each is one action.  Every    *)
(* handler stores what it changed before it returns; between handlers the  *)
(* flash holds exactly "selected" and "config", which therefore stand for  *)
(* both.  PowerCut loses power between two writes of a handler.            *)
(***************************************************************************)
EXTENDS IntegrationClients, Sequences, FiniteSets

CONSTANT MaxWire        \* Moonraker messages that may wait in the socket

Printers == {"bambu", "moonraker"}
Other(p) == IF p = "bambu" THEN "moonraker" ELSE "bambu"

VARIABLES
    running,        \* begin() has run since power came
    selected,       \* selection_.active, kept in flash
    config,         \* ha_, bambu_, moonraker_: [on, at], kept in flash
    bambu, moon, ha,    \* the clients
    vcSeen,         \* what of the virtual chamber loop() has compared
    mqttUp,         \* the session with the cloud
    pending,        \* statusPublishPending_
    behind,         \* what Tracked says has changed since the portal was told of it
    refused,        \* the client took no message the last time it was given one
    klippy,         \* Klipper's host process, behind Moonraker
    subscribed,     \* Moonraker holds our subscription
    wire            \* Moonraker's messages not read yet

stored == <<running, selected, config>>
portal == <<mqttUp, pending, behind, refused>>
printer == <<klippy, subscribed, wire>>
intVars == <<running, selected, config, bambu, moon, ha, vcSeen,
             mqttUp, pending, behind, refused, klippy, subscribed, wire>>

HostsOf == [ha |-> HaHosts, bambu |-> BambuHosts, moonraker |-> MoonHosts]
Kinds == DOMAIN HostsOf

-------------------------------------------------------------------------------
(* What integrations/status says.                                          *)

ComputeState(p, client) ==
    IF selected # p THEN "disabled"
    ELSE IF ~Configured(config[p]) THEN "config_missing" ELSE client.state

ComputeHaState ==
    IF ~config["ha"].on THEN "disabled"
    ELSE IF ~Configured(config["ha"]) THEN "config_missing" ELSE ha.state

VirtualChamber(m) == <<m.vc, m.target>>

\* The part of the message whose changes lead to a publication.  The filament
\* (bambu.tray), the last errors, the temperatures and the progress of a print are
\* in the message too and go along with the next one.
Tracked == [active |-> selected, sections |-> config,
            ha |-> ComputeHaState, bambu |-> ComputeState("bambu", bambu),
            moonraker |-> ComputeState("moonraker", moon),
            chamber |-> VirtualChamber(moon)]

\* publishStatus.  What becomes of the message is not looked at: a client that
\* refuses it (a payload too long for its buffer, no room in the outbox) leaves
\* the portal with the message before, and the flag is cleared all the same.
PublishStatus(news) ==
    /\ IF mqttUp
       THEN /\ pending' = FALSE /\ refused' \in BOOLEAN
            /\ behind' = (refused' /\ (behind \/ news))
       ELSE /\ pending' = TRUE /\ behind' = (behind \/ news) /\ UNCHANGED refused
    /\ UNCHANGED mqttUp

Moved == Tracked' # Tracked

-------------------------------------------------------------------------------
(* The manager.                                                            *)

\* applyIntegrations.  A connection it closes takes its messages along.
ApplyIntegrations(reader) ==
    LET b == BambuSetMode(bambu, reader)
    IN /\ bambu' = IF selected' = "bambu" THEN BambuConfigure(b, config'["bambu"])
                                          ELSE BambuShutdown(b)
       /\ moon' = IF selected' = "moonraker" THEN MoonConfigure(moon, config'["moonraker"])
                                             ELSE MoonShutdown(moon)
       /\ ha' = IF config'["ha"].on THEN HaConfigure(ha, config'["ha"])
                                    ELSE HaShutdown(ha)

HangUp ==
    /\ subscribed' = (subscribed /\ moon'.ws)
    /\ wire' = IF moon'.ws THEN wire ELSE <<>>
    /\ UNCHANGED klippy

\* faulty variant: a printer is switched on and the other stays on
SectionsWithBoth(kind, c) == [config EXCEPT ![kind] = c]

\* The sections once the command has been carried out: of the two printers the
\* one switched on switches the other off.
SectionsWith(kind, c) ==
    [config EXCEPT ![kind] = c,
                   ![Other(kind)].on = IF c.on THEN FALSE ELSE @]

SelectedWith(kind, c) ==
    IF c.on THEN kind ELSE IF selected = kind THEN "none" ELSE selected

\* faulty variant: an empty host is taken as it came
ParseHaAsIs(c) == c

\* parseHa puts the default host for a missing one
ParseHa(c) == IF c.at = NoHost THEN [c EXCEPT !.at = CHOOSE h \in HaHosts : TRUE] ELSE c

\* commands/link_integration for a printer.  A choice that is already made
\* ends in setActive before anything is applied.
LinkPrinter(kind, c) ==
    /\ config' = SectionsWith(kind, c)
    /\ selected' = SelectedWith(kind, c)
    /\ IF selected' = selected THEN UNCHANGED <<bambu, moon, ha>>
                               ELSE ApplyIntegrations(bambu.reader)
    /\ UNCHANGED <<running, vcSeen>>
    /\ HangUp /\ PublishStatus(Moved)

\* commands/link_integration for Home Assistant
LinkHa(c) ==
    /\ config' = [config EXCEPT !["ha"] = ParseHa(c)]
    /\ ha' = IF c.on THEN HaConfigure(ha, config'["ha"]) ELSE HaShutdown(ha)
    /\ UNCHANGED <<running, selected, bambu, moon, vcSeen, printer>>
    /\ PublishStatus(Moved)

\* commands/bambu_apply.  However it ends (a bad payload, no connection, sent),
\* the time and the result of it are new in the message.
BambuApply ==
    /\ selected = "bambu"
    /\ PublishStatus(TRUE)
    /\ UNCHANGED <<stored, bambu, moon, ha, vcSeen, printer>>

\* setDeviceType: the peer has said in HELLO that it is another type, which may
\* read the printer's reports or not.
SetDeviceType ==
    /\ UNCHANGED <<stored, vcSeen>>
    /\ \E reader \in BOOLEAN : ApplyIntegrations(reader)
    /\ HangUp /\ PublishStatus(Moved)

\* begin().  An older firmware kept Home Assistant in the choice and let the
\* sections and the choice disagree.
Begin ==
    LET haWas == selected = "ha"
        picked == IF selected \in Printers THEN selected
                  ELSE IF config["bambu"].on THEN "bambu"
                  ELSE IF config["moonraker"].on THEN "moonraker" ELSE "none"
    IN /\ ~running /\ running' = TRUE
       /\ selected' = picked
       /\ config' = [k \in Kinds |->
                       [config[k] EXCEPT !.on = IF k = "ha" THEN @ \/ haWas
                                                ELSE @ /\ k = picked]]
       /\ ApplyIntegrations(bambu.reader)
       /\ UNCHANGED <<vcSeen, printer>>
       /\ PublishStatus(Moved)

-------------------------------------------------------------------------------
(* loop(): the clients in turn, then what the comparison and the deferred  *)
(* message ask for.                                                        *)

Status(t) == [kind |-> "status", target |-> t]

BambuLoop == bambu' \in BambuPass(bambu)

\* The answer to a subscription holds the state of the chamber; with Klippy
\* down it is an error.
Subscribe(rest) ==
    /\ subscribed' = klippy
    /\ \E t \in Targets : wire' = IF klippy THEN Append(rest, Status(t)) ELSE rest

HandleJsonRpcMessage(msg, rest) ==
    IF msg.kind = "ready" THEN moon' = MoonKlippyReady(moon) /\ Subscribe(rest)
    ELSE /\ moon' = IF msg.kind = "down" THEN MoonKlippyDown(moon) ELSE MoonStatus(moon, msg.target)
         /\ wire' = rest /\ UNCHANGED subscribed

MoonLoop ==
    /\ IF moon.state \in {"disabled", "idle"}
       THEN UNCHANGED <<moon, subscribed, wire>>
       ELSE \/ /\ moon.ws /\ ~moon.tcp
               /\ moon' = MoonDisconnected(moon) /\ UNCHANGED <<subscribed, wire>>
            \/ /\ moon.ws /\ moon.tcp /\ wire = <<>>
               /\ UNCHANGED <<moon, subscribed, wire>>
            \/ /\ moon.ws /\ moon.tcp /\ wire # <<>>
               /\ HandleJsonRpcMessage(Head(wire), Tail(wire))
            \/ /\ ~moon.ws
               /\ UNCHANGED <<moon, subscribed, wire>>
            \/ /\ ~moon.ws
               /\ moon' = MoonConnected(moon) /\ Subscribe(<<>>)
    /\ UNCHANGED klippy

HaLoop == ha' \in HaPass(ha)

\* faulty variant: the chamber is not looked at after the clients have run
WatchStatesOnly ==
    <<bambu'.state, moon'.state, ha'.state>> # <<bambu.state, moon.state, ha.state>>

\* A change of a client's state calls publishStatus; the virtual chamber is
\* compared with what was seen last.
Watch ==
    \/ <<bambu'.state, moon'.state, ha'.state>> # <<bambu.state, moon.state, ha.state>>
    \/ vcSeen' # vcSeen

Loop ==
    /\ UNCHANGED stored
    /\ BambuLoop /\ MoonLoop /\ HaLoop
    /\ vcSeen' = VirtualChamber(moon')
    /\ IF Watch \/ (pending /\ mqttUp) THEN PublishStatus(Moved)
       ELSE behind' = (behind \/ Moved) /\ UNCHANGED <<mqttUp, pending, refused>>

-------------------------------------------------------------------------------
(* Around the manager: external.                                           *)

MqttChanges == mqttUp' = ~mqttUp /\ UNCHANGED <<stored, bambu, moon, ha, vcSeen, pending, behind, refused, printer>>

\* The network between us and a client's peer, or the peer, goes away.
BambuDrops ==
    /\ bambu.link /\ bambu' = [bambu EXCEPT !.link = FALSE]
    /\ UNCHANGED <<stored, moon, ha, vcSeen, portal, printer>>

MoonDrops ==
    /\ moon.tcp /\ moon' = [moon EXCEPT !.tcp = FALSE]
    /\ wire' = <<>> /\ subscribed' = FALSE
    /\ UNCHANGED <<stored, bambu, ha, vcSeen, portal, klippy>>

HaDrops ==
    /\ ha.link # NoHost /\ ha' = [ha EXCEPT !.link = NoHost]
    /\ UNCHANGED <<stored, bambu, moon, vcSeen, portal, printer>>

Notify(kind) == wire' = IF moon.tcp THEN Append(wire, [kind |-> kind, target |-> 0]) ELSE wire

KlippyDown ==
    /\ klippy /\ Len(wire) < MaxWire
    /\ klippy' = FALSE /\ subscribed' = FALSE /\ Notify("down")
    /\ UNCHANGED <<stored, bambu, moon, ha, vcSeen, portal>>

KlippyReady ==
    /\ ~klippy /\ Len(wire) < MaxWire
    /\ klippy' = TRUE /\ Notify("ready")
    /\ UNCHANGED <<stored, bambu, moon, ha, vcSeen, portal, subscribed>>

ChamberUpdate ==
    /\ subscribed /\ Len(wire) < MaxWire
    /\ \E t \in Targets : wire' = Append(wire, Status(t))
    /\ UNCHANGED <<stored, bambu, moon, ha, vcSeen, portal, klippy, subscribed>>

\* What flash may hold when power goes in the middle of a command: the
\* section's switch before its address, the section before the other printer's,
\* all of them before the choice.
Partial(kind, sent) ==
    LET c == IF kind = "ha" THEN ParseHa(sent) ELSE sent
    IN {config, [config EXCEPT ![kind].on = c.on], [config EXCEPT ![kind] = c]}
         \cup (IF kind \in Printers THEN {SectionsWith(kind, c)} ELSE {})

PowerCut ==
    /\ running /\ running' = FALSE
    /\ config' \in UNION {UNION {Partial(k, c) : c \in Sections(HostsOf[k])} : k \in Kinds}
    /\ bambu' = NewBambu /\ moon' = NewMoon /\ ha' = NewHa
    /\ vcSeen' = VirtualChamber(NewMoon)
    /\ mqttUp' = FALSE /\ pending' = FALSE /\ behind' = TRUE /\ refused' = FALSE
    /\ subscribed' = FALSE /\ wire' = <<>>
    /\ UNCHANGED <<selected, klippy>>

-------------------------------------------------------------------------------
IntInit ==
    /\ running = FALSE
    /\ selected \in Printers \cup {"none", "ha"}
    /\ config \in [ha : [on : BOOLEAN, at : HaHosts],
                  bambu : Sections(BambuHosts), moonraker : Sections(MoonHosts)]
    /\ bambu = NewBambu /\ moon = NewMoon /\ ha = NewHa
    /\ vcSeen = VirtualChamber(NewMoon)
    /\ mqttUp = FALSE /\ pending = FALSE /\ behind = TRUE /\ refused = FALSE
    /\ klippy = TRUE /\ subscribed = FALSE /\ wire = <<>>

Command ==
    \/ \E p \in Printers : \E c \in Sections(HostsOf[p]) : LinkPrinter(p, c)
    \/ \E c \in Sections(HaHosts) : LinkHa(c)
    \/ BambuApply
    \/ SetDeviceType

Around ==
    MqttChanges \/ BambuDrops \/ MoonDrops \/ HaDrops
      \/ KlippyDown \/ KlippyReady \/ ChamberUpdate

IntNext == Begin \/ PowerCut \/ (running /\ (Command \/ Loop \/ Around))

\* loop() of the device runs for ever; power comes back.
IntFairness == WF_intVars(Begin) /\ WF_intVars(running /\ Loop)

IntSpec == IntInit /\ [][IntNext]_intVars /\ IntFairness

-------------------------------------------------------------------------------
(* Correctness.                                                            *)

IntTypeOK ==
    /\ running \in BOOLEAN
    /\ selected \in Printers \cup {"none"} \cup (IF running THEN {} ELSE {"ha"})
    /\ DOMAIN config = Kinds
    /\ \A p \in Printers : config[p] \in Sections(HostsOf[p])
    /\ config["ha"] \in [on : BOOLEAN, at : HaHosts]
    /\ bambu \in BambuClients /\ moon \in MoonClients /\ ha \in HaClients
    /\ vcSeen \in BOOLEAN \X Targets
    /\ mqttUp \in BOOLEAN /\ pending \in BOOLEAN /\ behind \in BOOLEAN /\ refused \in BOOLEAN
    /\ klippy \in BOOLEAN /\ subscribed \in BOOLEAN
    /\ wire \in Seq([kind : {"status", "ready", "down"}, target : Targets])

\* The product heats on the word of one printer only: the one that is selected
\* and connected.  Switching printers, switching off and losing the connection
\* each take the other word back.
OnlySelectedHeats ==
    /\ bambu.heat # 0 => selected = "bambu" /\ bambu.state = "connected"
    /\ moon.heat # 0 => selected = "moonraker" /\ moon.state = "connected"

\* A printer that is shown as switched on is the selected one, whatever flash
\* held at boot and wherever power went in a command.
EnabledIsSelected ==
    running => \A p \in Printers : config[p].on => selected = p

\* With the cloud connected and nothing deferred the portal has seen the present
\* choice, states and chamber, however they changed while it was away and however
\* often messages were refused in between: only when the client refused the last
\* one is the portal behind (link_integrations_manager.cpp:414-440).
StatusFresh == running /\ mqttUp /\ ~pending /\ ~refused => ~behind

\* The comment at link_integrations_manager.cpp:434-436 says a change is published
\* at once and only the deferred ones are made up for; a refused one is not.
StatusAlwaysFresh == running /\ mqttUp /\ ~pending => ~behind

\* A printer that has gone silent (its connection, or Klippy behind Moonraker)
\* is not heated for: the target the product holds goes back to 0.
HeatStops ==
    /\ (bambu.heat # 0 /\ ~bambu.link) ~> (bambu.heat = 0)
    /\ (moon.heat # 0 /\ (~moon.tcp \/ ~klippy)) ~> (moon.heat = 0)

\* A connection that is up leads to the host the stored section names
\* (link_integrations_manager.h:86-88: the command updates the config).
RunsAsStored ==
    /\ bambu.link => bambu.at = config["bambu"].at
    /\ moon.tcp => moon.at = config["moonraker"].at
    /\ ha.link # NoHost => ha.link = config["ha"].at

\* An incident reported to the portal is closed once Klippy is there again
\* (moonraker_client.cpp:276-279: without the second message it hangs in the
\* portal's feed as an alarm that was never cleared).
IncidentCloses ==
    <>[](klippy /\ moon.state = "connected") => []<>(~moon.downReported)
===============================================================================
