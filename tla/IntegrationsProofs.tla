-------------------------- MODULE IntegrationsProofs --------------------------
(***************************************************************************)
(* Proofs about Integrations, for every set of hosts and temperatures.     *)
(*                                                                         *)
(* The invariant IntInv adds to the properties what they rest on: the      *)
(* target a client remembers is the one the product holds, a client that   *)
(* is connecting or connected belongs to the selected printer, and the     *)
(* comparison of the virtual chamber is out of date only while the chamber *)
(* is forgotten and no message about it can come.  A message the client    *)
(* refused leaves the portal behind until the next one is taken.           *)
(***************************************************************************)
EXTENDS Integrations, TLAPS

\* What the product holds is what the client remembers.
BambuHeat(b) ==
    /\ b.heat # 0 => b.state = "connected" /\ b.target = b.heat
    /\ b.link => b.state = "connected"

MoonHeat(m) ==
    /\ m.heat # 0 => m.state = "connected" /\ m.target = m.heat
    /\ m.ws <=> m.state = "connected"

MoonForgot(m) == ~m.ws /\ ~m.vc /\ m.target = 0

ConfigShape == config = [k \in Kinds |-> config[k]]

Active == {"connecting", "connected"}

ActiveIsSelected ==
    /\ bambu.state \in Active => selected = "bambu"
    /\ moon.state \in Active => selected = "moonraker"

SeenOrForgot == vcSeen = VirtualChamber(moon) \/ MoonForgot(moon)

Fresh == running /\ ~pending /\ ~refused => ~behind

IntInv ==
    /\ IntTypeOK /\ ConfigShape
    /\ BambuHeat(bambu) /\ MoonHeat(moon)
    /\ ActiveIsSelected /\ EnabledIsSelected
    /\ SeenOrForgot /\ Fresh

-------------------------------------------------------------------------------
(* The clients' operators.                                                 *)

\* What appending to a sequence and taking its first element off leaves.
LEMMA AppendOK ==
    ASSUME NEW S, NEW s \in Seq(S), NEW e \in S PROVE Append(s, e) \in Seq(S)
  OBVIOUS

LEMMA HeadTailOK ==
    ASSUME NEW S, NEW s \in Seq(S), s # <<>> PROVE Head(s) \in S /\ Tail(s) \in Seq(S)
  OBVIOUS

LEMMA TargetsNat == Targets \subseteq Nat /\ 0 \in Targets
BY ClientsAssumption DEF Targets

LEMMA BambuSetStateOK ==
    ASSUME NEW b \in BambuClients, NEW s \in ClientStates, BambuHeat(b),
           b.link => s = "connected"
    PROVE  /\ BambuSetState(b, s) \in BambuClients
           /\ BambuHeat(BambuSetState(b, s))
           /\ BambuSetState(b, s).state = s
BY TargetsNat DEF BambuSetState, BambuClients, BambuHeat, ClientStates

LEMMA BambuSetModeOK ==
    ASSUME NEW b \in BambuClients, NEW reader \in BOOLEAN, BambuHeat(b)
    PROVE  /\ BambuSetMode(b, reader) \in BambuClients
           /\ BambuHeat(BambuSetMode(b, reader))
           /\ BambuSetMode(b, reader).state = b.state
BY DEF BambuSetMode, BambuClients, BambuHeat

LEMMA BambuConfigureOK ==
    ASSUME NEW b \in BambuClients, NEW c \in Sections(BambuHosts), BambuHeat(b)
    PROVE  /\ BambuConfigure(b, c) \in BambuClients
           /\ BambuHeat(BambuConfigure(b, c))
<1> DEFINE d == [b EXCEPT !.link = FALSE, !.on = c.on, !.at = c.at, !.valid = Configured(c)]
           s == IF Configured(c) THEN "connecting" ELSE "idle"
<1>1. d \in BambuClients /\ BambuHeat(d) /\ ~d.link /\ s \in ClientStates
  BY DEF BambuClients, BambuHeat, Sections, Configured, ClientStates
<1>2. BambuSetState(d, s) \in BambuClients /\ BambuHeat(BambuSetState(d, s))
  BY <1>1, BambuSetStateOK
<1> QED
  BY <1>2 DEF BambuConfigure

LEMMA BambuShutdownOK ==
    ASSUME NEW b \in BambuClients, BambuHeat(b)
    PROVE  /\ BambuShutdown(b) \in BambuClients
           /\ BambuHeat(BambuShutdown(b))
           /\ BambuShutdown(b).state = "disabled"
<1> DEFINE d == [b EXCEPT !.link = FALSE, !.valid = FALSE]
<1>1. d \in BambuClients /\ BambuHeat(d) /\ ~d.link /\ "disabled" \in ClientStates
  BY DEF BambuClients, BambuHeat, ClientStates
<1> QED
  BY <1>1, BambuSetStateOK DEF BambuShutdown

LEMMA BambuConnectedOK ==
    ASSUME NEW b \in BambuClients, BambuHeat(b), ~b.link
    PROVE  /\ BambuConnected(b) \in BambuClients
           /\ BambuHeat(BambuConnected(b))
           /\ BambuConnected(b).state = "connected"
<1> DEFINE d == BambuSetState(b, "connecting")
           e == BambuSetState(d, "connected")
<1>1. "connecting" \in ClientStates /\ "connected" \in ClientStates
  BY DEF ClientStates
<1>2. d \in BambuClients /\ BambuHeat(d)
  BY <1>1, BambuSetStateOK
<1>3. e \in BambuClients /\ BambuHeat(e) /\ e.state = "connected"
  BY <1>1, <1>2, BambuSetStateOK
<1> HIDE DEF e
<1>4. [e EXCEPT !.link = TRUE] \in BambuClients /\ BambuHeat([e EXCEPT !.link = TRUE])
        /\ [e EXCEPT !.link = TRUE].state = "connected"
  BY <1>3 DEF BambuClients, BambuHeat
<1> QED
  BY <1>4 DEF BambuConnected, e

LEMMA BambuReportOK ==
    ASSUME NEW b \in BambuClients, NEW t \in Targets, NEW tray \in BOOLEAN,
           BambuHeat(b), b.state = "connected"
    PROVE  /\ BambuReport(b, t, tray) \in BambuClients
           /\ BambuHeat(BambuReport(b, t, tray))
           /\ BambuReport(b, t, tray).state = "connected"
BY DEF BambuReport, BambuClients, BambuHeat
LEMMA BambuPassOK ==
    ASSUME NEW b \in BambuClients, BambuHeat(b), NEW r \in BambuPass(b)
    PROVE  /\ r \in BambuClients /\ BambuHeat(r)
           /\ r.state \in Active => b.state \in Active
<1>1. CASE b.state \in {"disabled", "idle"}
  BY <1>1 DEF BambuPass
<1>2. CASE b.state \notin {"disabled", "idle"}
  <2>1. b.state \in Active
    BY <1>2 DEF BambuClients, ClientStates, Active
  <2>2. CASE b.link
    <3>1. r = b \/ \E t \in Targets, tray \in BOOLEAN : r = BambuReport(b, t, tray)
      BY <1>2, <2>2 DEF BambuPass
    <3> QED
      BY <2>1, <2>2, <3>1, BambuReportOK DEF BambuHeat
  <2>3. CASE ~b.link
    <3>1. r = BambuSetState(b, "connecting") \/ r = BambuConnected(b)
      BY <1>2, <2>3 DEF BambuPass
    <3>2. "connecting" \in ClientStates
      BY DEF ClientStates
    <3> QED
      BY <2>1, <2>3, <3>1, <3>2, BambuSetStateOK, BambuConnectedOK
  <2> QED
    BY <2>2, <2>3
<1> QED
  BY <1>1, <1>2

-------------------------------------------------------------------------------

LEMMA MoonFailSafeOK ==
    ASSUME NEW m \in MoonClients
    PROVE  /\ MoonFailSafe(m) \in MoonClients
           /\ MoonHeat(m) => MoonFailSafe(m).heat = 0
           /\ ~MoonFailSafe(m).vc /\ MoonFailSafe(m).target = 0
           /\ MoonFailSafe(m).state = m.state /\ MoonFailSafe(m).ws = m.ws
BY TargetsNat DEF MoonFailSafe, MoonClients, MoonHeat

LEMMA MoonDisconnectedOK ==
    ASSUME NEW m \in MoonClients, MoonHeat(m)
    PROVE  /\ MoonDisconnected(m) \in MoonClients /\ MoonHeat(MoonDisconnected(m))
           /\ MoonForgot(MoonDisconnected(m)) /\ MoonDisconnected(m).heat = 0
<1> DEFINE w == MoonFailSafe(m)
<1>1. w \in MoonClients /\ w.heat = 0 /\ ~w.vc /\ w.target = 0
  BY MoonFailSafeOK
<1> HIDE DEF w
<1>2. MoonDisconnected(m) = [w EXCEPT !.ws = FALSE, !.tcp = FALSE, !.state = "connecting"]
  BY DEF MoonDisconnected, w
<1> QED
  BY <1>1, <1>2 DEF MoonClients, MoonHeat, MoonForgot, ClientStates

LEMMA WsDisconnectOK ==
    ASSUME NEW m \in MoonClients, MoonHeat(m)
    PROVE  /\ WsDisconnect(m) \in MoonClients /\ MoonHeat(WsDisconnect(m))
           /\ ~WsDisconnect(m).ws /\ WsDisconnect(m).heat = 0
BY MoonDisconnectedOK DEF WsDisconnect, MoonHeat, MoonForgot, MoonClients

LEMMA MoonConfigureOK ==
    ASSUME NEW m \in MoonClients, NEW c \in Sections(MoonHosts), MoonHeat(m)
    PROVE  /\ MoonConfigure(m, c) \in MoonClients /\ MoonHeat(MoonConfigure(m, c))
           /\ MoonConfigure(m, c) = m \/ MoonForgot(MoonConfigure(m, c))
<1>1. CASE MoonConfigure(m, c) = m
  BY <1>1
<1>2. CASE MoonConfigure(m, c) # m
  <2> DEFINE w == WsDisconnect(m)
  <2>1. w \in MoonClients /\ ~w.ws /\ w.heat = 0
    BY WsDisconnectOK
  <2> HIDE DEF w
  <2>2. MoonConfigure(m, c) =
          [w EXCEPT !.on = c.on, !.at = c.at, !.valid = Configured(c), !.vc = FALSE, !.target = 0,
                    !.state = IF Configured(c) THEN "connecting" ELSE "idle"]
    BY <1>2 DEF MoonConfigure, w
  <2> QED
    BY <2>1, <2>2, TargetsNat DEF MoonClients, MoonHeat, MoonForgot, Sections, Configured, ClientStates
<1> QED
  BY <1>1, <1>2

LEMMA MoonShutdownOK ==
    ASSUME NEW m \in MoonClients, MoonHeat(m)
    PROVE  /\ MoonShutdown(m) \in MoonClients /\ MoonHeat(MoonShutdown(m))
           /\ MoonForgot(MoonShutdown(m)) /\ MoonShutdown(m).state = "disabled"
<1> DEFINE w == MoonFailSafe(WsDisconnect(m))
<1>1. w \in MoonClients /\ w.heat = 0 /\ ~w.vc /\ w.target = 0 /\ ~w.ws
  BY WsDisconnectOK, MoonFailSafeOK
<1> HIDE DEF w
<1>2. MoonShutdown(m) = [w EXCEPT !.valid = FALSE, !.state = "disabled"]
  BY DEF MoonShutdown, w
<1> QED
  BY <1>1, <1>2 DEF MoonClients, MoonHeat, MoonForgot, ClientStates

LEMMA MoonConnectedOK ==
    ASSUME NEW m \in MoonClients, MoonHeat(m), ~m.ws
    PROVE  /\ MoonConnected(m) \in MoonClients /\ MoonHeat(MoonConnected(m))
           /\ VirtualChamber(MoonConnected(m)) = VirtualChamber(m)
BY DEF MoonConnected, MoonClients, MoonHeat, ClientStates, VirtualChamber

LEMMA MoonMessageOK ==
    ASSUME NEW m \in MoonClients, MoonHeat(m), m.ws, NEW t \in Targets
    PROVE  /\ MoonStatus(m, t) \in MoonClients /\ MoonHeat(MoonStatus(m, t))
           /\ MoonKlippyDown(m) \in MoonClients /\ MoonHeat(MoonKlippyDown(m))
           /\ MoonKlippyReady(m) \in MoonClients /\ MoonHeat(MoonKlippyReady(m))
<1>1. MoonStatus(m, t) \in MoonClients /\ MoonHeat(MoonStatus(m, t))
  BY DEF MoonStatus, MoonClients, MoonHeat
<1>2. MoonKlippyDown(m) \in MoonClients /\ MoonHeat(MoonKlippyDown(m))
  <2> DEFINE w == MoonFailSafe(m)
  <2>1. w \in MoonClients /\ w.heat = 0 /\ w.state = m.state /\ w.ws = m.ws
    BY MoonFailSafeOK
  <2> HIDE DEF w
  <2>2. MoonKlippyDown(m) = [w EXCEPT !.downReported = TRUE]
    BY DEF MoonKlippyDown, w
  <2> QED
    BY <2>1, <2>2 DEF MoonClients, MoonHeat
<1>3. MoonKlippyReady(m) \in MoonClients /\ MoonHeat(MoonKlippyReady(m))
  BY DEF MoonKlippyReady, MoonClients, MoonHeat
<1> QED
  BY <1>1, <1>2, <1>3

-------------------------------------------------------------------------------

LEMMA HaOK ==
    ASSUME NEW h \in HaClients, NEW c \in [on : BOOLEAN, at : HaHosts]
    PROVE  /\ HaConfigure(h, c) \in HaClients
           /\ HaShutdown(h) \in HaClients
           /\ \A r \in HaPass(h) : r \in HaClients
BY DEF HaConfigure, HaShutdown, HaPass, HaConnected, HaClients, ClientStates, Configured

LEMMA NewOK ==
    /\ NewBambu \in BambuClients /\ BambuHeat(NewBambu) /\ NewBambu.state \notin Active
    /\ NewMoon \in MoonClients /\ MoonHeat(NewMoon) /\ NewMoon.state \notin Active
    /\ NewHa \in HaClients
BY TargetsNat DEF NewBambu, NewMoon, NewHa, BambuClients, MoonClients, HaClients, ClientStates,
                  BambuHeat, MoonHeat, Active
-------------------------------------------------------------------------------
(* What is stored.                                                         *)

LEMMA KindsAre == Kinds = {"ha", "bambu", "moonraker"}
BY DEF Kinds, HostsOf

ConfigOK ==
    /\ ConfigShape
    /\ \A p \in Printers : config[p] \in Sections(HostsOf[p])
    /\ config["ha"] \in [on : BOOLEAN, at : HaHosts]

LEMMA ConfigParts ==
    ASSUME ConfigOK
    PROVE  /\ config["bambu"] \in Sections(BambuHosts)
           /\ config["moonraker"] \in Sections(MoonHosts)
           /\ config["ha"] \in [on : BOOLEAN, at : HaHosts]
           /\ DOMAIN config = Kinds
BY DEF ConfigOK, ConfigShape, Printers, HostsOf

\* A command for one printer leaves at most the selected one switched on.
LEMMA SectionsWithOK ==
    ASSUME NEW kind \in Printers, NEW c \in Sections(HostsOf[kind]), ConfigOK,
           \A p \in Printers : config[p].on => selected = p,
           config' = SectionsWith(kind, c), selected' = SelectedWith(kind, c)
    PROVE  ConfigOK' /\ \A p \in Printers : config'[p].on => selected' = p
<1>1. /\ config' = [k \in Kinds |-> config'[k]]
      /\ config'[kind] = c
      /\ config'["ha"] = config["ha"]
      /\ config'[Other(kind)] \in Sections(HostsOf[Other(kind)])
      /\ config'[Other(kind)].on = (config[Other(kind)].on /\ ~c.on)
  BY KindsAre DEF SectionsWith, ConfigOK, ConfigShape, Other, Printers, Sections
<1>2. \A p \in Printers : p = kind \/ p = Other(kind)
  BY DEF Printers, Other
<1>3. c.on \in BOOLEAN
  BY DEF Sections
<1>4. ConfigOK'
  BY <1>1, <1>2 DEF ConfigOK, ConfigShape
<1>5. ASSUME NEW p \in Printers, config'[p].on PROVE selected' = p
  <2>1. CASE p = kind
    BY <1>1, <1>5, <2>1 DEF SelectedWith
  <2>2. CASE p = Other(kind)
    <3>1. config[p].on /\ ~c.on /\ selected = p /\ p # kind
      BY <1>1, <1>5, <2>2, <1>3 DEF Other, Printers
    <3> QED
      BY <3>1 DEF SelectedWith
  <2> QED
    BY <1>2, <2>1, <2>2
<1> QED
  BY <1>4, <1>5

LEMMA SelectedWithOK ==
    ASSUME NEW kind \in Printers, NEW c, selected \in Printers \cup {"none"}
    PROVE  SelectedWith(kind, c) \in Printers \cup {"none"}
BY DEF SelectedWith

LEMMA ApplyOK ==
    ASSUME bambu \in BambuClients, BambuHeat(bambu), moon \in MoonClients, MoonHeat(moon),
           ha \in HaClients, ConfigOK', NEW reader \in BOOLEAN, ApplyIntegrations(reader),
           selected' \in Printers \cup {"none"}
    PROVE  /\ bambu' \in BambuClients /\ BambuHeat(bambu')
           /\ moon' \in MoonClients /\ MoonHeat(moon')
           /\ ha' \in HaClients /\ ActiveIsSelected'
           /\ moon' = moon \/ MoonForgot(moon')
<1> DEFINE b == BambuSetMode(bambu, reader)
<1>1. b \in BambuClients /\ BambuHeat(b)
  BY BambuSetModeOK
<1>2. /\ config'["bambu"] \in Sections(BambuHosts)
      /\ config'["moonraker"] \in Sections(MoonHosts)
      /\ config'["ha"] \in [on : BOOLEAN, at : HaHosts]
  BY DEF ConfigOK, Printers, HostsOf
<1> HIDE DEF b
<1>3. /\ bambu' = IF selected' = "bambu" THEN BambuConfigure(b, config'["bambu"])
                                         ELSE BambuShutdown(b)
      /\ moon' = IF selected' = "moonraker" THEN MoonConfigure(moon, config'["moonraker"])
                                            ELSE MoonShutdown(moon)
      /\ ha' = IF config'["ha"].on THEN HaConfigure(ha, config'["ha"]) ELSE HaShutdown(ha)
  BY DEF ApplyIntegrations, b
<1>4. bambu' \in BambuClients /\ BambuHeat(bambu') /\ (bambu'.state \in Active => selected' = "bambu")
  BY <1>1, <1>2, <1>3, BambuConfigureOK, BambuShutdownOK DEF Active
<1>5. /\ moon' \in MoonClients /\ MoonHeat(moon') /\ (moon'.state \in Active => selected' = "moonraker")
      /\ moon' = moon \/ MoonForgot(moon')
  BY <1>2, <1>3, MoonConfigureOK, MoonShutdownOK DEF Active
<1>6. ha' \in HaClients
  BY <1>2, <1>3, HaOK
<1> QED
  BY <1>4, <1>5, <1>6 DEF ActiveIsSelected

WireOK == subscribed \in BOOLEAN /\ klippy \in BOOLEAN
            /\ wire \in Seq([kind : {"status", "ready", "down"}, target : Targets])

LEMMA HangUpOK ==
    ASSUME WireOK, moon' \in MoonClients, HangUp
    PROVE  WireOK'
BY DEF WireOK, HangUp, MoonClients

PortalOK ==
    mqttUp \in BOOLEAN /\ pending \in BOOLEAN /\ behind \in BOOLEAN /\ refused \in BOOLEAN

LEMMA PublishOK ==
    ASSUME PortalOK, NEW news \in BOOLEAN, PublishStatus(news)
    PROVE  PortalOK' /\ Fresh'
BY DEF PortalOK, PublishStatus, Fresh

LEMMA MovedIs == Moved \in BOOLEAN
BY DEF Moved

LEMMA SeenKept ==
    ASSUME SeenOrForgot, vcSeen' = vcSeen, moon' = moon \/ MoonForgot(moon')
    PROVE  SeenOrForgot'
BY DEF SeenOrForgot

\* The invariant by its parts.
Clients ==
    /\ bambu \in BambuClients /\ moon \in MoonClients /\ ha \in HaClients
    /\ BambuHeat(bambu) /\ MoonHeat(moon) /\ ActiveIsSelected

Plain ==
    /\ running \in BOOLEAN
    /\ selected \in Printers \cup {"none"} \cup (IF running THEN {} ELSE {"ha"})
    /\ vcSeen \in BOOLEAN \X Targets
    /\ PortalOK

LEMMA Parts ==
    IntInv => Plain /\ ConfigOK /\ Clients /\ WireOK /\ EnabledIsSelected /\ SeenOrForgot /\ Fresh
BY DEF IntInv, IntTypeOK, Plain, ConfigOK, Clients, WireOK, PortalOK

LEMMA Whole ==
    ASSUME Plain, ConfigOK, Clients, WireOK, EnabledIsSelected, SeenOrForgot, Fresh
    PROVE  IntInv
<1>1. DOMAIN config = Kinds
  BY ConfigParts
<1> QED
  BY <1>1 DEF IntInv, IntTypeOK, Plain, ConfigOK, Clients, WireOK, PortalOK

LEMMA WholeNext ==
    ASSUME Plain', ConfigOK', Clients', WireOK', EnabledIsSelected', SeenOrForgot', Fresh'
    PROVE  IntInv'
<1>1. DOMAIN config' = Kinds
  BY DEF ConfigOK, ConfigShape
<1> QED
  BY <1>1 DEF IntInv, IntTypeOK, Plain, ConfigOK, Clients, WireOK, PortalOK

-------------------------------------------------------------------------------
(* The steps.                                                              *)

LEMMA InitOK == IntInit => IntInv
<1> SUFFICES ASSUME IntInit PROVE IntInv
  OBVIOUS
<1>1. config \in [ha : [on : BOOLEAN, at : HaHosts],
                  bambu : Sections(BambuHosts), moonraker : Sections(MoonHosts)]
  BY DEF IntInit
<1>2. ConfigOK
  <2>1. config = [k \in Kinds |-> config[k]]
    BY <1>1, KindsAre
  <2>2. \A p \in Printers : config[p] \in Sections(HostsOf[p])
    BY <1>1 DEF Printers, HostsOf, Sections
  <2>3. config["ha"] \in [on : BOOLEAN, at : HaHosts]
    BY <1>1
  <2> QED
    BY <2>1, <2>2, <2>3 DEF ConfigOK, ConfigShape
<1>3. VirtualChamber(NewMoon) \in BOOLEAN \X Targets
  BY NewOK DEF VirtualChamber, MoonClients
<1>4. Plain
  BY <1>3 DEF IntInit, Plain, PortalOK
<1>5. Clients
  BY NewOK DEF IntInit, Clients, ActiveIsSelected
<1>6. WireOK
  <2>1. wire = <<>> /\ <<>> \in Seq([kind : {"status", "ready", "down"}, target : Targets])
    BY DEF IntInit
  <2> QED
    BY <2>1 DEF IntInit, WireOK
<1>7. EnabledIsSelected /\ SeenOrForgot /\ Fresh
  BY DEF IntInit, EnabledIsSelected, SeenOrForgot, Fresh
<1> QED
  BY <1>2, <1>4, <1>5, <1>6, <1>7, Whole

LEMMA LinkPrinterOK ==
    ASSUME IntInv, running, NEW kind \in Printers, NEW c \in Sections(HostsOf[kind]),
           LinkPrinter(kind, c)
    PROVE  IntInv'
<1>1. Plain /\ ConfigOK /\ Clients /\ WireOK /\ EnabledIsSelected /\ SeenOrForgot /\ Fresh
  BY Parts
<1>2. ConfigOK' /\ EnabledIsSelected'
  BY <1>1, SectionsWithOK DEF LinkPrinter, EnabledIsSelected
<1>3. selected \in Printers \cup {"none"} /\ selected' \in Printers \cup {"none"}
  BY <1>1, SelectedWithOK DEF LinkPrinter, Plain
<1>4. Clients' /\ (moon' = moon \/ MoonForgot(moon'))
  <2>1. CASE selected' = selected
    BY <1>1, <2>1 DEF LinkPrinter, Clients, ActiveIsSelected
  <2>2. CASE selected' # selected
    <3>1. ApplyIntegrations(bambu.reader) /\ bambu.reader \in BOOLEAN
      BY <1>1, <2>2 DEF LinkPrinter, Clients, BambuClients
    <3> QED
      BY <1>1, <1>2, <1>3, <3>1, ApplyOK DEF Clients
  <2> QED
    BY <2>1, <2>2
<1>5. WireOK'
  BY <1>1, <1>4, HangUpOK DEF LinkPrinter, Clients
<1>6. PortalOK' /\ Fresh'
  BY <1>1, PublishOK, MovedIs DEF LinkPrinter, Plain
<1>7. Plain' /\ SeenOrForgot'
  BY <1>1, <1>3, <1>4, <1>6, SeenKept DEF LinkPrinter, Plain
<1> QED
  BY <1>2, <1>4, <1>5, <1>6, <1>7, WholeNext

LEMMA ParseHaOK ==
    ASSUME NEW c \in Sections(HaHosts), NEW h \in HaHosts
    PROVE  ParseHa(c) \in [on : BOOLEAN, at : HaHosts]
<1>1. (CHOOSE x \in HaHosts : TRUE) \in HaHosts
  OBVIOUS
<1> QED
  BY <1>1 DEF ParseHa, Sections

LEMMA LinkHaOK ==
    ASSUME IntInv, running, NEW c \in Sections(HaHosts), LinkHa(c)
    PROVE  IntInv'
<1>1. Plain /\ ConfigOK /\ Clients /\ WireOK /\ EnabledIsSelected /\ SeenOrForgot /\ Fresh
  BY Parts
<1>2. config["ha"].at \in HaHosts
  BY <1>1 DEF ConfigOK
<1>3. ParseHa(c) \in [on : BOOLEAN, at : HaHosts]
  BY <1>2, ParseHaOK
<1>4. config' = [config EXCEPT !["ha"] = ParseHa(c)]
  BY DEF LinkHa
<1>5. ConfigOK' /\ EnabledIsSelected'
  BY <1>1, <1>3, <1>4, KindsAre DEF ConfigOK, ConfigShape, EnabledIsSelected, Printers, LinkHa
<1>6. config'["ha"] \in [on : BOOLEAN, at : HaHosts]
  BY <1>5 DEF ConfigOK
<1>7. Clients' /\ moon' = moon
  BY <1>1, <1>6, HaOK DEF LinkHa, Clients, ActiveIsSelected
<1>8. WireOK'
  BY <1>1 DEF LinkHa, WireOK, printer
<1>9. PortalOK' /\ Fresh'
  BY <1>1, PublishOK, MovedIs DEF LinkHa, Plain
<1>10. Plain' /\ SeenOrForgot'
  BY <1>1, <1>7, <1>9, SeenKept DEF LinkHa, Plain
<1> QED
  BY <1>5, <1>7, <1>8, <1>9, <1>10, WholeNext

LEMMA BambuApplyOK ==
    ASSUME IntInv, running, BambuApply
    PROVE  IntInv'
<1>1. Plain /\ ConfigOK /\ Clients /\ WireOK /\ EnabledIsSelected /\ SeenOrForgot /\ Fresh
  BY Parts
<1>2. PortalOK' /\ Fresh'
  BY <1>1, PublishOK DEF BambuApply, Plain
<1>3. Plain' /\ ConfigOK' /\ Clients' /\ WireOK' /\ EnabledIsSelected' /\ SeenOrForgot'
  BY <1>1, <1>2 DEF BambuApply, stored, Plain, printer, ConfigOK, ConfigShape, Clients, ActiveIsSelected, WireOK,
              EnabledIsSelected, SeenOrForgot
<1> QED
  BY <1>2, <1>3, WholeNext

LEMMA SetDeviceTypeOK ==
    ASSUME IntInv, running, SetDeviceType
    PROVE  IntInv'
<1>1. Plain /\ ConfigOK /\ Clients /\ WireOK /\ EnabledIsSelected /\ SeenOrForgot /\ Fresh
  BY Parts
<1>2. ConfigOK' /\ EnabledIsSelected' /\ selected' \in Printers \cup {"none"}
  BY <1>1 DEF SetDeviceType, stored, ConfigOK, ConfigShape, EnabledIsSelected, Plain
<1>3. PICK reader \in BOOLEAN : ApplyIntegrations(reader)
  BY DEF SetDeviceType
<1>4. Clients' /\ (moon' = moon \/ MoonForgot(moon'))
  BY <1>1, <1>2, <1>3, ApplyOK DEF Clients
<1>5. WireOK'
  BY <1>1, <1>4, HangUpOK DEF SetDeviceType, Clients
<1>6. PortalOK' /\ Fresh'
  BY <1>1, PublishOK, MovedIs DEF SetDeviceType, Plain
<1>7. Plain' /\ SeenOrForgot'
  BY <1>1, <1>4, <1>6, SeenKept DEF SetDeviceType, stored, Plain
<1> QED
  BY <1>2, <1>4, <1>5, <1>6, <1>7, WholeNext

LEMMA BeginOK ==
    ASSUME IntInv, Begin
    PROVE  IntInv'
<1> DEFINE picked == IF selected \in Printers THEN selected
                     ELSE IF config["bambu"].on THEN "bambu"
                     ELSE IF config["moonraker"].on THEN "moonraker" ELSE "none"
<1>1. Plain /\ ConfigOK /\ Clients /\ WireOK /\ EnabledIsSelected /\ SeenOrForgot /\ Fresh
  BY Parts
<1>2. /\ selected' = picked /\ running' = TRUE /\ vcSeen' = vcSeen
      /\ config' = [k \in Kinds |->
                      [config[k] EXCEPT !.on = IF k = "ha" THEN @ \/ selected = "ha"
                                               ELSE @ /\ k = picked]]
      /\ ApplyIntegrations(bambu.reader)
      /\ printer' = printer /\ PublishStatus(Moved)
  BY DEF Begin
<1>3. picked \in Printers \cup {"none"}
  BY DEF Printers
<1> HIDE DEF picked
<1>4. /\ config["bambu"] \in Sections(BambuHosts)
      /\ config["moonraker"] \in Sections(MoonHosts)
      /\ config["ha"] \in [on : BOOLEAN, at : HaHosts]
  BY <1>1, ConfigParts
<1>5. /\ config' = [k \in Kinds |-> config'[k]]
      /\ config'["ha"] = [config["ha"] EXCEPT !.on = @ \/ selected = "ha"]
      /\ config'["bambu"] = [config["bambu"] EXCEPT !.on = @ /\ "bambu" = picked]
      /\ config'["moonraker"] = [config["moonraker"] EXCEPT !.on = @ /\ "moonraker" = picked]
  BY <1>2, KindsAre
<1>6. /\ config'["ha"] \in [on : BOOLEAN, at : HaHosts]
      /\ config'["bambu"] \in Sections(BambuHosts)
      /\ config'["moonraker"] \in Sections(MoonHosts)
      /\ config'["bambu"].on => picked = "bambu"
      /\ config'["moonraker"].on => picked = "moonraker"
  BY <1>4, <1>5 DEF Sections
<1>7. ConfigOK' /\ EnabledIsSelected'
  BY <1>2, <1>5, <1>6 DEF ConfigOK, ConfigShape, EnabledIsSelected, Printers, HostsOf
<1>8. Clients' /\ (moon' = moon \/ MoonForgot(moon'))
  <2>1. bambu.reader \in BOOLEAN
    BY <1>1 DEF Clients, BambuClients
  <2> QED
    BY <1>1, <1>2, <1>3, <1>7, <2>1, ApplyOK DEF Clients
<1>9. WireOK'
  BY <1>1, <1>2 DEF WireOK, printer
<1>10. PortalOK' /\ Fresh'
  BY <1>1, <1>2, PublishOK, MovedIs DEF Plain
<1>11. Plain' /\ SeenOrForgot'
  BY <1>1, <1>2, <1>3, <1>8, <1>10, SeenKept DEF Plain
<1> QED
  BY <1>7, <1>8, <1>9, <1>10, <1>11, WholeNext

LEMMA LoopOK ==
    ASSUME IntInv, running, Loop
    PROVE  IntInv'
<1>1. Plain /\ ConfigOK /\ Clients /\ WireOK /\ EnabledIsSelected /\ SeenOrForgot /\ Fresh
  BY Parts
<1>2. ConfigOK' /\ EnabledIsSelected' /\ selected' = selected /\ config' = config /\ running' = running
  BY <1>1 DEF Loop, stored, ConfigOK, ConfigShape, EnabledIsSelected
<1>3. bambu' \in BambuClients /\ BambuHeat(bambu') /\ (bambu'.state \in Active => bambu.state \in Active)
  BY <1>1, BambuPassOK DEF Loop, BambuLoop, Clients
<1>4. ha' \in HaClients
  BY <1>1, HaOK, <1>2, ConfigParts DEF Loop, HaLoop, Clients
<1>5. /\ moon' \in MoonClients /\ MoonHeat(moon') /\ (moon'.state \in Active => moon.state \in Active)
      /\ WireOK'
      /\ ~moon.ws => VirtualChamber(moon') = VirtualChamber(moon)
  <2> DEFINE Msgs == [kind : {"status", "ready", "down"}, target : Targets]
  <2>1. moon \in MoonClients /\ MoonHeat(moon) /\ wire \in Seq(Msgs) /\ subscribed \in BOOLEAN
          /\ klippy \in BOOLEAN /\ klippy' = klippy /\ MoonLoop
    BY <1>1 DEF Clients, WireOK, Loop, MoonLoop
  <2>2. ASSUME NEW rest \in Seq(Msgs), Subscribe(rest)
        PROVE  subscribed' \in BOOLEAN /\ wire' \in Seq(Msgs)
    <3>1. PICK t \in Targets : wire' = IF klippy THEN Append(rest, Status(t)) ELSE rest
      BY <2>2 DEF Subscribe
    <3>2. Status(t) \in Msgs
      BY DEF Status
    <3> HIDE DEF Msgs
    <3>3. Append(rest, Status(t)) \in Seq(Msgs)
      BY <3>2, AppendOK
    <3> QED
      BY <2>1, <2>2, <3>1, <3>3 DEF Subscribe
  <2>3. CASE moon.state \in {"disabled", "idle"}
    BY <2>1, <2>3, <1>1 DEF MoonLoop, WireOK
  <2>4. CASE moon.state \notin {"disabled", "idle"}
    <3>1. moon.state \in Active
      BY <2>1, <2>4 DEF MoonClients, ClientStates, Active
    <3>2. CASE moon.ws /\ moon' = MoonDisconnected(moon) /\ UNCHANGED <<subscribed, wire>>
      BY <2>1, <3>1, <3>2, MoonDisconnectedOK DEF WireOK
    <3>3. CASE UNCHANGED <<moon, subscribed, wire>>
      BY <2>1, <3>1, <3>3 DEF WireOK
    <3>4. CASE moon.ws /\ wire # <<>> /\ HandleJsonRpcMessage(Head(wire), Tail(wire))
      <4>1. Head(wire) \in Msgs /\ Tail(wire) \in Seq(Msgs)
        <5> HIDE DEF Msgs
        <5> QED
          BY <2>1, <3>4, HeadTailOK
      <4>2. Head(wire).target \in Targets
        BY <4>1
      <4>3. moon' \in MoonClients /\ MoonHeat(moon')
        BY <2>1, <3>4, <4>2, MoonMessageOK DEF HandleJsonRpcMessage
      <4>4. wire' \in Seq(Msgs) /\ subscribed' \in BOOLEAN
        BY <2>1, <2>2, <3>4, <4>1 DEF HandleJsonRpcMessage
      <4> QED
        BY <2>1, <3>1, <3>4, <4>3, <4>4 DEF WireOK
    <3>5. CASE ~moon.ws /\ moon' = MoonConnected(moon) /\ Subscribe(<<>>)
      <4>1. <<>> \in Seq(Msgs)
        OBVIOUS
      <4> QED
        BY <2>1, <2>2, <3>1, <3>5, <4>1, MoonConnectedOK DEF WireOK
    <3> QED
      BY <2>1, <2>4, <3>2, <3>3, <3>4, <3>5 DEF MoonLoop
  <2> QED
    BY <2>3, <2>4
<1>6. Clients'
  BY <1>1, <1>2, <1>3, <1>4, <1>5 DEF Clients, ActiveIsSelected
<1>7. vcSeen' = VirtualChamber(moon')
  BY DEF Loop
<1>8. vcSeen' \in BOOLEAN \X Targets /\ SeenOrForgot'
  BY <1>5, <1>7 DEF VirtualChamber, MoonClients, SeenOrForgot
<1>9. PortalOK' /\ Fresh'
  <2>1. CASE Watch \/ (pending /\ mqttUp)
    BY <1>1, <2>1, PublishOK, MovedIs DEF Loop, Plain
  <2>2. CASE ~Watch /\ ~(pending /\ mqttUp)
    <3>1. bambu'.state = bambu.state /\ moon'.state = moon.state /\ ha'.state = ha.state /\ vcSeen' = vcSeen
      BY <2>2 DEF Watch
    <3>2. VirtualChamber(moon') = VirtualChamber(moon)
      BY <1>1, <1>5, <1>7, <3>1 DEF SeenOrForgot, MoonForgot
    <3>3. ~Moved
      BY <1>2, <3>1, <3>2 DEF Moved, Tracked, ComputeHaState, ComputeState
    <3>4. UNCHANGED <<mqttUp, pending, refused>> /\ behind' = (behind \/ Moved)
      BY <2>2 DEF Loop
    <3>5. behind' = behind
      BY <1>1, <3>3, <3>4 DEF Plain, PortalOK
    <3> QED
      BY <1>1, <1>2, <3>4, <3>5 DEF Plain, PortalOK, Fresh
  <2> QED
    BY <2>1, <2>2
<1>10. Plain'
  BY <1>1, <1>2, <1>8, <1>9 DEF Plain
<1> QED
  BY <1>2, <1>5, <1>6, <1>8, <1>9, <1>10, WholeNext

LEMMA AroundOK ==
    ASSUME IntInv, running, Around
    PROVE  IntInv'
<1> DEFINE Msgs == [kind : {"status", "ready", "down"}, target : Targets]
<1>1. Plain /\ ConfigOK /\ Clients /\ WireOK /\ EnabledIsSelected /\ SeenOrForgot /\ Fresh
  BY Parts
<1>2. /\ UNCHANGED stored /\ UNCHANGED vcSeen /\ UNCHANGED <<pending, behind, refused>>
      /\ mqttUp' \in {mqttUp, ~mqttUp}
  BY DEF Around, MqttChanges, BambuDrops, MoonDrops, HaDrops, KlippyDown, KlippyReady, ChamberUpdate,
         portal
<1>3. Plain' /\ ConfigOK' /\ EnabledIsSelected' /\ Fresh'
  BY <1>1, <1>2 DEF stored, Plain, PortalOK, ConfigOK, ConfigShape, EnabledIsSelected, Fresh
<1>4. Clients' /\ VirtualChamber(moon') = VirtualChamber(moon) /\ (~moon.ws => ~moon'.ws)
        /\ moon'.target = moon.target /\ moon'.vc = moon.vc
  <2>1. bambu' = bambu \/ bambu' = [bambu EXCEPT !.link = FALSE]
    BY DEF Around, MqttChanges, BambuDrops, MoonDrops, HaDrops, KlippyDown, KlippyReady, ChamberUpdate
  <2>2. moon' = moon \/ moon' = [moon EXCEPT !.tcp = FALSE]
    BY DEF Around, MqttChanges, BambuDrops, MoonDrops, HaDrops, KlippyDown, KlippyReady, ChamberUpdate
  <2>3. ha' = ha \/ ha' = [ha EXCEPT !.link = NoHost]
    BY DEF Around, MqttChanges, BambuDrops, MoonDrops, HaDrops, KlippyDown, KlippyReady, ChamberUpdate
  <2>4. bambu' \in BambuClients /\ BambuHeat(bambu') /\ bambu'.state = bambu.state
    BY <1>1, <2>1 DEF Clients, BambuClients, BambuHeat
  <2>5. /\ moon' \in MoonClients /\ MoonHeat(moon') /\ moon'.state = moon.state
        /\ moon'.ws = moon.ws /\ moon'.target = moon.target /\ moon'.vc = moon.vc
    <3>1. moon \in MoonClients /\ MoonHeat(moon)
      BY <1>1 DEF Clients
    <3>2. CASE moon' = moon
      BY <3>1, <3>2
    <3>3. CASE moon' = [moon EXCEPT !.tcp = FALSE]
      BY <3>1, <3>3 DEF MoonClients, MoonHeat
    <3> QED
      BY <2>2, <3>2, <3>3
  <2>6. ha' \in HaClients
    BY <1>1, <2>3 DEF Clients, HaClients
  <2> QED
    BY <1>1, <1>2, <2>4, <2>5, <2>6 DEF Clients, ActiveIsSelected, stored, VirtualChamber
<1>5. SeenOrForgot'
  BY <1>1, <1>2, <1>4 DEF SeenOrForgot, MoonForgot
<1>6. WireOK'
  <2>1. wire \in Seq(Msgs) /\ subscribed \in BOOLEAN /\ klippy \in BOOLEAN
    BY <1>1 DEF WireOK
  <2>2. subscribed' \in BOOLEAN /\ klippy' \in BOOLEAN
    BY <2>1 DEF Around, MqttChanges, BambuDrops, MoonDrops, HaDrops, KlippyDown, KlippyReady,
                ChamberUpdate, printer
  <2>3. ASSUME NEW kind \in {"ready", "down"}, Notify(kind) PROVE wire' \in Seq(Msgs)
    <3>1. [kind |-> kind, target |-> 0] \in Msgs
      BY TargetsNat
    <3> HIDE DEF Msgs
    <3>2. Append(wire, [kind |-> kind, target |-> 0]) \in Seq(Msgs)
      BY <2>1, <3>1, AppendOK
    <3> QED
      BY <2>1, <2>3, <3>2 DEF Notify
  <2>4. ASSUME ChamberUpdate PROVE wire' \in Seq(Msgs)
    <3>1. PICK t \in Targets : wire' = Append(wire, Status(t))
      BY <2>4 DEF ChamberUpdate
    <3>2. Status(t) \in Msgs
      BY DEF Status
    <3> HIDE DEF Msgs
    <3> QED
      BY <2>1, <3>1, <3>2, AppendOK
  <2>5. <<>> \in Seq(Msgs)
    OBVIOUS
  <2>6. wire' \in Seq(Msgs)
    BY <2>1, <2>3, <2>4, <2>5 DEF Around, MqttChanges, BambuDrops, MoonDrops, HaDrops, KlippyDown,
                                  KlippyReady, printer
  <2> QED
    BY <2>2, <2>6 DEF WireOK
<1> QED
  BY <1>3, <1>4, <1>5, <1>6, WholeNext
\* Wherever power goes in a command, flash holds well-formed sections.
LEMMA PartialOK ==
    ASSUME ConfigOK, NEW kind \in Kinds, NEW sent \in Sections(HostsOf[kind]),
           config' \in Partial(kind, sent)
    PROVE  ConfigOK'
<1>1. PICK h \in HaHosts : TRUE
  BY ConfigParts
<1>2. CASE kind = "ha"
  <2> DEFINE c == ParseHa(sent)
  <2>1. c \in [on : BOOLEAN, at : HaHosts]
    BY <1>1, <1>2, ParseHaOK DEF HostsOf
  <2> HIDE DEF c
  <2>2. "ha" \notin Printers
    BY DEF Printers
  <2>3. config' \in {config, [config EXCEPT !["ha"].on = c.on], [config EXCEPT !["ha"] = c]}
    BY <1>2, <2>2 DEF Partial, c
  <2>4. /\ config' = [k \in Kinds |-> config'[k]]
        /\ \A p \in Printers : config'[p] = config[p]
        /\ config'["ha"] \in [on : BOOLEAN, at : HaHosts]
    BY <2>1, <2>2, <2>3, KindsAre DEF ConfigOK, ConfigShape, Printers
  <2> QED
    BY <2>4 DEF ConfigOK, ConfigShape
<1>3. CASE kind \in Printers
  <2>1. kind # "ha" /\ kind \in Kinds /\ Other(kind) \in Kinds /\ Other(kind) # "ha"
          /\ \A p \in Printers : p = kind \/ p = Other(kind)
    BY <1>3, KindsAre DEF Printers, Other
  <2>2. /\ config[kind] \in Sections(HostsOf[kind])
        /\ config[Other(kind)] \in Sections(HostsOf[Other(kind)])
        /\ config = [k \in Kinds |-> config[k]]
        /\ config["ha"] \in [on : BOOLEAN, at : HaHosts]
    BY <1>3 DEF ConfigOK, ConfigShape, Printers, Other
  <2>3. sent.on \in BOOLEAN
    BY DEF Sections
  <2>4. CASE config' = config
    BY <2>4 DEF ConfigOK, ConfigShape
  <2>5. ASSUME NEW c \in Sections(HostsOf[kind]), config' = [config EXCEPT ![kind] = c]
        PROVE  ConfigOK'
    BY <2>1, <2>2, <2>5 DEF ConfigOK, ConfigShape
  <2>6. CASE config' = [config EXCEPT ![kind].on = sent.on]
    <3>1. config' = [config EXCEPT ![kind] = [config[kind] EXCEPT !.on = sent.on]]
      BY <2>6
    <3>2. [config[kind] EXCEPT !.on = sent.on] \in Sections(HostsOf[kind])
      BY <2>2, <2>3 DEF Sections
    <3> QED
      BY <2>5, <3>1, <3>2
  <2>7. CASE config' = SectionsWith(kind, sent)
    <3>1. /\ config' = [k \in Kinds |-> config'[k]]
          /\ config'[kind] = sent
          /\ config'["ha"] = config["ha"]
          /\ config'[Other(kind)] \in Sections(HostsOf[Other(kind)])
      BY <1>3, <2>7, <2>3, KindsAre DEF SectionsWith, ConfigOK, ConfigShape, Other, Printers, Sections
    <3> QED
      BY <2>1, <2>2, <3>1 DEF ConfigOK, ConfigShape
  <2> QED
    BY <1>3, <2>1, <2>4, <2>5, <2>6, <2>7 DEF Partial
<1> QED
  BY <1>2, <1>3, KindsAre DEF Printers

LEMMA PowerCutOK ==
    ASSUME IntInv, PowerCut
    PROVE  IntInv'
<1>1. Plain /\ ConfigOK /\ Clients /\ WireOK
  BY Parts
<1>2. ConfigOK'
  <2>1. PICK kind \in Kinds : \E sent \in Sections(HostsOf[kind]) : config' \in Partial(kind, sent)
    BY DEF PowerCut
  <2>2. PICK sent \in Sections(HostsOf[kind]) : config' \in Partial(kind, sent)
    BY <2>1
  <2> QED
    BY <1>1, <2>2, PartialOK
<1>3. VirtualChamber(NewMoon) \in BOOLEAN \X Targets
  BY NewOK DEF VirtualChamber, MoonClients
<1>4. Plain' /\ EnabledIsSelected' /\ SeenOrForgot' /\ Fresh'
  BY <1>1, <1>3 DEF PowerCut, Plain, PortalOK, EnabledIsSelected, SeenOrForgot, Fresh
<1>5. Clients'
  <2>1. /\ NewBambu.state \notin Active /\ NewMoon.state \notin Active
    BY DEF NewBambu, NewMoon, Active
  <2> QED
    BY <2>1, NewOK DEF PowerCut, Clients, ActiveIsSelected
<1>6. WireOK'
  <2>1. <<>> \in Seq([kind : {"status", "ready", "down"}, target : Targets])
    OBVIOUS
  <2> QED
    BY <1>1, <2>1 DEF PowerCut, WireOK
<1> QED
  BY <1>2, <1>4, <1>5, <1>6, WholeNext

-------------------------------------------------------------------------------
(* The theorems.                                                           *)

\* The inductive invariant holds whatever the order of commands, messages,
\* dropped connections and power cuts (Begin, PowerCut, Command, Loop, Around).
THEOREM IntegrationsInv == IntSpec => []IntInv
<1>1. ASSUME IntInv, [IntNext]_intVars PROVE IntInv'
  <2>1. CASE Begin
    BY <1>1, <2>1, BeginOK
  <2>2. CASE PowerCut
    BY <1>1, <2>2, PowerCutOK
  <2>3. CASE running /\ Command
    <3>1. ASSUME NEW p \in Printers, NEW c \in Sections(HostsOf[p]), LinkPrinter(p, c) PROVE IntInv'
      BY <1>1, <2>3, <3>1, LinkPrinterOK
    <3>2. ASSUME NEW c \in Sections(HaHosts), LinkHa(c) PROVE IntInv'
      BY <1>1, <2>3, <3>2, LinkHaOK
    <3> QED
      BY <1>1, <2>3, <3>1, <3>2, BambuApplyOK, SetDeviceTypeOK DEF Command
  <2>4. CASE running /\ Loop
    BY <1>1, <2>4, LoopOK
  <2>5. CASE running /\ Around
    BY <1>1, <2>5, AroundOK
  <2>6. CASE UNCHANGED intVars
    <3>1. Plain /\ ConfigOK /\ Clients /\ WireOK /\ EnabledIsSelected /\ SeenOrForgot /\ Fresh
      BY <1>1, Parts
    <3>2. Plain' /\ ConfigOK' /\ EnabledIsSelected' /\ SeenOrForgot' /\ Fresh'
      BY <2>6, <3>1 DEF intVars, Plain, PortalOK, ConfigOK, ConfigShape, EnabledIsSelected, SeenOrForgot, Fresh
    <3>3. Clients' /\ WireOK'
      BY <2>6, <3>1 DEF intVars, Clients, ActiveIsSelected, WireOK
    <3> QED
      BY <3>2, <3>3, WholeNext
  <2> QED
    BY <1>1, <2>1, <2>2, <2>3, <2>4, <2>5, <2>6 DEF IntNext
<1> QED
  BY InitOK, <1>1, PTL DEF IntSpec

\* Every variable keeps its type through every handler.
THEOREM IntegrationsTypeOK == IntSpec => []IntTypeOK
<1>1. IntInv => IntTypeOK
  BY DEF IntInv
<1> QED
  BY <1>1, IntegrationsInv, PTL

\* A target comes to the product only from the printer that is selected and
\* connected: ApplyIntegrations shuts the other one down, and each client takes
\* its target back when it loses its connection.
THEOREM OneSourceOfHeat == IntSpec => []OnlySelectedHeats
<1>1. IntInv => OnlySelectedHeats
  BY DEF IntInv, BambuHeat, MoonHeat, ActiveIsSelected, Active, OnlySelectedHeats
<1> QED
  BY <1>1, IntegrationsInv, PTL

\* After begin() the sections and the choice agree, wherever power went in the
\* command before (begin() repairs what a half-written command left).
THEOREM BootRepairsTheChoice == IntSpec => []EnabledIsSelected
<1>1. IntInv => EnabledIsSelected
  BY DEF IntInv
<1> QED
  BY <1>1, IntegrationsInv, PTL

\* No change of the choice, the states or the chamber is left out while the cloud is
\* connected, and those deferred are made up for: publishStatus ends every handler,
\* loop() watches the rest.  Only a message the client refused leaves the portal
\* behind, until the next one it takes.
THEOREM PortalIsFresh == IntSpec => []StatusFresh
<1>1. IntInv => StatusFresh
  BY DEF IntInv, Fresh, StatusFresh
<1> QED
  BY <1>1, IntegrationsInv, PTL
===============================================================================
