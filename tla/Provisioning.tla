---------------------------- MODULE Provisioning ----------------------------
(***************************************************************************)
(* How a device gets onto a Wi-Fi network and back to the setup mode       *)
(* (src/platform/arduino/EspTouchProvisioner.cpp, ArduinoWifiStore.cpp,    *)
(* ArduinoWifiManager.cpp, begin and setWifiCredentials of iDryer.cpp).    *)
(* The stack reports events on a task of its own; loop() acts on them.     *)
(* Every pause the code waits is a choice of when its branch is taken.     *)
(* Which access point is chosen is the matter of ApChoice: here a scan     *)
(* finds one or does not.                                                  *)
(***************************************************************************)
EXTENDS Naturals

CONSTANTS
  Credentials,     \* networks with their passwords
  None,            \* no credentials
  kAirScanStreak,  \* failures before the one look at the air (5)
  kAuthFailLimit,  \* failures taken for a wrong password (8)
  StreakMax,       \* where the counters of failures stop (255)
  kApPinFails,     \* failures of a pinned access point before another is chosen (3)
  Hidden,          \* the network does not show its name in a scan
  MaxPhone,        \* bound: credentials sent by the phone
  MaxNetChanges,   \* bound: changes of the network: off, on, another password
  MaxFlukes,       \* bound: failures by chance: of an attempt, of a scan, of the link, of the stack
  MaxReboots       \* bound: restarts of the device

ASSUME WifiAssumption ==
  /\ None \notin Credentials
  /\ {kAirScanStreak, kAuthFailLimit, StreakMax, kApPinFails} \subseteq Nat
  /\ {MaxPhone, MaxNetChanges, MaxFlukes, MaxReboots} \subseteq Nat
  /\ Hidden \in BOOLEAN

VARIABLES
  net,                 \* what the network accepts now; None: it is off
  link,                \* the stack: "idle", "trying", "stuck" (silent), "up"
  cfg,                 \* credentials in the stack's configuration
  sc,                  \* SmartConfig in the SDK: "off", "listen", "ack" (has them, will acknowledge)
  stored,              \* credentials in NVS
  active,              \* active_: the setup screen is shown
  got,                 \* what handleGotCredentials left for loop(), or None
  awaitingScAck, credentialsPresent, provisioned, everConnected,
  failStreak, lastReason, airScanned,
  weak,                \* scanBestRssi_ says that the signal is weak
  needConnect, apPinned, apPinFails, pinScan,  \* pinScan: pinScanRunning_
  linkedOnce,          \* the cloud machine runs: Wi-Fi has been up since the start
  budget               \* what is left of the bounds

stackVars == <<net, link, cfg, sc>>
credVars == <<stored, got, awaitingScAck, credentialsPresent, provisioned, everConnected>>
failVars == <<failStreak, lastReason, apPinFails>>
airVars == <<airScanned, weak>>
pinVars == <<needConnect, apPinned>>
wifiVars == <<stackVars, credVars, failVars, airVars, pinVars, pinScan, active, linkedOnce, budget>>

\* Every variable has a value the code can give it.
WifiTypeOK ==
  /\ {net, cfg, stored, got} \subseteq Credentials \cup {None}
  /\ link \in {"idle", "trying", "stuck", "up"} /\ sc \in {"off", "listen", "ack"}
  /\ {active, awaitingScAck, credentialsPresent, provisioned, everConnected, airScanned, weak,
      needConnect, apPinned, pinScan, linkedOnce} \subseteq BOOLEAN
  /\ failStreak \in 0 .. StreakMax /\ apPinFails \in 0 .. StreakMax
  /\ lastReason \in {"none", "auth", "self", "other"}
  /\ budget \in [phone : 0 .. MaxPhone, net : 0 .. MaxNetChanges, fluke : 0 .. MaxFlukes,
                 reboot : 0 .. MaxReboots]

\* A restart: Link::begin lays the stored network, if any, into the stack; begin() starts the
\* setup mode without one.
Boot(c) ==
  /\ link' = "idle" /\ cfg' = c /\ stored' = c
  /\ sc' = (IF c = None THEN "listen" ELSE "off") /\ active' = (c = None)
  /\ got' = None /\ awaitingScAck' = FALSE /\ provisioned' = FALSE /\ everConnected' = FALSE
  /\ credentialsPresent' = (c # None)
  /\ failStreak' = 0 /\ lastReason' = "none" /\ airScanned' = FALSE /\ weak' = FALSE
  /\ needConnect' = FALSE /\ apPinned' = FALSE /\ apPinFails' = 0 /\ pinScan' = FALSE
  /\ linkedOnce' = FALSE

WifiInit ==
  /\ net \in Credentials \cup {None} /\ stored \in Credentials \cup {None}
  /\ link = "idle" /\ cfg = stored /\ sc = (IF stored = None THEN "listen" ELSE "off")
  /\ active = (stored = None) /\ got = None /\ awaitingScAck = FALSE
  /\ provisioned = FALSE /\ everConnected = FALSE /\ credentialsPresent = (stored # None)
  /\ failStreak = 0 /\ lastReason = "none" /\ airScanned = FALSE /\ weak = FALSE
  /\ needConnect = FALSE /\ apPinned = FALSE /\ apPinFails = 0 /\ pinScan = FALSE
  /\ linkedOnce = FALSE
  /\ budget = [phone |-> MaxPhone, net |-> MaxNetChanges, fluke |-> MaxFlukes,
               reboot |-> MaxReboots]

Spends(what) == budget[what] > 0 /\ budget' = [budget EXCEPT ![what] = @ - 1]

----------------------------------------------------------------------------
(* The world and the stack. *)

NetChanges ==
  /\ Spends("net") /\ net' \in (Credentials \cup {None}) \ {net}
  /\ UNCHANGED <<link, cfg, sc, credVars, failVars, airVars, pinVars, pinScan, active, linkedOnce>>

Reboot == Spends("reboot") /\ Boot(stored) /\ UNCHANGED net

\* Faulty variant of Capped: the counters are not stopped.
CappedNever(n) == n + 1

\* failStreak_ and apPinFails_ stop at the end of their byte.
Capped(n) == IF n < StreakMax THEN n + 1 ELSE n

\* The handler of STA_DISCONNECTED, with failStreak_ at n: the loop is asked for a new attempt and a
\* new choice.  What the device ended itself is no failure of the access point.
Disconnected(r, n) ==
  /\ lastReason' = r /\ failStreak' = Capped(n)
  /\ apPinFails' = IF apPinned /\ r # "self" THEN Capped(apPinFails) ELSE apPinFails
  /\ apPinned' = FALSE /\ needConnect' = TRUE

\* esp_wifi_disconnect, with failStreak_ at n: the stack reports the end of an attempt it ends.
Disconnects(n) ==
  \/ link # "idle" /\ Disconnected("self", n)
  \/ link = "idle" /\ failStreak' = n /\ UNCHANGED <<lastReason, apPinFails, pinVars>>

\* An attempt succeeds, unless the sniffer takes the radio from channel to channel; the handler of
\* STA_CONNECTED.
Connected ==
  /\ link = "trying" /\ cfg = net /\ sc # "listen"
  /\ link' = "up" /\ everConnected' = TRUE
  /\ failStreak' = 0 /\ apPinFails' = 0 /\ airScanned' = FALSE
  /\ UNCHANGED <<net, cfg, sc, stored, got, awaitingScAck, credentialsPresent, provisioned,
                 lastReason, weak, pinVars, pinScan, active, linkedOnce, budget>>

\* Some attempts are repeated by Arduino.
Afterwards(r) == IF r = "auth" THEN {"idle"} ELSE {"idle", "trying"}

\* An attempt fails, by its handshake or otherwise: with the right password because of the sniffer
\* or by chance.
Fails(r) ==
  /\ link = "trying" /\ link' \in Afterwards(r) /\ Disconnected(r, failStreak)
  /\ \/ cfg # net /\ (r = "auth" <=> net # None) /\ UNCHANGED budget
     \/ cfg = net /\ sc = "listen" /\ r = "other" /\ UNCHANGED budget
     \/ cfg = net /\ Spends("fluke")
  /\ UNCHANGED <<net, cfg, sc, credVars, airVars, pinScan, active, linkedOnce>>

\* The link is lost: with the network, or by chance.
Lost ==
  /\ link = "up" /\ link' \in Afterwards("other") /\ Disconnected("other", failStreak)
  /\ IF cfg # net THEN UNCHANGED budget ELSE Spends("fluke")
  /\ UNCHANGED <<net, cfg, sc, credVars, airVars, pinScan, active, linkedOnce>>

\* handleGotCredentials: the sniffer stops, and the stack tries what it got.
GotCredentials(c) ==
  /\ sc = "listen" /\ link # "up" /\ Spends("phone")
  /\ sc' = "ack" /\ cfg' = c /\ got' = c /\ awaitingScAck' = TRUE
  /\ Disconnects(failStreak) /\ link' = "trying"
  /\ UNCHANGED <<net, stored, credentialsPresent, provisioned, everConnected, airVars, pinScan,
                 active, linkedOnce>>

\* SC_SEND_ACK_DONE: the phone has its acknowledgement, stop().
ScAckDone ==
  /\ sc = "ack" /\ link = "up" /\ awaitingScAck' = FALSE /\ sc' = "off" /\ active' = FALSE
  /\ UNCHANGED <<net, link, cfg, stored, got, credentialsPresent, provisioned, everConnected,
                 failVars, airVars, pinVars, pinScan, linkedOnce, budget>>

----------------------------------------------------------------------------
(* loop(): its branches, in the order of the code. *)

\* First: credentials that have come go to NVS and to the Wi-Fi manager.
Save ==
  /\ got # None /\ stored' = got /\ got' = None
  /\ provisioned' = TRUE /\ credentialsPresent' = TRUE /\ airScanned' = FALSE /\ weak' = FALSE
  /\ UNCHANGED <<stackVars, awaitingScAck, everConnected, failVars, pinVars, pinScan, active,
                 linkedOnce, budget>>

\* Faulty variant of WhileUp: it waits for the acknowledgement without an end.
WhileUpPatient ==
  /\ got = None /\ link = "up" /\ linkedOnce' = TRUE
  /\ active' = FALSE /\ sc' = (IF awaitingScAck THEN sc ELSE "off")
  /\ UNCHANGED <<net, link, cfg, credVars, failVars, airVars, pinVars, pinScan, budget>>

\* Second, the link is up: the screen goes, and SmartConfig once the phone has its acknowledgement
\* or has been waited for long enough.
WhileUp ==
  /\ got = None /\ link = "up" /\ linkedOnce' = TRUE
  /\ awaitingScAck' \in {awaitingScAck, FALSE}
  /\ active' = FALSE /\ sc' = (IF awaitingScAck' THEN sc ELSE "off")
  /\ UNCHANGED <<net, link, cfg, stored, got, credentialsPresent, provisioned, everConnected,
                 failVars, airVars, pinVars, pinScan, budget>>

\* roamScanFinish: a better access point is worth the break.
Roam ==
  /\ got = None /\ link = "up" /\ ~awaitingScAck /\ Spends("fluke")
  /\ link' = "idle" /\ Disconnects(failStreak)
  /\ UNCHANGED <<net, cfg, sc, credVars, airVars, pinScan, active, linkedOnce>>

\* What follows is for a device that is not connected.
Offline == got = None /\ link # "up"

\* esp_wifi_connect from state l: an attempt starts, or the stack falls silent; one in progress is
\* an error.
Connects(l) ==
  \/ l = "idle" /\ link' = "trying" /\ UNCHANGED budget
  \/ l = "idle" /\ link' = "stuck" /\ Spends("fluke")
  \/ l # "idle" /\ link' = l /\ UNCHANGED budget

WantsScan == cfg # None /\ (apPinFails >= kApPinFails \/ ~apPinned)

\* retireFailedAp and pinBestApStart: the attempt in progress is ended and a scan starts.  The
\* counter of a retired access point starts anew.
ScanStarts ==
  /\ WantsScan /\ pinScan' = TRUE /\ link' = "idle"
  /\ IF link # "idle"
       THEN /\ lastReason' = "self" /\ failStreak' = Capped(failStreak) /\ needConnect' = TRUE
       ELSE /\ UNCHANGED <<lastReason, failStreak>> /\ needConnect' = (needConnect /\ ~provisioned)
  /\ apPinFails' = IF apPinFails >= kApPinFails THEN 0 ELSE apPinFails
  /\ apPinned' = FALSE /\ UNCHANGED budget

\* Without a scan to wait for the stack connects as it can.
Attempts ==
  /\ ~WantsScan /\ Connects(link)
  /\ needConnect' = IF provisioned THEN link # "idle" ELSE needConnect
  /\ UNCHANGED <<failVars, apPinned, pinScan>>

\* pinBestApApply: a point of the configured name is pinned if one is seen, whatever password it
\* takes; of the network itself one is, unless it hides its name.
PinsBest ==
  IF cfg = net THEN apPinned' = (apPinned \/ ~Hidden)
               ELSE apPinned' \in {apPinned, TRUE}

\* pinScanTick: the scan is over, the best access point pinned or none found, and pinScanConnect
\* tries.
ScanDone ==
  /\ Offline /\ pinScan /\ pinScan' = FALSE
  /\ PinsBest
  /\ Connects(link) /\ needConnect' = (needConnect \/ link # "idle")
  /\ UNCHANGED <<net, cfg, sc, credVars, failVars, airVars, active, linkedOnce>>

\* start(): SmartConfig listens, or does not start and is stopped so that it may the next time.
Starts ==
  \/ sc = "off" /\ sc' = "listen" /\ active' = TRUE /\ got' = None
  \/ sc # "off" /\ sc' = "off" /\ UNCHANGED <<active, got>>

----------------------------------------------------------------------------
(* Fourth: driveConnect, with credentials that were given on the air. *)

Driving == Offline /\ ~pinScan /\ provisioned

\* One look at the air after some failures.
AirScan ==
  /\ Driving /\ ~airScanned /\ failStreak >= kAirScanStreak
  /\ airScanned' = TRUE /\ weak' \in {weak, TRUE}
  /\ UNCHANGED <<stackVars, credVars, failVars, pinVars, pinScan, active, linkedOnce, budget>>

\* Faulty variant of Hopeless: only the very failure counts.
HopelessOnce == ~everConnected /\ lastReason = "auth" /\ failStreak = kAuthFailLimit

\* The password is taken for wrong.
Hopeless == ~everConnected /\ lastReason = "auth" /\ failStreak >= kAuthFailLimit

\* A weak signal that has not been measured yet buys the credentials another round.
RejectNotYet ==
  /\ Driving /\ Hopeless /\ ~weak /\ ~airScanned
  /\ airScanned' = TRUE /\ weak' = TRUE /\ link' = "trying"
  /\ failStreak' = 0
  /\ IF link # "idle" THEN lastReason' = "self" /\ needConnect' = TRUE /\ apPinned' = FALSE
                      ELSE UNCHANGED <<lastReason, pinVars>>
  /\ UNCHANGED <<net, cfg, sc, credVars, apPinFails, pinScan, active, linkedOnce, budget>>

\* Faulty variant of Reject: SmartConfig is not stopped before it is started again.
RejectKeepsActive ==
  /\ Driving /\ Hopeless
  /\ provisioned' = FALSE /\ airScanned' = FALSE /\ weak' = FALSE
  /\ Disconnects(0) /\ link' = "idle" /\ UNCHANGED <<sc, active, got>>
  /\ UNCHANGED <<net, cfg, stored, awaitingScAck, credentialsPresent, everConnected, pinScan,
                 linkedOnce, budget>>

\* The credentials are rejected and the setup mode starts again; a weak signal delays this.
Reject ==
  /\ Driving /\ Hopeless
  /\ provisioned' = FALSE /\ airScanned' = FALSE /\ weak' = FALSE
  /\ Disconnects(0) /\ link' = "idle"
  /\ sc' = "listen" /\ active' = TRUE /\ got' = None
  /\ UNCHANGED <<net, cfg, stored, awaitingScAck, credentialsPresent, everConnected, pinScan,
                 linkedOnce, budget>>

\* A new attempt after a disconnect.
Reconnect ==
  /\ Driving /\ needConnect /\ ~(Hopeless /\ ~weak)
  /\ ScanStarts \/ Attempts
  /\ UNCHANGED <<net, cfg, sc, credVars, airVars, active, linkedOnce>>

\* Faulty variant of Watchdog: it connects, which a silent stack refuses.
WatchdogConnects ==
  /\ Driving /\ link = "stuck" /\ ~needConnect /\ Connects(link)
  /\ UNCHANGED <<net, cfg, sc, credVars, failVars, airVars, pinVars, pinScan, active, linkedOnce>>

\* The stack has been silent for long: the attempt is ended, its event asks for the next.
Watchdog ==
  /\ Driving /\ link = "stuck" /\ ~needConnect /\ ~(Hopeless /\ ~weak)
  /\ link' = "idle" /\ Disconnected("self", failStreak)
  /\ UNCHANGED <<net, cfg, sc, credVars, airVars, pinScan, active, linkedOnce, budget>>

----------------------------------------------------------------------------
(* Last: the stored network, if any, and the setup mode. *)

Waiting == Offline /\ ~pinScan /\ ~provisioned

\* bootRetry, for the stored network.
BootRetry ==
  /\ Waiting /\ ~active /\ credentialsPresent
  /\ ScanStarts \/ Attempts
  /\ UNCHANGED <<net, cfg, sc, credVars, airVars, active, linkedOnce>>

\* There is no stored network, or it has had its time.
StartSetup ==
  /\ Waiting /\ ~active /\ Starts
  /\ UNCHANGED <<net, link, cfg, stored, awaitingScAck, credentialsPresent, provisioned,
                 everConnected, failVars, airVars, pinVars, pinScan, linkedOnce, budget>>

\* The setup mode is renewed from time to time.
RestartSetup ==
  /\ Waiting /\ active /\ sc' = "listen" /\ got' = None
  /\ UNCHANGED <<net, link, cfg, stored, awaitingScAck, credentialsPresent, provisioned,
                 everConnected, failVars, airVars, pinVars, pinScan, active, linkedOnce, budget>>

\* ArduinoWifiManager::connect, called by the cloud machine once Wi-Fi has been up: the credentials
\* in the stack stay if the name of the network is the manager's; else the manager's, which are the
\* stored ones, replace them.
ManagerConnect ==
  /\ linkedOnce /\ link # "up" /\ cfg' \in {cfg, stored} /\ Connects(link)
  /\ UNCHANGED <<net, sc, credVars, failVars, airVars, pinVars, pinScan, active, linkedOnce>>

Loop ==
  \/ Save \/ WhileUp \/ Roam \/ ScanDone \/ AirScan \/ RejectNotYet \/ Reject \/ Reconnect
  \/ Watchdog \/ BootRetry \/ StartSetup \/ RestartSetup \/ ManagerConnect

Stack ==
  \/ NetChanges \/ Reboot \/ Connected \/ Lost \/ ScAckDone
  \/ \E r \in {"auth", "other"} : Fails(r)
  \/ \E c \in Credentials : GotCredentials(c)

WifiNext == Stack \/ Loop

\* loop() runs for ever and reaches the branch whose pause is over; an attempt ends, a wrong
\* password by its handshake over and over again.
WifiFairness ==
  /\ WF_wifiVars(Connected) /\ WF_wifiVars(Fails("other")) /\ SF_wifiVars(Fails("auth"))
  /\ WF_wifiVars(Lost) /\ WF_wifiVars(Save) /\ WF_wifiVars(WhileUp /\ ~awaitingScAck')
  /\ WF_wifiVars(ScanDone) /\ SF_wifiVars(Reject) /\ SF_wifiVars(Reconnect)
  /\ WF_wifiVars(Watchdog) /\ WF_wifiVars(StartSetup)

WifiSpec == WifiInit /\ [][WifiNext]_wifiVars /\ WifiFairness

----------------------------------------------------------------------------
(* Properties. *)

\* What the screen says is so: while the setup mode is shown the device listens for credentials,
\* or has just got some and tries them (the flag and the SDK's own state once parted here).
ScreenMeansSetup ==
  active => sc = "listen" \/ (sc = "ack" /\ (got # None \/ provisioned))

\* A device that stays connected gives the radio back: SmartConfig does not stay up when the phone
\* never takes its acknowledgement.
RadioReleased == <>[](link = "up" /\ got = None) => <>[](sc = "off")

\* The watchdog is never reached: every pass tries to connect, and is refused (SilenceEnds).
Starved == needConnect /\ link = "stuck"

\* A device that was given a wrong password, and has not been connected since its start, does not
\* try it for ever: it listens for another one.
WrongPasswordWaits ==
  []<>(Starved \/ ~(provisioned /\ net # None /\ cfg # net /\ ~everConnected))

\* A device with the right password of a network that stays on, given on the air, gets onto it
\* whatever has happened before.
RightPasswordConnects ==
  <>[](provisioned /\ cfg = net /\ got = None) => []<>(Starved \/ link = "up")

\* A password the network has never accepted is not tried for ever, as the comment on the rejection
\* says (with MaxNetChanges = 0 a password that differs from the network's is one).
WrongPasswordAlwaysWaits == []<>(Starved \/ ~(provisioned /\ net # None /\ cfg # net))

\* A stack that has fallen silent is kicked, as the comment on the watchdog says.
SilenceEnds == []<>~(provisioned /\ link = "stuck")
=============================================================================
