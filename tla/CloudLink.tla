----------------------------- MODULE CloudLink -----------------------------
(***************************************************************************)
(* The binding of a device to its owner and its way to the broker: the     *)
(* cloud state machine (cloud/cloud_state_machine.cpp), the connection of  *)
(* MqttClient, the token LocalAccess keeps for clients in the local        *)
(* network, and the credentials in NVS.                                    *)
(*                                                                         *)
(* A device without a secret waits for a pairing token, exchanges it at    *)
(* the portal for a secret and a device id, and logs in to the broker with *)
(* them.  Only a REVOKE of the portal, the WIPE_IDENTITY command on the    *)
(* wire or eraseClaimAndRestart make it forget the secret.                 *)
(*                                                                         *)
(* The program is one loop, but MqttClient::loop is called from inside     *)
(* several handlers, and whatever the broker has sent is handled there: a  *)
(* REVOKE while the 400 ms pump of another handler runs, a bind_ack while  *)
(* the state machine is in the middle of a connection attempt.  "outer"    *)
(* and "revoking" name the handlers that are suspended in such a call.     *)
(*                                                                         *)
(* The portal and the broker are external and open: requests may fail or   *)
(* their answers be lost, connections drop, messages arrive at any moment. *)
(* The portal repeats the REVOKE of a binding until it has the ack.        *)
(***************************************************************************)
EXTENDS Integers

CONSTANTS
  Bindings,       \* pairing tokens; each also stands for the secret and the
                  \* device id the portal issues for it
  Mcus,           \* serial numbers of RP2040 controllers
  None,           \* an empty string
  TwoChip,        \* config_.waitForMcuSerial
  MaxRestarts     \* bound on restarts and power losses

ASSUME LinkAssumption ==
  /\ None \notin Bindings \cup Mcus
  /\ TwoChip \in BOOLEAN
  /\ MaxRestarts \in Nat

VARIABLES
  wifi,       \* the device has a network
  state,      \* state_
  id,         \* identity_
  nvs,        \* the credentials in NVS
  pairing,    \* pendingPairingToken_
  mcu,        \* mcuSerial_; serialVerified_ <=> mcu # None
  outer,      \* the handler of the main loop that is suspended in a call
  revoking,   \* handleRevoke pumps the client for 400 ms
  radioHeld,  \* mqttRadioHeld_
  mqttInit,   \* mqttInitialized_
  client,     \* MqttClient: initialized_, credentials, connection
  online,     \* the login whose session the broker shows as connected
  portal,     \* binding -> what the portal knows of it
  local,      \* LocalAccess: started, deviceToken_, clientAuthorized_
  wiped,      \* secrets the device was told to forget and has erased
  restarts,   \* number of restarts so far
  ignoring    \* ignoreExternalCmd: commands of the cloud are rejected

memVars == <<id, nvs, wiped>>
frameVars == <<outer, revoking>>
mqttVars == <<mqttInit, client, radioHeld>>
envVars == <<wifi, online, portal>>
keptVars == <<restarts, ignoring>>
vars == <<envVars, memVars, frameVars, mqttVars, state, pairing, mcu, local, keptVars>>

Tokens == Bindings \cup {None}
Identity == [token : Tokens, deviceId : Tokens, key : Mcus \cup {None}]
NoIdentity == [token |-> None, deviceId |-> None, key |-> None]

States == {"WifiConnecting", "WaitingForMcuSerial", "Provisioning", "Ready",
           "MqttConnecting", "Online"}

\* "closing": DISCONNECT is queued; connected() is already false.
Connections == {"idle", "connecting", "connected", "closing"}
ClientOff == [ready |-> FALSE, key |-> None, token |-> None,
              conn |-> "idle", login |-> None]

LocalOff == [started |-> FALSE, token |-> None, authorized |-> FALSE]

Bound == id.token # None /\ id.deviceId # None
McuMissing == TwoChip /\ mcu = None

\* Between two iterations of Link::loop, or at the point of one where it reads
\* the wire and the product's own code runs.
Free == outer = "none" /\ ~revoking

\* Credentials the broker still accepts.  A binding that is being revoked is
\* let in, so that the REVOKE can be delivered.
Accepted(b) == b \in Bindings /\ portal[b] \in {"active", "revoking"}

\* A faulty variant of Pumping: handleOnline does not drive the client.
PumpingOffline ==
  client.ready /\ (revoking \/ outer \in {"flush", "goodbye"} \/ (outer = "attempt" /\ mqttInit))

(***************************************************************************)
(* Where MqttClient::loop is being called, and advances the connection.    *)
(***************************************************************************)
Pumping ==
  /\ client.ready
  /\ \/ revoking
     \/ outer \in {"flush", "goodbye"}
     \/ outer = "attempt" /\ mqttInit
     \/ Free /\ state = "Online"

----------------------------------------------------------------------------
Init ==
  /\ wifi = FALSE /\ state = "WifiConnecting"
  /\ id = NoIdentity /\ nvs = NoIdentity
  /\ pairing = None /\ mcu = None
  /\ outer = "none" /\ revoking = FALSE
  /\ radioHeld = FALSE /\ mqttInit = FALSE /\ client = ClientOff
  /\ online = None /\ portal = [b \in Bindings |-> "free"]
  /\ local = LocalOff /\ wiped = {} /\ restarts = 0 /\ ignoring = FALSE

\* A faulty variant of SetState: the radio window stays open.
SetStateKeepingRadio(s) == state' = s /\ UNCHANGED radioHeld

\* setState: leaving the connection attempt ends its radio window.
SetState(s) ==
  /\ state' = s
  /\ radioHeld' = (radioHeld /\ (state = s \/ state # "MqttConnecting"))

\* MqttClient::disconnect queues a DISCONNECT on an established connection.
Disconnected(c) ==
  [c EXCEPT !.ready = FALSE,
            !.conn = IF @ = "connected" THEN "closing" ELSE @]

\* ESP.restart() or power loss: what is not in NVS is gone.  begin() loads the
\* identity, and the product sets ignoreExternalCmd anew from its menu.
Reboot(stored) ==
  /\ restarts < MaxRestarts /\ restarts' = restarts + 1
  /\ nvs' = stored /\ id' = stored
  /\ state' = "WifiConnecting" /\ wifi' = FALSE
  /\ pairing' = None /\ mcu' = None
  /\ outer' = "none" /\ revoking' = FALSE
  /\ radioHeld' = FALSE /\ mqttInit' = FALSE /\ client' = ClientOff
  /\ local' = LocalOff /\ UNCHANGED ignoring

\* ICredentialStore::save writes token, deviceId and boundMqttKey one after
\* another; power may fail after any of them.
PartlySaved(new) ==
  {nvs, [nvs EXCEPT !.token = new.token],
   [nvs EXCEPT !.token = new.token, !.deviceId = new.deviceId], new}

----------------------------------------------------------------------------
(* The network and the state machine up to the broker.                     *)

WifiUp ==
  /\ ~wifi /\ wifi' = TRUE
  /\ UNCHANGED <<online, portal, memVars, frameVars, mqttVars, state, pairing,
                 mcu, local, keptVars>>

WifiDown ==
  /\ wifi /\ wifi' = FALSE
  /\ UNCHANGED <<online, portal, memVars, frameVars, mqttVars, state, pairing,
                 mcu, local, keptVars>>

HandleWifiConnecting ==
  /\ Free /\ state = "WifiConnecting" /\ wifi
  /\ SetState(IF McuMissing THEN "WaitingForMcuSerial"
              ELSE IF id.token # None THEN "Ready" ELSE "Provisioning")
  /\ UNCHANGED <<envVars, memVars, frameVars, mqttInit, client, pairing, mcu,
                 local, keptVars>>

HandleWaitingForMcuSerial ==
  /\ Free /\ state = "WaitingForMcuSerial"
  /\ \/ ~wifi /\ SetState("WifiConnecting")
     \/ wifi /\ mcu # None /\ SetState("Provisioning")
  /\ UNCHANGED <<envVars, memVars, frameVars, mqttInit, client, pairing, mcu,
                 local, keptVars>>

\* The branches of handleProvisioning that do not activate.
HandleProvisioning ==
  /\ Free /\ state = "Provisioning"
  /\ \/ ~wifi /\ SetState("WifiConnecting")
     \/ wifi /\ Bound /\ SetState("Ready")
  /\ UNCHANGED <<envVars, memVars, frameVars, mqttInit, client, pairing, mcu,
                 local, keptVars>>

\* A faulty variant of MayActivate: a pending token is used before the identity is looked at.
MayActivateBound == Free /\ state = "Provisioning" /\ wifi /\ pairing # None

MayActivate == Free /\ state = "Provisioning" /\ wifi /\ ~Bound /\ pairing # None

\* The portal turns the token into a secret, once.
Activated(b) == portal[b] = "free" /\ portal' = [portal EXCEPT ![b] = "active"]

\* tryActivate, answered with a secret.  LocalAccess learns it at the end of
\* this iteration of Link::loop.
ActivateSucceeds ==
  /\ MayActivate /\ Activated(pairing)
  /\ id' = [id EXCEPT !.token = pairing, !.deviceId = pairing] /\ nvs' = id'
  /\ pairing' = None
  /\ SetState("Ready") /\ outer' = "handover"
  /\ UNCHANGED <<wifi, online, wiped, revoking, mqttInit, client, mcu, local, keptVars>>

PowerLossWhileActivated ==
  /\ MayActivate /\ Activated(pairing)
  /\ \E stored \in PartlySaved([id EXCEPT !.token = pairing, !.deviceId = pairing]) :
       Reboot(stored)
  /\ UNCHANGED <<online, wiped>>

\* The secret was issued, the answer did not arrive; the token stays.
ActivateUnanswered ==
  /\ MayActivate /\ Activated(pairing)
  /\ UNCHANGED <<wifi, online, memVars, frameVars, mqttVars, state, pairing,
                 mcu, local, keptVars>>

\* DEVICE_CONFLICT or a stable refusal: the token is dropped.
ActivateRefused ==
  /\ MayActivate /\ pairing' = None
  /\ UNCHANGED <<envVars, memVars, frameVars, mqttVars, state, mcu, local, keptVars>>

\* The end of the iteration of Link::loop in which the device was activated:
\* LocalAccess, if it runs, is given the secret.
HandOver ==
  /\ outer = "handover" /\ ~revoking /\ outer' = "none"
  /\ local' = IF local.started THEN [local EXCEPT !.token = id.token] ELSE local
  /\ UNCHANGED <<envVars, memVars, revoking, mqttVars, state, pairing, mcu, keptVars>>

\* A faulty variant of HandleReady: a state loop() has no handler for.
HandleReadyRegistering ==
  /\ Free /\ state = "Ready" /\ wifi /\ Bound /\ SetState("Registering")
  /\ UNCHANGED <<envVars, memVars, frameVars, mqttInit, client, pairing, mcu,
                 local, keptVars>>

HandleReady ==
  /\ Free /\ state = "Ready"
  /\ SetState(IF ~wifi THEN "WifiConnecting"
              ELSE IF ~Bound THEN "Provisioning" ELSE "MqttConnecting")
  /\ UNCHANGED <<envVars, memVars, frameVars, mqttInit, client, pairing, mcu,
                 local, keptVars>>

----------------------------------------------------------------------------
(* The connection to the broker.                                           *)

\* handleMqttConnecting up to and including the call of MqttClient::loop.
HandleMqttConnecting ==
  /\ Free /\ state = "MqttConnecting"
  /\ \/ /\ ~wifi /\ SetState("WifiConnecting") /\ UNCHANGED frameVars
     \/ /\ wifi /\ outer' = "attempt" /\ UNCHANGED <<state, radioHeld, revoking>>
  /\ UNCHANGED <<envVars, memVars, mqttInit, client, pairing, mcu, local, keptVars>>

Returning == outer = "attempt" /\ ~revoking /\ outer' = "none"

\* The rest of it, on a connection that is up.
MqttUp ==
  /\ Returning /\ client.conn = "connected" /\ SetState("Online")
  /\ UNCHANGED <<envVars, memVars, revoking, mqttInit, client, pairing, mcu,
                 local, keptVars>>

\* The retry is not due; the radio window may have run out.
MqttNotDue ==
  /\ Returning /\ client.conn # "connected"
  /\ radioHeld' = FALSE \/ UNCHANGED radioHeld
  /\ UNCHANGED <<envVars, memVars, revoking, mqttInit, client, state, pairing,
                 mcu, local, keptVars>>

\* MqttClient::connect: a CONNECT with the credentials of the last begin() is
\* queued, unless one is on its way or a connection is being closed.
Connected(c) ==
  IF c.ready /\ c.token # None /\ c.key # None /\ c.conn = "idle"
  THEN [c EXCEPT !.conn = "connecting", !.login = c.token] ELSE c

\* getMqttKey is the device id wherever begin() is called with a secret.  Without
\* one it is a name the broker does not know, written None like no name at all:
\* connect() does nothing without a secret either way.
Begun(c) == [c EXCEPT !.ready = TRUE, !.key = id.deviceId, !.token = id.token]

\* The retry is due.  A handler that ran inside the call of MqttClient::loop may
\* have left the state meanwhile, which is not looked at again: the attempt goes on.
MqttAttempt ==
  /\ Returning /\ client.conn # "connected"
  /\ client' = Connected(IF mqttInit THEN client ELSE Begun(client))
  /\ mqttInit' = TRUE /\ radioHeld' = TRUE
  /\ UNCHANGED <<envVars, memVars, revoking, state, pairing, mcu, local, keptVars>>

\* A faulty variant of HandleOnline: a lost connection goes unnoticed.
HandleOnlineByWifi ==
  /\ Free /\ state = "Online" /\ ~wifi /\ SetState("WifiConnecting")
  /\ UNCHANGED <<envVars, memVars, frameVars, mqttInit, client, pairing, mcu,
                 local, keptVars>>

HandleOnline ==
  /\ Free /\ state = "Online"
  /\ \/ ~wifi /\ SetState("WifiConnecting")
     \/ wifi /\ client.conn # "connected" /\ SetState("MqttConnecting")
  /\ UNCHANGED <<envVars, memVars, frameVars, mqttInit, client, pairing, mcu,
                 local, keptVars>>

ClientStep(c) ==
  /\ client' = c
  /\ UNCHANGED <<wifi, portal, memVars, frameVars, mqttInit, radioHeld, state,
                 pairing, mcu, local, keptVars>>

\* What the client library does inside MqttClient::loop.
HandshakeDone ==
  /\ Pumping /\ wifi /\ client.conn = "connecting" /\ Accepted(client.login)
  /\ ClientStep([client EXCEPT !.conn = "connected"]) /\ online' = client.login

\* onMqttConnect could not queue the SUBSCRIBE and gives the connection up.
SubscribeFails ==
  /\ Pumping /\ wifi /\ client.conn = "connecting" /\ Accepted(client.login)
  /\ ClientStep([client EXCEPT !.conn = "closing"]) /\ online' = client.login

HandshakeRefused ==
  /\ Pumping /\ client.conn = "connecting" /\ ~Accepted(client.login)
  /\ ClientStep([client EXCEPT !.conn = "idle"]) /\ UNCHANGED online

\* A connection attempt fails, or an established connection breaks.
ConnLost ==
  /\ Pumping /\ client.conn \in {"connecting", "connected"}
  /\ ClientStep([client EXCEPT !.conn = "idle"]) /\ UNCHANGED online

\* The queued DISCONNECT is sent, or finds the connection broken.
CloseDone ==
  /\ Pumping /\ client.conn = "closing"
  /\ ClientStep([client EXCEPT !.conn = "idle"])
  /\ online' = IF wifi THEN None ELSE online

\* The broker misses the device's keep-alive and publishes its last will.
BrokerForgets ==
  /\ online # None /\ ~(wifi /\ client.conn = "connected" /\ Pumping)
  /\ online' = None
  /\ UNCHANGED <<wifi, portal, memVars, frameVars, mqttVars, state, pairing, mcu,
                 local, keptVars>>

----------------------------------------------------------------------------
(* Pairing, the RP2040, bind_ack.                                          *)

\* PAIR_TOKEN on the wire; refused while the device has a secret.
PairByWire(b) ==
  /\ Free /\ id.token = None /\ pairing' = b
  /\ UNCHANGED <<envVars, memVars, frameVars, mqttVars, state, mcu, local, keptVars>>

\* "pair" from the local network; refused while LocalAccess has a token.
LocalRuns == local.started /\ outer \in {"none", "handover"} /\ ~revoking
PairByWs(b) ==
  /\ LocalRuns /\ local.token = None /\ pairing' = b
  /\ UNCHANGED <<envVars, memVars, frameVars, mqttVars, state, mcu, local, keptVars>>

\* The local server starts with the token in NVS.
StartLocal ==
  /\ Free /\ wifi /\ ~local.started
  /\ local' = [local EXCEPT !.started = TRUE, !.token = nvs.token]
  /\ UNCHANGED <<envVars, memVars, frameVars, mqttVars, state, pairing, mcu, keptVars>>

\* "auth" with token b.  A wrong one makes LocalAccess read the token from NVS
\* once more; an empty one is ignored.
WsAuth(b) ==
  /\ LocalRuns
  /\ local' = IF b = local.token THEN [local EXCEPT !.authorized = TRUE]
              ELSE IF nvs.token # None THEN [local EXCEPT !.token = nvs.token]
              ELSE local
  /\ UNCHANGED <<envVars, memVars, frameVars, mqttVars, state, pairing, mcu, keptVars>>

WsLeave ==
  /\ LocalRuns /\ local' = [local EXCEPT !.authorized = FALSE]
  /\ UNCHANGED <<envVars, memVars, frameVars, mqttVars, state, pairing, mcu, keptVars>>

\* Hello of an RP2040.  A device bound to one does not accept another.
SetMcuSerial(m) ==
  /\ TwoChip /\ Free /\ id.key \in {None, m}
  /\ mcu' = m
  /\ IF state = "WaitingForMcuSerial" THEN SetState("Provisioning")
     ELSE UNCHANGED <<state, radioHeld>>
  /\ UNCHANGED <<envVars, memVars, frameVars, mqttInit, client, pairing, local, keptVars>>

Receiving == Pumping /\ wifi /\ client.conn = "connected"

\* bind_ack for the RP2040 that said Hello: its serial is kept, and the client
\* reconnects.
BindAckFor(m) == Receiving /\ mcu = m
HandleBindAck(m) ==
  /\ BindAckFor(m)
  /\ id' = [id EXCEPT !.key = m] /\ nvs' = id'
  /\ client' = Disconnected(client) /\ mqttInit' = FALSE
  /\ SetState("MqttConnecting")
  /\ UNCHANGED <<envVars, wiped, frameVars, pairing, mcu, local, keptVars>>

PowerLossInBindAck(m) ==
  /\ BindAckFor(m)
  /\ \E stored \in PartlySaved([id EXCEPT !.key = m]) : Reboot(stored)
  /\ UNCHANGED <<online, portal, wiped>>

----------------------------------------------------------------------------
(* REVOKE.                                                                 *)

PortalUnbind(b) ==
  /\ portal[b] = "active" /\ portal' = [portal EXCEPT ![b] = "revoking"]
  /\ UNCHANGED <<wifi, online, memVars, frameVars, mqttVars, state, pairing, mcu,
                 local, keptVars>>

\* A faulty variant of Cleared: only the cloud part forgets the secret.
NotCleared(l) == l

\* clearToken: the pairing window opens, the client is logged out.
Cleared(l) == IF l.started THEN [l EXCEPT !.token = None, !.authorized = FALSE] ELSE l

\* handleRevoke from the erasing of the secret on, and clearToken after it.
WipeWriting(stored, init) ==
  /\ id' = NoIdentity /\ nvs' = stored
  /\ wiped' = wiped \cup ({id.token} \ {None})
  /\ pairing' = None
  /\ client' = Disconnected(client) /\ mqttInit' = init
  /\ SetState("Provisioning")
  /\ local' = Cleared(local)
  /\ revoking' = FALSE
  /\ UNCHANGED <<envVars, outer, mcu, keptVars>>

\* A faulty variant of Wipe: the erased identity is not saved.
WipeUnsaved == WipeWriting(nvs, FALSE)

\* A faulty variant of Wipe: the client is not set up anew.
WipeKeepingClient == WipeWriting(NoIdentity, mqttInit)

Wipe == WipeWriting(NoIdentity, FALSE)

\* The connection is up: revoke_ack is queued and the client pumped for 400 ms,
\* or the ack could not be queued.  Without a connection the wipe is immediate.
BeginRevoke ==
  \/ /\ client.conn = "connected" /\ revoking' = TRUE
     /\ UNCHANGED <<envVars, memVars, outer, mqttVars, state, pairing, mcu, local,
                    keptVars>>
  \/ Wipe

\* WIPE_IDENTITY on the wire, or "revoke" as a command from the local network.
RevokeByWire == Free /\ BeginRevoke
RevokeByWs == LocalRuns /\ local.authorized /\ BeginRevoke

\* The switch in the device's menu.
SetIgnoreExternalCmd ==
  /\ Free /\ ignoring' = ~ignoring
  /\ UNCHANGED <<envVars, memVars, frameVars, mqttVars, state, pairing, mcu, local,
                 restarts>>

\* Link::dispatchCommand passes a command of the cloud on.
PassesGate == ~ignoring

\* REVOKE on the command topic, inside any call of MqttClient::loop.  A command
\* that the gate rejects changes nothing.
RevokeHeard ==
  Receiving /\ ~revoking /\ portal[client.login] = "revoking" /\ PassesGate
RevokeByMqtt == RevokeHeard /\ BeginRevoke

RevokeAckDelivered ==
  /\ revoking /\ Receiving
  /\ portal' = [portal EXCEPT ![client.login] = "closed"]
  /\ UNCHANGED <<wifi, online, memVars, frameVars, mqttVars, state, pairing, mcu,
                 local, keptVars>>

\* A faulty variant of RevokeWipe: a connection that drops during the pump ends the handler.
RevokeWipeIfConnected ==
  /\ revoking
  /\ \/ client.conn = "connected" /\ Wipe
     \/ /\ client.conn # "connected" /\ revoking' = FALSE
        /\ UNCHANGED <<envVars, memVars, outer, mqttVars, state, pairing, mcu,
                       local, keptVars>>

RevokeWipe == revoking /\ Wipe

\* Power is lost while a wipe is being saved, after the pump or without one.
PowerLossInWipe ==
  /\ revoking \/ Free \/ (LocalRuns /\ local.authorized) \/ RevokeHeard
  /\ \E stored \in PartlySaved(NoIdentity) :
       /\ Reboot(stored)
       /\ wiped' = IF stored.token = None THEN wiped \cup ({id.token} \ {None}) ELSE wiped
  /\ UNCHANGED <<online, portal>>

EraseClaimAndRestart ==
  /\ Free /\ Reboot(NoIdentity)
  /\ wiped' = wiped \cup ({id.token} \ {None})
  /\ UNCHANGED <<online, portal>>

----------------------------------------------------------------------------
(* A planned restart (OtaReceiver::flushAndRestart), and power loss.       *)

FlushBegin ==
  /\ Free /\ restarts < MaxRestarts /\ outer' = "flush"
  /\ UNCHANGED <<envVars, memVars, revoking, mqttVars, state, pairing, mcu, local,
                 keptVars>>

\* 800 ms are over: disconnect, then pump for another 150 ms.
FlushDisconnect ==
  /\ outer = "flush" /\ ~revoking /\ outer' = "goodbye"
  /\ client' = Disconnected(client)
  /\ UNCHANGED <<envVars, memVars, revoking, mqttInit, radioHeld, state, pairing,
                 mcu, local, keptVars>>

FlushRestart ==
  /\ outer = "goodbye" /\ ~revoking /\ Reboot(nvs)
  /\ UNCHANGED <<online, portal, wiped>>

PowerLoss == Reboot(nvs) /\ UNCHANGED <<online, portal, wiped>>

----------------------------------------------------------------------------
Lifecycle ==
  \/ WifiUp \/ WifiDown
  \/ HandleWifiConnecting \/ HandleWaitingForMcuSerial \/ HandleProvisioning
  \/ ActivateSucceeds \/ PowerLossWhileActivated
  \/ ActivateUnanswered \/ ActivateRefused \/ HandOver \/ HandleReady

Connection ==
  \/ HandleMqttConnecting \/ MqttUp \/ MqttNotDue \/ MqttAttempt \/ HandleOnline
  \/ HandshakeDone \/ SubscribeFails \/ HandshakeRefused \/ ConnLost \/ CloseDone
  \/ BrokerForgets

Pairing ==
  \/ StartLocal \/ WsLeave
  \/ \E b \in Bindings :
       PairByWire(b) \/ PairByWs(b) \/ WsAuth(b) \/ PortalUnbind(b)
  \/ \E m \in Mcus : SetMcuSerial(m) \/ HandleBindAck(m) \/ PowerLossInBindAck(m)

Revocation ==
  \/ RevokeByWire \/ RevokeByWs \/ RevokeByMqtt \/ RevokeAckDelivered \/ RevokeWipe
  \/ PowerLossInWipe \/ EraseClaimAndRestart \/ SetIgnoreExternalCmd

Restarting == FlushBegin \/ FlushDisconnect \/ FlushRestart \/ PowerLoss

Next == Lifecycle \/ Connection \/ Pairing \/ Revocation \/ Restarting

Spec == Init /\ [][Next]_vars

(***************************************************************************)
(* Fairness.  The main loop runs and its nested pumps end by a timer (WF). *)
(* A device that keeps trying gets through now and then (SF): the retry    *)
(* becomes due, a login the broker accepts succeeds, a connection outlives *)
(* one tick, and a REVOKE that the broker keeps for a persistent session   *)
(* is delivered.  Nothing is assumed of the network, the owner or the      *)
(* activation.                                                             *)
(***************************************************************************)
Fairness ==
  /\ WF_vars(HandleWifiConnecting) /\ WF_vars(HandleWaitingForMcuSerial)
  /\ WF_vars(HandleProvisioning) /\ WF_vars(HandleReady) /\ WF_vars(HandOver)
  /\ WF_vars(HandleMqttConnecting) /\ WF_vars(MqttNotDue) /\ WF_vars(HandleOnline)
  /\ WF_vars(RevokeWipe) /\ WF_vars(FlushDisconnect) /\ WF_vars(FlushRestart)
  /\ SF_vars(MqttUp) /\ SF_vars(MqttAttempt)
  /\ SF_vars(HandshakeDone) /\ SF_vars(HandshakeRefused) /\ SF_vars(CloseDone)
  /\ SF_vars(RevokeByMqtt)

FairSpec == Spec /\ Fairness

----------------------------------------------------------------------------
(* Properties.                                                             *)

\* Type invariant.  The states Idle and Registering are never entered: loop()
\* has no handler for them.
TypeOK ==
  /\ wifi \in BOOLEAN /\ state \in States
  /\ id \in Identity /\ nvs \in Identity /\ wiped \subseteq Bindings
  /\ pairing \in Tokens /\ mcu \in Mcus \cup {None}
  /\ outer \in {"none", "attempt", "handover", "flush", "goodbye"}
  /\ revoking \in BOOLEAN /\ radioHeld \in BOOLEAN /\ mqttInit \in BOOLEAN
  /\ client \in [ready : BOOLEAN, key : Tokens, token : Tokens,
                 conn : Connections, login : Tokens]
  /\ online \in Tokens
  /\ portal \in [Bindings -> {"free", "active", "revoking", "closed"}]
  /\ local \in [started : BOOLEAN, token : Tokens, authorized : BOOLEAN]
  /\ restarts \in 0..MaxRestarts /\ ignoring \in BOOLEAN

\* The radio is marked busy for the broker only while a connection is being
\* attempted.  The comment at cloud_state_machine.cpp:463-467 says so of every way
\* out of an attempt; it does not hold after a REVOKE inside one.
RadioWindow == radioHeld => state = "MqttConnecting"

\* That is the only way the mark outlives its attempt: the device has just been
\* told to forget its secret by a handler inside the attempt, and the attempt went
\* on.  A bind_ack, a lost connection or network and a pump of 400 ms inside it do
\* not leave the mark behind (cloud_state_machine.cpp:246-310 and 463-467).
RadioOutlivesOnlyRevoke ==
  [][RadioWindow /\ ~RadioWindow' =>
       outer = "attempt" /\ state = "Provisioning" /\ id = NoIdentity]_vars

\* The local transport follows the identity: the pairing window is open exactly
\* while the device has no secret, and no client is logged in with a secret that
\* was wiped (iDryer.cpp:803-805 and 1230-1238, invariant I-1).
LocalFollowsIdentity ==
  local.started /\ outer # "handover" =>
    /\ local.token = id.token
    /\ local.authorized => local.token # None

\* A secret the device was told to forget does not come back: not from NVS after
\* a restart, nor from the copy of the local transport
\* (cloud_state_machine.cpp:190-194, local_access.cpp:191-200).
SecretStaysWiped == wiped \cap {id.token, nvs.token, local.token} = {}

\* An attempt went on after a REVOKE inside it: the client was set up without a
\* secret, and is not set up again while mqttInitialized_ stays set.
BegunWithoutSecret == mqttInit /\ client.token = None

\* The client is never set up with a secret other than the device's, whatever is
\* wiped, bound or activated around and inside a connection attempt; a secret it has
\* goes with the device id of the same binding; and the device is at the broker, or
\* on its way, only with a complete binding (cloud_state_machine.cpp:202, 237, 301-305).
ClientHasNoOtherSecret ==
  /\ mqttInit /\ client.token # None =>
       client.token = id.token /\ client.key = id.deviceId
  /\ state \in {"MqttConnecting", "Online"} => Bound

\* After a wipe the client is set up anew, on the new secret: what the comment at
\* cloud_state_machine.cpp:200-201 gives as the reason for clearing mqttInitialized_.
ClientHasIdentity ==
  mqttInit => client.token = id.token /\ client.key = id.deviceId

\* The secret is the only truth about the binding: it goes away by a wipe that
\* was asked for, never by a refusal, a new activation or a restart in between
\* (cloud_state_machine.cpp:86-93).
SecretOnlyRevoked ==
  [][id.token # None /\ id'.token # id.token => id.token \in wiped']_vars

\* All of this together: whatever loop, broker, RP2040, local client and power do to each other,
\* the secret changes as Ownership says, issued once and forgotten once, and for the rest of the
\* steps the binding stands still.
Own == INSTANCE Ownership WITH secret <- id.token, forgotten <- wiped,
                               issued <- {b \in Bindings : portal[b] # "free"}
RefinesOwnership ==
  Own!Unowned /\ [][Own!OwnershipNext]_<<id.token, wiped, {b \in Bindings : portal[b] # "free"}>>

\* The session belongs to a binding the device has forgotten.
StaleSession == client.conn = "connected" /\ client.login # id.token

\* A bound device with a network comes online, again and again, whatever was
\* interrupted before: it is never stuck with a client it does not drive, unless
\* an attempt went on after a REVOKE (BegunWithoutSecret), which lasts until the
\* next wipe or restart.
BoundComesOnline ==
  []<>(\/ state = "Online" /\ client.conn = "connected"
       \/ ~wifi \/ ~Bound \/ ~Accepted(id.token) \/ McuMissing
       \/ BegunWithoutSecret)

\* An unbound device learns of it: the REVOKE is carried out while the device
\* has a network and obeys the cloud, even though the ack may fail and the
\* connection may drop.  A device that was begun without a secret is not online to
\* hear of it.
RevokeReaches ==
  []<>(\/ ~wifi \/ ~Bound \/ McuMissing \/ StaleSession \/ ignoring
       \/ BegunWithoutSecret
       \/ portal[id.token] # "revoking")

\* Unlinking reaches every device that has a network: docs/en/02-quickstart/
\* 02-claim.md:35 makes no exception for one that ignores external commands.
UnlinkingReaches ==
  []<>(\/ ~wifi \/ ~Bound \/ McuMissing \/ StaleSession \/ BegunWithoutSecret
       \/ portal[id.token] # "revoking")

\* What the device has acknowledged it does: once the portal has the revoke_ack,
\* the secret goes, if the device is not restarted just then
\* (cloud_state_machine.cpp:177-190).
RevokeCarriedOut ==
  \A b \in Bindings, n \in 0..MaxRestarts :
    (portal[b] = "closed" /\ restarts = n) ~> (id.token # b \/ restarts # n)

\* The session belongs to the binding the device has: after a wipe the client
\* comes up anew, on the new secret (cloud_state_machine.cpp:200-201).
SessionIsOwn == ~StaleSession

\* After disconnect() a planned restart pumps the client until the DISCONNECT is
\* sent, so that the broker does not publish the last will of a device that
\* only restarts (ota_receiver.cpp:844-851).
GoodbyeIsPumped == outer = "goodbye" /\ client.conn = "closing" => Pumping
=============================================================================
