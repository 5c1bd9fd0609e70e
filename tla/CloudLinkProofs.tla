-------------------------- MODULE CloudLinkProofs --------------------------
(***************************************************************************)
(* What CloudLink guarantees for any number of bindings, controllers and   *)
(* restarts.                                                               *)
(***************************************************************************)
EXTENDS CloudLink, TLAPS

USE DEF memVars, frameVars, mqttVars, envVars, keptVars

----------------------------------------------------------------------------
(* Types.                                                                  *)

Clients == [ready : BOOLEAN, key : Tokens, token : Tokens,
            conn : Connections, login : Tokens]
Locals  == [started : BOOLEAN, token : Tokens, authorized : BOOLEAN]

\* The identities a save that power loss interrupts may leave in NVS.
LEMMA SavedTypes ==
  ASSUME TypeOK, NEW new \in Identity
  PROVE  PartlySaved(new) \subseteq Identity
<1>1. [nvs EXCEPT !.token = new.token] \in Identity
  BY DEF TypeOK, Identity
<1>2. [nvs EXCEPT !.token = new.token, !.deviceId = new.deviceId] \in Identity
  BY DEF TypeOK, Identity
<1>3. nvs \in Identity
  BY DEF TypeOK
<1> QED
  BY <1>1, <1>2, <1>3 DEF PartlySaved

\* The three operations on the client record.
LEMMA ClientTypes ==
  ASSUME TypeOK, NEW c \in Clients
  PROVE  /\ Disconnected(c) \in Clients /\ Connected(c) \in Clients
         /\ Begun(c) \in Clients
BY DEF Disconnected, Connected, Begun, Clients, Connections, TypeOK, Identity

\* The values a restart leaves.
LEMMA OffTypes ==
  ClientOff \in Clients /\ LocalOff \in Locals /\ NoIdentity \in Identity
<1>1. ClientOff \in Clients
  BY DEF ClientOff, Clients, Connections, Tokens
<1>2. LocalOff \in Locals
  BY DEF LocalOff, Locals, Tokens
<1>3. NoIdentity \in Identity
  BY DEF NoIdentity, Identity, Tokens
<1> QED
  BY <1>1, <1>2, <1>3

\* A restart leaves the variables it resets in their types.
LEMMA RebootTypes ==
  ASSUME TypeOK, NEW stored \in Identity, Reboot(stored),
         online' \in Tokens, wiped' \subseteq Bindings,
         portal' \in [Bindings -> {"free", "active", "revoking", "closed"}]
  PROVE  TypeOK'
<1>1. client' \in Clients /\ local' \in Locals
  BY OffTypes DEF Reboot
<1>2. restarts' \in 0..MaxRestarts
  BY LinkAssumption DEF Reboot, TypeOK
<1>3. id' \in Identity /\ nvs' \in Identity
  BY DEF Reboot
<1>4. state' \in States /\ pairing' \in Tokens /\ mcu' \in Mcus \cup {None}
  BY DEF Reboot, States, Tokens
<1> QED
  BY <1>1, <1>2, <1>3, <1>4 DEF TypeOK, Reboot, Clients, Locals

\* setState enters a state of the list.
LEMMA StateTypes ==
  ASSUME TypeOK, NEW s \in States, SetState(s)
  PROVE  state' \in States /\ radioHeld' \in BOOLEAN
BY DEF SetState, TypeOK

\* The wipe keeps the types.
LEMMA WipeTypes ==
  ASSUME TypeOK, Wipe
  PROVE  TypeOK'
<1>1. state' \in States /\ radioHeld' \in BOOLEAN
  BY StateTypes DEF Wipe, WipeWriting, States
<1>2. client' \in Clients
  BY ClientTypes DEF Wipe, WipeWriting, TypeOK, Clients
<1>3. local' \in Locals
  BY DEF Wipe, WipeWriting, TypeOK, Cleared, Locals, Tokens
<1>4. id' \in Identity /\ nvs' \in Identity
  BY DEF Wipe, WipeWriting, NoIdentity, Identity, Tokens
<1>5. wiped' \subseteq Bindings
  BY DEF Wipe, WipeWriting, TypeOK, Identity, Tokens
<1> QED
  BY <1>1, <1>2, <1>3, <1>4, <1>5
  DEF Wipe, WipeWriting, TypeOK, Clients, Locals, Tokens

\* handleRevoke, whether it pumps or wipes at once.
LEMMA RevokeTypes ==
  ASSUME TypeOK, BeginRevoke
  PROVE  TypeOK'
<1>1. CASE Wipe
  BY <1>1, WipeTypes
<1>2. CASE revoking' = TRUE /\ UNCHANGED <<envVars, memVars, outer, mqttVars, state,
                                           pairing, mcu, local, keptVars>>
  BY <1>2 DEF TypeOK
<1> QED
  BY <1>1, <1>2 DEF BeginRevoke

\* No step takes a variable out of its type.
LEMMA TypeStep ==
  ASSUME TypeOK, [Next]_vars
  PROVE  TypeOK'
<1>1. CASE Lifecycle
  <2>1. CASE WifiUp \/ WifiDown
    BY <2>1 DEF TypeOK, WifiUp, WifiDown
  <2>2. CASE HandleWifiConnecting
    BY <2>2, StateTypes DEF TypeOK, HandleWifiConnecting, States
  <2>3. CASE HandleWaitingForMcuSerial
    BY <2>3, StateTypes DEF TypeOK, HandleWaitingForMcuSerial, States
  <2>4. CASE HandleProvisioning
    BY <2>4, StateTypes DEF TypeOK, HandleProvisioning, States
  <2>5. CASE ActivateSucceeds
    <3>1. id' \in Identity /\ nvs' \in Identity /\ pairing' \in Tokens
      BY <2>5 DEF TypeOK, ActivateSucceeds, Identity, Tokens
    <3>2. state' \in States /\ radioHeld' \in BOOLEAN
      BY <2>5, StateTypes DEF ActivateSucceeds, States
    <3>3. portal' \in [Bindings -> {"free", "active", "revoking", "closed"}]
      BY <2>5 DEF ActivateSucceeds, Activated, TypeOK
    <3> QED
      BY <2>5, <3>1, <3>2, <3>3 DEF TypeOK, ActivateSucceeds
  <2>6. CASE PowerLossWhileActivated
    <3> DEFINE new == [id EXCEPT !.token = pairing, !.deviceId = pairing]
    <3>1. new \in Identity
      BY DEF TypeOK, Identity
    <3>2. PICK stored \in PartlySaved(new) : Reboot(stored)
      BY <2>6 DEF PowerLossWhileActivated
    <3>3. portal' \in [Bindings -> {"free", "active", "revoking", "closed"}]
      BY <2>6 DEF PowerLossWhileActivated, Activated, TypeOK
    <3> QED
      BY <2>6, <3>1, <3>2, <3>3, SavedTypes, RebootTypes
      DEF PowerLossWhileActivated, TypeOK
  <2>7. CASE ActivateUnanswered
    BY <2>7 DEF TypeOK, ActivateUnanswered, Activated
  <2>8. CASE ActivateRefused
    BY <2>8 DEF TypeOK, ActivateRefused, Tokens
  <2>9. CASE HandOver
    BY <2>9 DEF TypeOK, HandOver, Identity
  <2>10. CASE HandleReady
    BY <2>10, StateTypes DEF TypeOK, HandleReady, States
  <2> QED
    BY <1>1, <2>1, <2>2, <2>3, <2>4, <2>5, <2>6, <2>7, <2>8, <2>9, <2>10 DEF Lifecycle
<1>2. CASE Connection
  <2>1. CASE HandleMqttConnecting
    BY <2>1, StateTypes DEF TypeOK, HandleMqttConnecting, States
  <2>2. CASE MqttUp
    BY <2>2, StateTypes DEF TypeOK, MqttUp, Returning, States
  <2>3. CASE MqttNotDue
    BY <2>3 DEF TypeOK, MqttNotDue, Returning
  <2>4. CASE MqttAttempt
    <3>1. client' \in Clients
      BY <2>4, ClientTypes DEF MqttAttempt, TypeOK, Clients
    <3> QED
      BY <2>4, <3>1 DEF TypeOK, MqttAttempt, Returning, Clients
  <2>5. CASE HandleOnline
    BY <2>5, StateTypes DEF TypeOK, HandleOnline, States
  <2>6. CASE HandshakeDone \/ SubscribeFails \/ HandshakeRefused \/ ConnLost \/ CloseDone
    BY <2>6
    DEF TypeOK, HandshakeDone, SubscribeFails, HandshakeRefused, ConnLost, CloseDone,
        ClientStep, Connections, Tokens
  <2>7. CASE BrokerForgets
    BY <2>7 DEF TypeOK, BrokerForgets, Tokens
  <2> QED
    BY <1>2, <2>1, <2>2, <2>3, <2>4, <2>5, <2>6, <2>7 DEF Connection
<1>3. CASE Pairing
  <2>1. CASE StartLocal \/ WsLeave
    BY <2>1 DEF TypeOK, StartLocal, WsLeave, Identity
  <2>2. ASSUME NEW b \in Bindings, PairByWire(b) \/ PairByWs(b) PROVE TypeOK'
    BY <2>2 DEF TypeOK, PairByWire, PairByWs, Tokens
  <2>3. ASSUME NEW b \in Bindings, WsAuth(b) PROVE TypeOK'
    <3>1. nvs.token \in Tokens /\ local \in Locals
      BY DEF TypeOK, Identity, Locals
    <3>2. local' \in Locals
      BY <2>3, <3>1 DEF WsAuth, Locals
    <3> QED
      BY <2>3, <3>2 DEF TypeOK, WsAuth, Locals
  <2>4. ASSUME NEW b \in Bindings, PortalUnbind(b) PROVE TypeOK'
    BY <2>4 DEF TypeOK, PortalUnbind
  <2>5. ASSUME NEW m \in Mcus, SetMcuSerial(m) PROVE TypeOK'
    BY <2>5, StateTypes DEF TypeOK, SetMcuSerial, States
  <2>6. ASSUME NEW m \in Mcus, HandleBindAck(m) PROVE TypeOK'
    <3>1. client' \in Clients
      BY <2>6, ClientTypes DEF HandleBindAck, TypeOK, Clients
    <3>2. id' \in Identity
      BY <2>6 DEF HandleBindAck, TypeOK, Identity
    <3> QED
      BY <2>6, <3>1, <3>2, StateTypes DEF TypeOK, HandleBindAck, States, Clients
  <2>7. ASSUME NEW m \in Mcus, PowerLossInBindAck(m) PROVE TypeOK'
    <3>1. [id EXCEPT !.key = m] \in Identity
      BY DEF TypeOK, Identity
    <3>2. PICK stored \in PartlySaved([id EXCEPT !.key = m]) : Reboot(stored)
      BY <2>7 DEF PowerLossInBindAck
    <3> QED
      BY <2>7, <3>1, <3>2, SavedTypes, RebootTypes DEF PowerLossInBindAck, TypeOK
  <2> QED
    BY <1>3, <2>1, <2>2, <2>3, <2>4, <2>5, <2>6, <2>7 DEF Pairing
<1>4. CASE Revocation
  <2>1. CASE RevokeByWire \/ RevokeByWs \/ RevokeByMqtt
    BY <2>1, RevokeTypes DEF RevokeByWire, RevokeByWs, RevokeByMqtt
  <2>2. CASE RevokeAckDelivered
    BY <2>2 DEF TypeOK, RevokeAckDelivered
  <2>3. CASE RevokeWipe
    BY <2>3, WipeTypes DEF RevokeWipe
  <2>4. NoIdentity \in Identity
    BY DEF NoIdentity, Identity, Tokens
  <2>5. wiped \cup ({id.token} \ {None}) \subseteq Bindings
    BY DEF TypeOK, Identity, Tokens
  <2>6. CASE PowerLossInWipe
    <3>1. PICK stored \in PartlySaved(NoIdentity) :
            /\ Reboot(stored)
            /\ wiped' = IF stored.token = None THEN wiped \cup ({id.token} \ {None}) ELSE wiped
      BY <2>6 DEF PowerLossInWipe
    <3> QED
      BY <2>4, <2>5, <2>6, <3>1, SavedTypes, RebootTypes DEF PowerLossInWipe, TypeOK
  <2>7. CASE EraseClaimAndRestart
    BY <2>4, <2>5, <2>7, RebootTypes DEF EraseClaimAndRestart, TypeOK
  <2>8. CASE SetIgnoreExternalCmd
    BY <2>8 DEF TypeOK, SetIgnoreExternalCmd
  <2> QED
    BY <1>4, <2>1, <2>2, <2>3, <2>6, <2>7, <2>8 DEF Revocation
<1>5. CASE Restarting
  <2>1. CASE FlushBegin
    BY <2>1 DEF TypeOK, FlushBegin
  <2>2. CASE FlushDisconnect
    <3>1. client' \in Clients
      BY <2>2, ClientTypes DEF FlushDisconnect, TypeOK, Clients
    <3> QED
      BY <2>2, <3>1 DEF TypeOK, FlushDisconnect, Clients
  <2>3. CASE FlushRestart \/ PowerLoss
    BY <2>3, RebootTypes DEF FlushRestart, PowerLoss, TypeOK
  <2> QED
    BY <1>5, <2>1, <2>2, <2>3 DEF Restarting
<1>6. CASE UNCHANGED vars
  BY <1>6 DEF TypeOK, vars
<1> QED
  BY <1>1, <1>2, <1>3, <1>4, <1>5, <1>6 DEF Next

\* Every variable keeps its type; in particular the state machine never enters
\* a state loop() has no handler for.
THEOREM LinkTypes == Spec => []TypeOK
<1>1. Init => TypeOK
  <2> SUFFICES ASSUME Init PROVE TypeOK
    OBVIOUS
  <2>1. client \in Clients /\ local \in Locals /\ id \in Identity /\ nvs \in Identity
    BY OffTypes DEF Init
  <2>2. restarts \in 0..MaxRestarts
    BY LinkAssumption DEF Init
  <2> QED
    BY <2>1, <2>2 DEF Init, TypeOK, States, Tokens, Clients, Locals
<1>2. TypeOK /\ [Next]_vars => TypeOK'
  BY TypeStep
<1> QED
  BY <1>1, <1>2, PTL DEF Spec
----------------------------------------------------------------------------
(***************************************************************************)
(* The binding.  The properties of the secret are not inductive: that an   *)
(* activation never replaces a secret needs to know that no pairing token  *)
(* waits beside one, except beside a complete binding; that in turn needs  *)
(* the local transport to know the secret, also in the iteration in which  *)
(* it is handed over; and that a wiped secret is not issued again needs    *)
(* the portal's side.                                                      *)
(***************************************************************************)

\* The identity in RAM is the one in NVS.
SavedInv == nvs = id

\* What the local transport knows.
LocalInv ==
  /\ local.token \in {None, id.token}
  /\ ~local.started => local.token = None /\ ~local.authorized
  /\ local.authorized => local.token # None
  /\ local.started /\ outer # "handover" => local.token = id.token

\* A secret without a device id, which a power loss may leave, has no pairing
\* token beside it and is not being handed over.
LimboInv ==
  pairing # None \/ outer = "handover" => id.token = None \/ Bound

\* A pairing token the portal has not used stands for no secret yet.
FreshInv == \A b \in Bindings : portal[b] = "free" => b \notin wiped /\ id.token # b

WipedInv == id.token \notin wiped

BindingInv == SavedInv /\ LocalInv /\ LimboInv /\ FreshInv /\ WipedInv

\* A step that leaves the identity, the portal and the local transport alone.
LEMMA BindingFramed ==
  ASSUME BindingInv, UNCHANGED <<id, nvs, wiped, portal, local>>,
         pairing' \in {pairing, None},
         outer' = outer \/ (outer # "handover" /\ outer' # "handover")
  PROVE  BindingInv'
BY DEF BindingInv, SavedInv, LocalInv, LimboInv, FreshInv, WipedInv, Bound

\* An activation meets a device without a secret.
LEMMA ActivationIsFirst ==
  ASSUME TypeOK, BindingInv, MayActivate
  PROVE  pairing \in Bindings /\ id.token = None /\ local.token = None
BY DEF TypeOK, BindingInv, LocalInv, LimboInv, MayActivate, Tokens

\* A restart keeps the invariant if what was stored does.
LEMMA BindingRebooted ==
  ASSUME NEW stored, Reboot(stored), FreshInv', WipedInv'
  PROVE  BindingInv'
BY DEF BindingInv, SavedInv, LocalInv, LimboInv, Reboot, LocalOff

\* A restart in a save that does not change the secret.
LEMMA BindingRestarted ==
  ASSUME TypeOK, BindingInv, NEW stored \in Identity, Reboot(stored),
         stored.token = id.token, UNCHANGED <<portal, wiped>>
  PROVE  BindingInv'
<1>1. FreshInv' /\ WipedInv'
  BY DEF BindingInv, FreshInv, WipedInv, Reboot
<1> QED
  BY <1>1, BindingRebooted

\* The wipe leaves no secret, in RAM, in NVS or with the local transport.
LEMMA BindingWiped ==
  ASSUME TypeOK, BindingInv, Wipe
  PROVE  BindingInv'
<1> USE DEF Wipe, WipeWriting
<1>1. id'.token = None /\ nvs' = id' /\ pairing' = None /\ outer' = outer
  BY DEF NoIdentity
<1>2. local \in Locals
  BY DEF TypeOK, Locals
<1>3. LocalInv'
  BY <1>1, <1>2 DEF Cleared, LocalInv, BindingInv, Locals
<1>4. wiped' \subseteq Bindings /\ UNCHANGED portal
  BY DEF TypeOK, Identity, Tokens
<1>5. FreshInv'
  BY <1>1, <1>4, LinkAssumption DEF FreshInv, BindingInv
<1>6. WipedInv'
  BY <1>1, <1>4, LinkAssumption DEF WipedInv
<1> QED
  BY <1>1, <1>3, <1>5, <1>6 DEF BindingInv, SavedInv, LimboInv

\* handleRevoke, whether it pumps or wipes at once.
LEMMA BindingRevoked ==
  ASSUME TypeOK, BindingInv, BeginRevoke
  PROVE  BindingInv'
<1>1. CASE Wipe
  BY <1>1, BindingWiped
<1>2. CASE revoking' = TRUE /\ UNCHANGED <<envVars, memVars, outer, mqttVars, state,
                                           pairing, mcu, local, keptVars>>
  BY <1>2, BindingFramed
<1> QED
  BY <1>1, <1>2 DEF BeginRevoke

\* An activation gives the device a secret nobody has had.
LEMMA BindingActivated ==
  ASSUME TypeOK, BindingInv, ActivateSucceeds
  PROVE  BindingInv'
<1> USE DEF ActivateSucceeds
<1>1. pairing \in Bindings /\ id.token = None /\ local.token = None
  BY ActivationIsFirst
<1>2. id'.token = pairing /\ id'.deviceId = pairing /\ nvs' = id' /\ pairing' = None
  BY DEF TypeOK, Identity
<1>3. portal[pairing] = "free" /\ portal' = [portal EXCEPT ![pairing] = "active"]
  BY DEF Activated
<1>4. LocalInv'
  BY <1>1, <1>2, LinkAssumption DEF LocalInv, BindingInv
<1>5. FreshInv'
  BY <1>1, <1>2, <1>3 DEF FreshInv, BindingInv, TypeOK
<1>6. WipedInv'
  BY <1>1, <1>2, <1>3 DEF WipedInv, FreshInv, BindingInv
<1>7. Bound'
  BY <1>1, <1>2, LinkAssumption DEF Bound
<1> QED
  BY <1>2, <1>4, <1>5, <1>6, <1>7 DEF BindingInv, SavedInv, LimboInv

\* The same with a power loss in the save: the secret is stored or it is not.
LEMMA BindingActivationLost ==
  ASSUME TypeOK, BindingInv, PowerLossWhileActivated
  PROVE  BindingInv'
<1> DEFINE new == [id EXCEPT !.token = pairing, !.deviceId = pairing]
<1>1. pairing \in Bindings /\ id.token = None
  BY ActivationIsFirst DEF PowerLossWhileActivated
<1>2. PICK stored \in PartlySaved(new) : Reboot(stored)
  BY DEF PowerLossWhileActivated
<1>3. portal[pairing] = "free" /\ portal' = [portal EXCEPT ![pairing] = "active"]
  BY DEF PowerLossWhileActivated, Activated
<1>4. stored.token \in {None, pairing}
  BY <1>1 DEF PartlySaved, TypeOK, BindingInv, SavedInv, Identity
<1>5. id' = stored /\ UNCHANGED wiped
  BY <1>2 DEF Reboot, PowerLossWhileActivated
<1>6. FreshInv'
  BY <1>1, <1>3, <1>4, <1>5, LinkAssumption DEF FreshInv, BindingInv, TypeOK
<1>7. None \notin wiped
  BY LinkAssumption DEF TypeOK
<1>8. pairing \notin wiped
  BY <1>1, <1>3 DEF FreshInv, BindingInv
<1>9. WipedInv'
  BY <1>4, <1>5, <1>7, <1>8 DEF WipedInv
<1> QED
  BY <1>2, <1>6, <1>9, BindingRebooted
\* PAIR_TOKEN and "pair" are taken only from a device without a secret, or, in
\* the iteration of an activation, beside a complete binding.
LEMMA BindingOffered ==
  ASSUME TypeOK, BindingInv, NEW b \in Bindings, PairByWire(b) \/ PairByWs(b)
  PROVE  BindingInv'
<1>1. id.token = None \/ Bound
  <2>1. CASE PairByWire(b)
    BY <2>1 DEF PairByWire
  <2>2. CASE PairByWs(b)
    BY <2>2 DEF PairByWs, LocalRuns, BindingInv, LocalInv, LimboInv
  <2> QED
    BY <2>1, <2>2
<1>2. UNCHANGED <<id, nvs, wiped, portal, local, outer>>
  BY DEF PairByWire, PairByWs
<1> QED
  BY <1>1, <1>2 DEF BindingInv, SavedInv, LocalInv, LimboInv, FreshInv, WipedInv, Bound

\* The local transport reads the token from NVS, or is handed it.
LEMMA BindingLocal ==
  ASSUME TypeOK, BindingInv,
         HandOver \/ StartLocal \/ WsLeave \/ \E b \in Bindings : WsAuth(b)
  PROVE  BindingInv'
<1>1. local \in Locals /\ id.token \in Tokens /\ nvs = id
  BY DEF TypeOK, Identity, Locals, BindingInv, SavedInv
<1>2. CASE HandOver
  BY <1>1, <1>2
  DEF HandOver, Locals, BindingInv, SavedInv, LocalInv, LimboInv, FreshInv, WipedInv, Bound
<1>3. CASE StartLocal
  BY <1>1, <1>3
  DEF StartLocal, Free, Locals, BindingInv, SavedInv, LocalInv, LimboInv, FreshInv,
      WipedInv, Bound
<1>4. CASE WsLeave
  BY <1>1, <1>4
  DEF WsLeave, Locals, BindingInv, SavedInv, LocalInv, LimboInv, FreshInv, WipedInv, Bound
<1>5. ASSUME NEW b \in Bindings, WsAuth(b) PROVE BindingInv'
  <2>1. LocalInv'
    BY <1>1, <1>5, LinkAssumption
    DEF WsAuth, LocalRuns, Locals, BindingInv, LocalInv, Tokens
  <2> QED
    BY <1>5, <2>1
    DEF WsAuth, BindingInv, SavedInv, LimboInv, FreshInv, WipedInv, Bound
<1> QED
  BY <1>2, <1>3, <1>4, <1>5

\* bind_ack changes the key of the identity, not its secret.
LEMMA BindingAcked ==
  ASSUME TypeOK, BindingInv, NEW m \in Mcus, HandleBindAck(m) \/ PowerLossInBindAck(m)
  PROVE  BindingInv'
<1>1. CASE HandleBindAck(m)
  <2>1. id'.token = id.token /\ id'.deviceId = id.deviceId /\ nvs' = id'
    BY <1>1 DEF HandleBindAck, TypeOK, Identity
  <2> QED
    BY <1>1, <2>1
    DEF HandleBindAck, BindingInv, SavedInv, LocalInv, LimboInv, FreshInv, WipedInv, Bound
<1>2. CASE PowerLossInBindAck(m)
  <2> DEFINE new == [id EXCEPT !.key = m]
  <2>1. PICK stored \in PartlySaved(new) : Reboot(stored)
    BY <1>2 DEF PowerLossInBindAck
  <2>2. new \in Identity /\ new.token = id.token
    BY DEF TypeOK, Identity
  <2>3. stored \in Identity
    BY <2>1, <2>2, SavedTypes
  <2>4. stored.token = id.token
    BY <2>1, <2>2 DEF PartlySaved, TypeOK, BindingInv, SavedInv, Identity
  <2> QED
    BY <1>2, <2>1, <2>3, <2>4, BindingRestarted DEF PowerLossInBindAck
<1> QED
  BY <1>1, <1>2

\* A wipe that power loss interrupts leaves the secret or none.
LEMMA ErasedTokens ==
  ASSUME TypeOK, BindingInv, NEW stored \in PartlySaved(NoIdentity)
  PROVE  stored.token \in {None, id.token}
<1>1. nvs = id /\ nvs \in Identity
  BY DEF TypeOK, BindingInv, SavedInv
<1>2. NoIdentity.token = None /\ NoIdentity.deviceId = None
  BY DEF NoIdentity
<1>3. [nvs EXCEPT !.token = None].token = None
  BY <1>1 DEF Identity
<1>4. [nvs EXCEPT !.token = None, !.deviceId = None].token = None
  BY <1>1 DEF Identity
<1> QED
  BY <1>1, <1>2, <1>3, <1>4 DEF PartlySaved

\* A wipe that power loss interrupts, and eraseClaimAndRestart.
LEMMA BindingErased ==
  ASSUME TypeOK, BindingInv, PowerLossInWipe \/ EraseClaimAndRestart
  PROVE  BindingInv'
<1>1. None \notin wiped /\ id.token \in Tokens
  BY LinkAssumption DEF TypeOK, Identity
<1>2. CASE PowerLossInWipe
  <2>1. PICK stored \in PartlySaved(NoIdentity) :
          /\ Reboot(stored)
          /\ wiped' = IF stored.token = None THEN wiped \cup ({id.token} \ {None}) ELSE wiped
    BY <1>2 DEF PowerLossInWipe
  <2>2. stored.token \in {None, id.token}
    BY <2>1, ErasedTokens
  <2>3. id' = stored /\ UNCHANGED portal
    BY <1>2, <2>1 DEF PowerLossInWipe, Reboot
  <2>4. FreshInv'
    BY <2>1, <2>2, <2>3, LinkAssumption DEF FreshInv, BindingInv
  <2>5. WipedInv'
    BY <1>1, <2>1, <2>2, <2>3 DEF WipedInv, BindingInv
  <2> QED
    BY <2>1, <2>4, <2>5, BindingRebooted
<1>3. CASE EraseClaimAndRestart
  <2>1. Reboot(NoIdentity) /\ id'.token = None /\ UNCHANGED portal
    BY <1>3 DEF EraseClaimAndRestart, Reboot, NoIdentity
  <2>2. wiped' = wiped \cup ({id.token} \ {None})
    BY <1>3 DEF EraseClaimAndRestart
  <2>3. FreshInv'
    BY <2>1, <2>2, LinkAssumption DEF FreshInv, BindingInv
  <2>4. WipedInv'
    BY <1>1, <2>1, <2>2 DEF WipedInv
  <2> QED
    BY <2>1, <2>3, <2>4, BindingRebooted
<1> QED
  BY <1>2, <1>3

\* The portal moves a binding on; it never frees one.
LEMMA BindingAtPortal ==
  ASSUME TypeOK, BindingInv, UNCHANGED <<id, nvs, wiped, local, outer, pairing>>,
         NEW b, NEW s \in {"active", "revoking", "closed"},
         portal' = [portal EXCEPT ![b] = s]
  PROVE  BindingInv'
BY DEF TypeOK, BindingInv, SavedInv, LocalInv, LimboInv, FreshInv, WipedInv, Bound

\* Every step keeps the invariant of the binding.
LEMMA BindingStep ==
  ASSUME TypeOK, BindingInv, [Next]_vars
  PROVE  BindingInv'
<1>1. CASE Lifecycle
  <2>1. CASE WifiUp \/ WifiDown
    BY <2>1, BindingFramed DEF WifiUp, WifiDown
  <2>2. CASE HandleWifiConnecting \/ HandleWaitingForMcuSerial \/ HandleProvisioning
    BY <2>2, BindingFramed
    DEF HandleWifiConnecting, HandleWaitingForMcuSerial, HandleProvisioning
  <2>3. CASE ActivateUnanswered
    BY <2>3, BindingAtPortal DEF ActivateUnanswered, Activated
  <2>4. CASE ActivateRefused \/ HandleReady
    BY <2>4, BindingFramed DEF ActivateRefused, HandleReady
  <2> QED
    BY <1>1, <2>1, <2>2, <2>3, <2>4, BindingActivated, BindingActivationLost, BindingLocal
    DEF Lifecycle
<1>2. CASE Connection
  <2>1. CASE HandleMqttConnecting
    BY <2>1, BindingFramed DEF HandleMqttConnecting, Free
  <2>2. CASE MqttUp \/ MqttNotDue \/ MqttAttempt
    BY <2>2, BindingFramed DEF MqttUp, MqttNotDue, MqttAttempt, Returning
  <2>3. CASE HandleOnline \/ BrokerForgets
    BY <2>3, BindingFramed DEF HandleOnline, BrokerForgets
  <2>4. CASE HandshakeDone \/ SubscribeFails \/ HandshakeRefused \/ ConnLost \/ CloseDone
    BY <2>4, BindingFramed
    DEF HandshakeDone, SubscribeFails, HandshakeRefused, ConnLost, CloseDone, ClientStep
  <2> QED
    BY <1>2, <2>1, <2>2, <2>3, <2>4 DEF Connection
<1>3. CASE Pairing
  <2>1. ASSUME NEW b \in Bindings, PortalUnbind(b) PROVE BindingInv'
    BY <2>1, BindingAtPortal DEF PortalUnbind
  <2>2. ASSUME NEW m \in Mcus, SetMcuSerial(m) PROVE BindingInv'
    BY <2>2, BindingFramed DEF SetMcuSerial
  <2> QED
    BY <1>3, <2>1, <2>2, BindingLocal, BindingOffered, BindingAcked DEF Pairing
<1>4. CASE Revocation
  <2>1. CASE RevokeByWire \/ RevokeByWs \/ RevokeByMqtt
    BY <2>1, BindingRevoked DEF RevokeByWire, RevokeByWs, RevokeByMqtt
  <2>2. CASE RevokeAckDelivered
    BY <2>2, BindingAtPortal DEF RevokeAckDelivered
  <2>3. CASE SetIgnoreExternalCmd
    BY <2>3, BindingFramed DEF SetIgnoreExternalCmd
  <2> QED
    BY <1>4, <2>1, <2>2, <2>3, BindingWiped, BindingErased DEF Revocation, RevokeWipe
<1>5. CASE Restarting
  <2>1. CASE FlushBegin
    BY <2>1, BindingFramed DEF FlushBegin, Free
  <2>2. CASE FlushDisconnect
    BY <2>2, BindingFramed DEF FlushDisconnect
  <2>3. CASE FlushRestart \/ PowerLoss
    <3>1. nvs \in Identity /\ nvs.token = id.token
      BY DEF TypeOK, BindingInv, SavedInv
    <3> QED
      BY <2>3, <3>1, BindingRestarted DEF FlushRestart, PowerLoss
  <2> QED
    BY <1>5, <2>1, <2>2, <2>3 DEF Restarting
<1>6. CASE UNCHANGED vars
  BY <1>6, BindingFramed DEF vars
<1> QED
  BY <1>1, <1>2, <1>3, <1>4, <1>5, <1>6 DEF Next

\* The binding holds together at all times: RAM agrees with NVS, the local
\* transport with both, a pairing token never waits beside an incomplete
\* binding, and neither an unused token nor a wiped secret is the one in use.
THEOREM BindingCorrect == Spec => [](TypeOK /\ BindingInv)
<1>1. Init => BindingInv
  BY LinkAssumption
  DEF Init, NoIdentity, LocalOff, BindingInv, SavedInv, LocalInv, LimboInv, FreshInv,
      WipedInv
<1>2. TypeOK /\ BindingInv /\ [Next]_vars => BindingInv'
  BY BindingStep
<1> QED
  BY <1>1, <1>2, LinkTypes, PTL DEF Spec

\* The local transport follows the identity, whatever is interrupted by what
\* (iDryer.cpp:803-805 and 1230-1238).
THEOREM LocalFollows == Spec => []LocalFollowsIdentity
<1>1. TypeOK /\ BindingInv => LocalFollowsIdentity
  BY DEF BindingInv, LocalInv, LocalFollowsIdentity
<1> QED
  BY <1>1, BindingCorrect, PTL

\* A secret the device was told to forget does not come back
\* (cloud_state_machine.cpp:190-194).
THEOREM WipedStaysWiped == Spec => []SecretStaysWiped
<1>1. TypeOK /\ BindingInv => SecretStaysWiped
  <2> SUFFICES ASSUME TypeOK, BindingInv PROVE SecretStaysWiped
    OBVIOUS
  <2>1. None \notin wiped
    BY LinkAssumption DEF TypeOK
  <2>2. local.token \in {None, id.token} /\ nvs = id /\ id.token \notin wiped
    BY DEF BindingInv, LocalInv, SavedInv, WipedInv
  <2> QED
    BY <2>1, <2>2 DEF SecretStaysWiped
<1> QED
  BY <1>1, BindingCorrect, PTL

\* A restart that takes the identity from NVS keeps the secret.
LEMMA KeptByReboot ==
  ASSUME TypeOK, BindingInv, NEW stored, Reboot(stored), stored.token = id.token
  PROVE  id'.token = id.token
BY DEF Reboot

----------------------------------------------------------------------------
(***************************************************************************)
(* The connection attempt.  handleMqttConnecting looks at the state before *)
(* it calls MqttClient::loop and not again after it.  Inside the call the  *)
(* state is left in one way only, by a REVOKE, and that has closed the     *)
(* connection and erased the identity by the time the attempt goes on.     *)
(***************************************************************************)

\* Where a suspended attempt can be.
AttemptState ==
  \/ state = "MqttConnecting"
  \/ state = "Provisioning" /\ id = NoIdentity /\ client.conn \in {"closing", "idle"}

\* A client that has a secret has one of a complete binding, one that is driven is
\* set up, a connection in the making or up belongs to a complete binding, and
\* while the acknowledgement of a REVOKE is pumped out no connection is made.
AttemptInv ==
  /\ ClientHasNoOtherSecret
  /\ mqttInit /\ client.token # None => Bound
  /\ client.ready => mqttInit
  /\ client.conn = "connected" => client.ready
  /\ client.ready /\ client.conn \in {"connecting", "connected"} => Bound
  /\ revoking => client.conn # "connecting"
  /\ outer = "attempt" => AttemptState

USE DEF AttemptState

\* A step that leaves the client and the identity alone, and a suspended attempt
\* the state.
LEMMA AttemptFramed ==
  ASSUME AttemptInv, UNCHANGED <<id, mqttInit, client>>, revoking' => revoking,
         state' \in {"MqttConnecting", "Online"} => Bound \/ state' = state,
         outer' = "attempt" => state' = state /\ outer = "attempt"
  PROVE  AttemptInv'
BY DEF AttemptInv, ClientHasNoOtherSecret, Bound

\* After a restart no client is set up.
LEMMA AttemptRebooted ==
  ASSUME NEW stored, Reboot(stored) PROVE AttemptInv'
BY DEF Reboot, AttemptInv, ClientHasNoOtherSecret, ClientOff

\* A client that is disconnected is no longer driven or connected.
LEMMA DisconnectedOff ==
  ASSUME TypeOK
  PROVE  /\ ~Disconnected(client).ready /\ Disconnected(client).conn # "connected"
         /\ Disconnected(client).key = client.key
         /\ Disconnected(client).token = client.token
         /\ Disconnected(client).conn \in {client.conn, "closing"}
BY DEF Disconnected, TypeOK, Connections

\* The client library changes the connection only, and of a driven client: it
\* makes none of one that was not being made.
LEMMA AttemptConn ==
  ASSUME TypeOK, AttemptInv, client.ready, UNCHANGED <<id, mqttInit, state, outer, revoking>>,
         NEW k \in Connections, client' = [client EXCEPT !.conn = k],
         k \in {"connecting", "connected"} => client.conn = "connecting" /\ k = "connected"
  PROVE  AttemptInv'
<1>1. /\ client'.conn = k /\ client'.token = client.token /\ client'.key = client.key
      /\ client'.ready = client.ready
  BY DEF TypeOK
<1> QED
  BY <1>1 DEF AttemptInv, ClientHasNoOtherSecret, Bound, Connections

\* The wipe takes the client down with the identity.
LEMMA AttemptWiped ==
  ASSUME TypeOK, AttemptInv, Wipe, outer = "attempt" => client.conn # "connecting"
  PROVE  AttemptInv'
<1>1. /\ client' = Disconnected(client) /\ mqttInit' = FALSE /\ state' = "Provisioning"
      /\ id' = NoIdentity /\ revoking' = FALSE /\ outer' = outer
  BY DEF Wipe, WipeWriting, SetState
<1>2. outer = "attempt" => client'.conn \in {"closing", "idle"}
  BY <1>1, DisconnectedOff DEF TypeOK, Connections
<1> QED
  BY <1>1, <1>2, DisconnectedOff DEF AttemptInv, ClientHasNoOtherSecret

\* handleRevoke, called with a connection that is up or outside an attempt.
LEMMA AttemptRevoked ==
  ASSUME TypeOK, AttemptInv, BeginRevoke, outer = "attempt" => client.conn = "connected"
  PROVE  AttemptInv'
<1>1. CASE Wipe
  BY <1>1, AttemptWiped
<1>2. CASE client.conn = "connected" /\ UNCHANGED <<id, mqttInit, client, state, outer>>
  BY <1>2 DEF AttemptInv, ClientHasNoOtherSecret, Bound
<1> QED
  BY <1>1, <1>2 DEF BeginRevoke

\* An attempt sets the client up with the identity there is, or with none.
LEMMA AttemptTried ==
  ASSUME TypeOK, AttemptInv, MqttAttempt PROVE AttemptInv'
<1> DEFINE c == IF mqttInit THEN client ELSE Begun(client)
<1>1. /\ UNCHANGED <<id, state, revoking>> /\ mqttInit' = TRUE /\ client' = Connected(c)
      /\ outer = "attempt" /\ ~revoking /\ outer' = "none" /\ client.conn # "connected"
  BY DEF MqttAttempt, Returning
<1>2. /\ c \in Clients /\ c.conn = client.conn
      /\ mqttInit => c = client
      /\ ~mqttInit => c.token = id.token /\ c.key = id.deviceId
  BY DEF Begun, TypeOK, Clients, Identity
<1>3. Bound \/ id.token = None
  BY <1>1 DEF AttemptInv, ClientHasNoOtherSecret, NoIdentity
<1>4. c.token # None => Bound /\ c.token = id.token /\ c.key = id.deviceId
  BY <1>2, <1>3 DEF AttemptInv, ClientHasNoOtherSecret
<1>5. c.conn = "connecting" /\ c.ready => Bound
  BY <1>1, <1>2 DEF AttemptInv, ClientHasNoOtherSecret
<1> HIDE DEF c
<1>6. /\ client'.token = c.token /\ client'.key = c.key /\ client'.ready = c.ready
      /\ client'.conn = c.conn \/ (client'.conn = "connecting" /\ c.token # None)
  BY <1>1, <1>2 DEF Connected, Clients
<1>7. Bound' <=> Bound
  BY <1>1 DEF Bound
<1> QED
  BY <1>1, <1>2, <1>4, <1>5, <1>6, <1>7 DEF AttemptInv, ClientHasNoOtherSecret

\* Every step keeps the invariant of the attempt.
LEMMA AttemptStep ==
  ASSUME TypeOK, AttemptInv, [Next]_vars
  PROVE  AttemptInv'
<1>1. CASE Lifecycle
  <2>1. CASE ActivateSucceeds
    <3>1. /\ ~Bound /\ UNCHANGED <<mqttInit, client, revoking>>
          /\ state' = "Ready" /\ outer' = "handover"
      BY <2>1 DEF ActivateSucceeds, MayActivate, SetState
    <3> QED
      BY <3>1 DEF AttemptInv, ClientHasNoOtherSecret
  <2>2. CASE PowerLossWhileActivated
    BY <2>2, AttemptRebooted DEF PowerLossWhileActivated
  <2>3. CASE HandleReady
    BY <2>3, AttemptFramed DEF HandleReady, SetState, Free
  <2> QED
    BY <1>1, <2>1, <2>2, <2>3, AttemptFramed
    DEF Lifecycle, WifiUp, WifiDown, HandleWifiConnecting, HandleWaitingForMcuSerial,
        HandleProvisioning, ActivateUnanswered, ActivateRefused, HandOver, SetState, Free
<1>2. CASE Connection
  <2>1. CASE MqttUp
    <3>1. Bound
      BY <2>1 DEF MqttUp, Returning, AttemptInv, ClientHasNoOtherSecret
    <3> QED
      BY <2>1, <3>1, AttemptFramed DEF MqttUp, Returning, SetState
  <2>2. CASE HandleOnline
    <3>1. Bound
      BY <2>2 DEF HandleOnline, AttemptInv, ClientHasNoOtherSecret
    <3> QED
      BY <2>2, <3>1, AttemptFramed DEF HandleOnline, SetState, Free
  <2>3. CASE HandshakeDone \/ SubscribeFails \/ HandshakeRefused \/ ConnLost \/ CloseDone
    <3>1. client.ready /\ UNCHANGED <<id, mqttInit, state, outer, revoking>>
      BY <2>3
      DEF HandshakeDone, SubscribeFails, HandshakeRefused, ConnLost, CloseDone,
          ClientStep, Pumping
    <3>2. PICK k \in Connections :
            /\ client' = [client EXCEPT !.conn = k]
            /\ k \in {"connecting", "connected"} => client.conn = "connecting" /\ k = "connected"
      BY <2>3
      DEF HandshakeDone, SubscribeFails, HandshakeRefused, ConnLost, CloseDone,
          ClientStep, Connections
    <3> QED
      BY <3>1, <3>2, AttemptConn
  <2>4. CASE HandleMqttConnecting
    BY <2>4 DEF HandleMqttConnecting, SetState, Free, AttemptInv, ClientHasNoOtherSecret, Bound
  <2> QED
    BY <1>2, <2>1, <2>2, <2>3, <2>4, AttemptTried, AttemptFramed
    DEF Connection, MqttNotDue, Returning, BrokerForgets
<1>3. CASE Pairing
  <2>1. ASSUME NEW m \in Mcus, HandleBindAck(m) PROVE AttemptInv'
    <3>1. Bound /\ client.conn = "connected"
      BY <2>1 DEF HandleBindAck, BindAckFor, Receiving, Pumping, AttemptInv
    <3>2. id' = [id EXCEPT !.key = m]
      BY <2>1 DEF HandleBindAck
    <3>3. Bound'
      BY <3>1, <3>2 DEF Bound, TypeOK, Identity
    <3>4. client' = Disconnected(client) /\ mqttInit' = FALSE /\ state' = "MqttConnecting"
      BY <2>1 DEF HandleBindAck, SetState
    <3> QED
      BY <3>1, <3>3, <3>4, DisconnectedOff DEF AttemptInv, ClientHasNoOtherSecret
  <2>2. ASSUME NEW m \in Mcus, PowerLossInBindAck(m) PROVE AttemptInv'
    BY <2>2, AttemptRebooted DEF PowerLossInBindAck
  <2>3. ASSUME NEW m \in Mcus, SetMcuSerial(m) PROVE AttemptInv'
    BY <2>3, AttemptFramed DEF SetMcuSerial, SetState, Free
  <2> QED
    BY <1>3, <2>1, <2>2, <2>3, AttemptFramed
    DEF Pairing, StartLocal, WsLeave, PairByWire, PairByWs, WsAuth, PortalUnbind, Free
<1>4. CASE Revocation
  <2>1. CASE RevokeByWire \/ RevokeByWs
    BY <2>1, AttemptRevoked DEF RevokeByWire, RevokeByWs, Free, LocalRuns
  <2>2. CASE RevokeByMqtt
    BY <2>2, AttemptRevoked DEF RevokeByMqtt, RevokeHeard, Receiving
  <2>3. CASE RevokeWipe
    BY <2>3, AttemptWiped DEF RevokeWipe, AttemptInv
  <2> QED
    BY <1>4, <2>1, <2>2, <2>3, AttemptRebooted, AttemptFramed
    DEF Revocation, RevokeAckDelivered, PowerLossInWipe, EraseClaimAndRestart,
        SetIgnoreExternalCmd
<1>5. CASE Restarting
  <2>1. CASE FlushDisconnect
    BY <2>1, DisconnectedOff
    DEF FlushDisconnect, AttemptInv, ClientHasNoOtherSecret, Bound
  <2> QED
    BY <1>5, <2>1, AttemptRebooted, AttemptFramed
    DEF Restarting, FlushBegin, FlushRestart, PowerLoss
<1>6. CASE UNCHANGED vars
  BY <1>6, AttemptFramed DEF vars
<1> QED
  BY <1>1, <1>2, <1>3, <1>4, <1>5, <1>6 DEF Next

\* The invariant of the attempt, whatever runs inside it.
THEOREM AttemptHolds == Spec => [](TypeOK /\ AttemptInv)
<1>1. Init => AttemptInv
  BY DEF Init, ClientOff, AttemptInv, ClientHasNoOtherSecret
<1>2. TypeOK /\ AttemptInv /\ [Next]_vars => AttemptInv'
  BY AttemptStep
<1> QED
  BY <1>1, <1>2, LinkTypes, PTL DEF Spec

\* The client never has a secret other than the device's, nor a secret beside the
\* device id of another binding, and the device is at the broker or on its way only
\* with a complete binding (cloud_state_machine.cpp:202, 237, 301-305).
THEOREM ClientSecretIsOwn == Spec => []ClientHasNoOtherSecret
<1>1. AttemptInv => ClientHasNoOtherSecret
  BY DEF AttemptInv
<1> QED
  BY <1>1, AttemptHolds, PTL

\* setState closes the radio window when the attempt is left.
LEMMA RadioSet ==
  ASSUME RadioWindow, NEW s, SetState(s)
  PROVE  RadioWindow'
BY DEF SetState, RadioWindow

\* Every step but an attempt keeps the radio mark inside the attempt.
LEMMA RadioStep ==
  ASSUME RadioWindow, [Next]_vars, ~MqttAttempt
  PROVE  RadioWindow'
<1>1. CASE Lifecycle
  BY <1>1, RadioSet
  DEF Lifecycle, WifiUp, WifiDown, HandleWifiConnecting, HandleWaitingForMcuSerial,
      HandleProvisioning, ActivateSucceeds, PowerLossWhileActivated, Reboot,
      ActivateUnanswered, ActivateRefused, HandOver, HandleReady, RadioWindow
<1>2. CASE Connection
  <2>1. CASE MqttNotDue
    BY <2>1 DEF MqttNotDue, RadioWindow
  <2> QED
    BY <1>2, <2>1, RadioSet
    DEF Connection, HandleMqttConnecting, MqttUp, HandleOnline, HandshakeDone,
        SubscribeFails, HandshakeRefused, ConnLost, CloseDone, ClientStep, BrokerForgets,
        RadioWindow
<1>3. CASE Pairing
  BY <1>3, RadioSet
  DEF Pairing, StartLocal, WsLeave, PairByWire, PairByWs, WsAuth, PortalUnbind,
      SetMcuSerial, HandleBindAck, PowerLossInBindAck, Reboot, RadioWindow
<1>4. CASE Revocation
  BY <1>4, RadioSet
  DEF Revocation, RevokeByWire, RevokeByWs, RevokeByMqtt, BeginRevoke, Wipe, WipeWriting,
      RevokeAckDelivered, RevokeWipe, PowerLossInWipe, EraseClaimAndRestart,
      SetIgnoreExternalCmd, Reboot, RadioWindow
<1>5. CASE Restarting
  BY <1>5
  DEF Restarting, FlushBegin, FlushDisconnect, FlushRestart, PowerLoss, Reboot, RadioWindow
<1>6. CASE UNCHANGED vars
  BY <1>6 DEF vars, RadioWindow
<1> QED
  BY <1>1, <1>2, <1>3, <1>4, <1>5, <1>6 DEF Next

\* The radio mark outlives a connection attempt in one way only: a REVOKE was
\* carried out inside the attempt, which went on all the same
\* (cloud_state_machine.cpp:246-310 and 463-467).
THEOREM RadioMarkOutlives == Spec => RadioOutlivesOnlyRevoke
<1>1. ASSUME TypeOK, AttemptInv, [Next]_vars
      PROVE  [RadioWindow /\ ~RadioWindow' =>
                outer = "attempt" /\ state = "Provisioning" /\ id = NoIdentity]_vars
  <2>1. CASE MqttAttempt
    <3>1. outer = "attempt" /\ state' = state
      BY <2>1 DEF MqttAttempt, Returning
    <3> QED
      BY <1>1, <3>1 DEF AttemptInv, RadioWindow
  <2>2. CASE ~MqttAttempt
    BY <1>1, <2>2, RadioStep
  <2> QED
    BY <2>1, <2>2
<1> QED
  BY <1>1, AttemptHolds, PTL DEF Spec, RadioOutlivesOnlyRevoke

-----------------------------------------------------------------------------
(***************************************************************************)
(* The refinement of Ownership.  Beside the invariant of the binding it    *)
(* needs one thing: a session at the broker was opened with a secret the   *)
(* portal has issued, so that the acknowledgement of a REVOKE closes an    *)
(* issued binding and never takes a token that nobody has used.            *)
(***************************************************************************)

Issued == {b \in Bindings : portal[b] # "free"}

LoginInv == client.conn = "connected" => client.login \in Issued

LEMMA LoginFramed ==
  ASSUME LoginInv, UNCHANGED portal,
         client'.conn = "connected" => client.conn = "connected" /\ client'.login = client.login
  PROVE  LoginInv'
BY DEF LoginInv, Issued

\* The portal moves a binding on; it never frees one.
LEMMA LoginAtPortal ==
  ASSUME TypeOK, LoginInv, UNCHANGED client, NEW b, NEW s \in {"active", "revoking", "closed"},
         portal' = [portal EXCEPT ![b] = s]
  PROVE  LoginInv'
BY DEF TypeOK, LoginInv, Issued

LEMMA LoginRebooted ==
  ASSUME NEW stored, Reboot(stored) PROVE LoginInv'
BY DEF Reboot, ClientOff, LoginInv

LEMMA LoginWiped == ASSUME TypeOK, LoginInv, Wipe PROVE LoginInv'
<1>1. client' = Disconnected(client) /\ UNCHANGED portal
  BY DEF Wipe, WipeWriting
<1> QED
  BY <1>1, DisconnectedOff DEF LoginInv

\* A login the broker accepts is a binding of the portal.
LEMMA LoginAccepted == ASSUME TypeOK, HandshakeDone PROVE LoginInv'
<1>1. client.login \in Bindings /\ portal[client.login] \in {"active", "revoking"}
        /\ UNCHANGED portal /\ client' = [client EXCEPT !.conn = "connected"]
  BY DEF HandshakeDone, Accepted, ClientStep
<1>2. client'.login = client.login
  BY <1>1 DEF TypeOK
<1> QED
  BY <1>1, <1>2 DEF LoginInv, Issued

LEMMA LoginTried == ASSUME TypeOK, LoginInv, MqttAttempt PROVE LoginInv'
<1> DEFINE c == IF mqttInit THEN client ELSE Begun(client)
<1>1. UNCHANGED portal /\ client' = Connected(c) /\ client.conn # "connected"
  BY DEF MqttAttempt
<1>2. c \in Clients /\ c.conn = client.conn
  BY DEF Begun, TypeOK, Clients, Identity
<1>3. client'.conn # "connected"
  BY <1>1, <1>2 DEF Connected, Clients
<1> QED
  BY <1>3 DEF LoginInv

LEMMA LoginStep ==
  ASSUME TypeOK, LoginInv, [Next]_vars PROVE LoginInv'
<1>1. CASE Lifecycle
  <2>1. CASE ActivateSucceeds \/ ActivateUnanswered
    BY <2>1, LoginAtPortal DEF ActivateSucceeds, ActivateUnanswered, Activated
  <2>2. CASE PowerLossWhileActivated
    BY <2>2, LoginRebooted DEF PowerLossWhileActivated
  <2> QED
    BY <1>1, <2>1, <2>2, LoginFramed
    DEF Lifecycle, WifiUp, WifiDown, HandleWifiConnecting, HandleWaitingForMcuSerial,
        HandleProvisioning, ActivateRefused, HandOver, HandleReady
<1>2. CASE Connection
  <2>1. CASE SubscribeFails \/ HandshakeRefused \/ ConnLost \/ CloseDone
    <3>1. client'.conn # "connected" /\ UNCHANGED portal
      BY <2>1 DEF SubscribeFails, HandshakeRefused, ConnLost, CloseDone, ClientStep, TypeOK
    <3> QED
      BY <3>1 DEF LoginInv
  <2> QED
    BY <1>2, <2>1, LoginAccepted, LoginTried, LoginFramed
    DEF Connection, HandleMqttConnecting, MqttUp, MqttNotDue, HandleOnline, BrokerForgets
<1>3. CASE Pairing
  <2>1. ASSUME NEW m \in Mcus, HandleBindAck(m) PROVE LoginInv'
    <3>1. client' = Disconnected(client)
      BY <2>1 DEF HandleBindAck
    <3> QED
      BY <3>1, DisconnectedOff DEF LoginInv
  <2>2. ASSUME NEW m \in Mcus, PowerLossInBindAck(m) PROVE LoginInv'
    BY <2>2, LoginRebooted DEF PowerLossInBindAck
  <2>3. ASSUME NEW b \in Bindings, PortalUnbind(b) PROVE LoginInv'
    BY <2>3, LoginAtPortal DEF PortalUnbind
  <2> QED
    BY <1>3, <2>1, <2>2, <2>3, LoginFramed
    DEF Pairing, StartLocal, WsLeave, PairByWire, PairByWs, WsAuth, SetMcuSerial
<1>4. CASE Revocation
  <2>1. CASE RevokeAckDelivered
    BY <2>1, LoginAtPortal DEF RevokeAckDelivered
  <2> QED
    BY <1>4, <2>1, LoginWiped, LoginRebooted, LoginFramed
    DEF Revocation, RevokeByWire, RevokeByWs, RevokeByMqtt, BeginRevoke, RevokeWipe,
        PowerLossInWipe, EraseClaimAndRestart, SetIgnoreExternalCmd
<1>5. CASE Restarting
  <2>1. CASE FlushDisconnect
    BY <2>1, DisconnectedOff DEF FlushDisconnect, LoginInv
  <2> QED
    BY <1>5, <2>1, LoginRebooted, LoginFramed
    DEF Restarting, FlushBegin, FlushRestart, PowerLoss
<1>6. CASE UNCHANGED vars
  BY <1>6, LoginFramed DEF vars
<1> QED
  BY <1>1, <1>2, <1>3, <1>4, <1>5, <1>6 DEF Next

\* What a step does to the owner of the device.
Still == UNCHANGED <<id.token, wiped, Issued>>
OwnStep == Own!OwnershipNext \/ Still

LEMMA StandsStill ==
  ASSUME UNCHANGED portal, UNCHANGED wiped, id'.token = id.token PROVE OwnStep
BY DEF OwnStep, Still, Issued

\* An activation issues a binding: the device has it afterwards, or nobody ever will.
LEMMA ActivationIssues ==
  ASSUME TypeOK, BindingInv, MayActivate, Activated(pairing), UNCHANGED wiped,
         id'.token \in {None, pairing}
  PROVE  OwnStep
<1>1. pairing \in Bindings /\ id.token = None
  BY ActivationIsFirst
<1>2. pairing \notin Issued
  BY DEF Issued, Activated
<1>3. Issued' = Issued \cup {pairing}
  BY <1>1 DEF Issued, Activated, TypeOK
<1>4. PICK b \in Bindings : b = pairing
  BY <1>1
<1>5. Own!Issue(b)
  <2>1. wiped' = wiped
    OBVIOUS
  <2> QED
    BY <1>1, <1>2, <1>3, <1>4, <2>1 DEF Own!Issue, Issued
<1> QED
  BY <1>5 DEF OwnStep, Own!OwnershipNext

\* A wipe forgets the binding, if there is one.
LEMMA WipeForgets ==
  ASSUME UNCHANGED portal, id'.token = None, wiped' = wiped \cup ({id.token} \ {None})
  PROVE  OwnStep
<1>1. Issued' = Issued
  BY DEF Issued
<1>2. CASE id.token = None
  BY <1>1, <1>2 DEF OwnStep, Still
<1>3. CASE id.token # None
  BY <1>1, <1>3 DEF OwnStep, Own!OwnershipNext, Own!Forget, Issued
<1> QED
  BY <1>2, <1>3

\* The portal's own steps with a binding that has been issued.
LEMMA PortalMovesOn ==
  ASSUME TypeOK, NEW b \in Issued, NEW s \in {"active", "revoking", "closed"},
         portal' = [portal EXCEPT ![b] = s], UNCHANGED <<id, wiped>>
  PROVE  OwnStep
BY DEF OwnStep, Still, Issued, TypeOK

LEMMA OwnershipStep ==
  ASSUME TypeOK, BindingInv, LoginInv, [Next]_vars PROVE OwnStep
<1>1. CASE Lifecycle
  <2>1. CASE ActivateSucceeds
    <3>1. id'.token = pairing
      BY <2>1 DEF ActivateSucceeds, TypeOK, Identity
    <3> QED
      BY <2>1, <3>1, ActivationIssues DEF ActivateSucceeds
  <2>2. CASE PowerLossWhileActivated
    <3> DEFINE new == [id EXCEPT !.token = pairing, !.deviceId = pairing]
    <3>1. PICK stored \in PartlySaved(new) : Reboot(stored)
      BY <2>2 DEF PowerLossWhileActivated
    <3>2. id.token = None
      BY <2>2, ActivationIsFirst DEF PowerLossWhileActivated
    <3>3. stored.token \in {None, pairing}
      BY <3>1, <3>2 DEF PartlySaved, TypeOK, BindingInv, SavedInv, Identity
    <3>4. id' = stored
      BY <3>1 DEF Reboot
    <3> QED
      BY <2>2, <3>3, <3>4, ActivationIssues DEF PowerLossWhileActivated
  <2>3. CASE ActivateUnanswered
    <3>1. id.token = None
      BY <2>3, ActivationIsFirst DEF ActivateUnanswered
    <3> QED
      BY <2>3, <3>1, ActivationIssues DEF ActivateUnanswered
  <2> QED
    BY <1>1, <2>1, <2>2, <2>3, StandsStill
    DEF Lifecycle, WifiUp, WifiDown, HandleWifiConnecting, HandleWaitingForMcuSerial,
        HandleProvisioning, ActivateRefused, HandOver, HandleReady
<1>2. CASE Connection
  BY <1>2, StandsStill
  DEF Connection, HandleMqttConnecting, MqttUp, MqttNotDue, MqttAttempt,
      HandleOnline, HandshakeDone, SubscribeFails, HandshakeRefused, ConnLost, CloseDone,
      ClientStep, BrokerForgets
<1>3. CASE Pairing
  <2>1. ASSUME NEW m \in Mcus, HandleBindAck(m) PROVE OwnStep
    <3>1. id'.token = id.token
      BY <2>1 DEF HandleBindAck, TypeOK, Identity
    <3> QED
      BY <2>1, <3>1, StandsStill DEF HandleBindAck
  <2>2. ASSUME NEW m \in Mcus, PowerLossInBindAck(m) PROVE OwnStep
    <3> DEFINE new == [id EXCEPT !.key = m]
    <3>1. PICK stored \in PartlySaved(new) : Reboot(stored)
      BY <2>2 DEF PowerLossInBindAck
    <3>2. new.token = id.token
      BY DEF TypeOK, Identity
    <3>3. stored.token = id.token
      BY <3>1, <3>2 DEF PartlySaved, TypeOK, BindingInv, SavedInv, Identity
    <3> QED
      BY <2>2, <3>1, <3>3, KeptByReboot, StandsStill DEF PowerLossInBindAck
  <2>3. ASSUME NEW b \in Bindings, PortalUnbind(b) PROVE OwnStep
    <3>1. b \in Issued
      BY <2>3 DEF PortalUnbind, Issued
    <3> QED
      BY <2>3, <3>1, PortalMovesOn DEF PortalUnbind
  <2> QED
    BY <1>3, <2>1, <2>2, <2>3, StandsStill
    DEF Pairing, StartLocal, WsLeave, PairByWire, PairByWs, WsAuth, SetMcuSerial
<1>4. CASE Revocation
  <2>1. CASE Wipe
    <3>1. id'.token = None /\ wiped' = wiped \cup ({id.token} \ {None}) /\ UNCHANGED portal
      BY <2>1 DEF Wipe, WipeWriting, NoIdentity
    <3> QED
      BY <3>1, WipeForgets
  <2>2. CASE RevokeAckDelivered
    <3>1. client.login \in Issued
      BY <2>2 DEF RevokeAckDelivered, Receiving, LoginInv
    <3> QED
      BY <2>2, <3>1, PortalMovesOn DEF RevokeAckDelivered
  <2>3. CASE PowerLossInWipe
    <3>1. PICK stored \in PartlySaved(NoIdentity) :
            /\ Reboot(stored)
            /\ wiped' = IF stored.token = None THEN wiped \cup ({id.token} \ {None}) ELSE wiped
      BY <2>3 DEF PowerLossInWipe
    <3>2. id' = stored /\ UNCHANGED portal
      BY <2>3, <3>1 DEF Reboot, PowerLossInWipe
    <3>3. stored.token \in {None, id.token}
      BY <3>1, ErasedTokens
    <3>4. CASE stored.token = None
      BY <3>1, <3>2, <3>4, WipeForgets
    <3>5. CASE stored.token # None
      BY <3>1, <3>2, <3>3, <3>5, StandsStill
    <3> QED
      BY <3>4, <3>5
  <2>4. CASE EraseClaimAndRestart
    <3>1. id'.token = None /\ wiped' = wiped \cup ({id.token} \ {None}) /\ UNCHANGED portal
      BY <2>4 DEF EraseClaimAndRestart, Reboot, NoIdentity
    <3> QED
      BY <3>1, WipeForgets
  <2> QED
    BY <1>4, <2>1, <2>2, <2>3, <2>4, StandsStill
    DEF Revocation, RevokeByWire, RevokeByWs, RevokeByMqtt, BeginRevoke, RevokeWipe,
        SetIgnoreExternalCmd
<1>5. CASE Restarting
  <2>1. nvs.token = id.token
    BY DEF BindingInv, SavedInv
  <2> QED
    BY <1>5, <2>1, KeptByReboot, StandsStill
    DEF Restarting, FlushBegin, FlushDisconnect, FlushRestart, PowerLoss
<1>6. CASE UNCHANGED vars
  BY <1>6, StandsStill DEF vars
<1> QED
  BY <1>1, <1>2, <1>3, <1>4, <1>5, <1>6 DEF Next

\* The device implements Ownership: a binding is issued once and to a device without one, it is
\* forgotten once, and no interleaving of the loop, the broker, the local transport and power
\* brings back one that was lost or forgotten (cloud_state_machine.cpp:86-93, 130-155, 177-207).
THEOREM ImplementsOwnership == Spec => RefinesOwnership
<1>1. Init => Own!Unowned /\ LoginInv
  <2> SUFFICES ASSUME Init PROVE Own!Unowned /\ LoginInv
    OBVIOUS
  <2>1. {b \in Bindings : portal[b] # "free"} = {} /\ id.token = None /\ wiped = {}
    BY DEF Init, NoIdentity
  <2> QED
    BY <2>1 DEF Init, ClientOff, LoginInv, Own!Unowned
<1>2. TypeOK /\ LoginInv /\ [Next]_vars => LoginInv'
  BY LoginStep
<1>3. TypeOK /\ BindingInv /\ LoginInv /\ [Next]_vars
      => [Own!OwnershipNext]_<<id.token, wiped, {b \in Bindings : portal[b] # "free"}>>
  BY OwnershipStep DEF OwnStep, Still, Issued
<1> QED
  BY <1>1, <1>2, <1>3, BindingCorrect, PTL DEF Spec, RefinesOwnership

\* The secret goes away only by a wipe that was asked for, never by a refusal, a new activation
\* or a restart in between (cloud_state_machine.cpp:86-93).
THEOREM OnlyRevoked == Spec => SecretOnlyRevoked
<1>1. [Own!OwnershipNext]_<<id.token, wiped, {b \in Bindings : portal[b] # "free"}>>
      => [id.token # None /\ id'.token # id.token => id.token \in wiped']_vars
  BY DEF Own!OwnershipNext, Own!Issue, Own!Forget
<1> QED
  BY <1>1, ImplementsOwnership, PTL DEF RefinesOwnership, SecretOnlyRevoked

\* A secret the portal has issued and the device does not have, because the answer, the save or
\* the binding itself is gone, is never the device's again, though its pairing token may still
\* be offered (cloud_state_machine.cpp:116-155).
THEOREM NoSecretComesBack ==
  Spec => [][\A b \in Bindings : portal[b] # "free" /\ id.token # b => id'.token # b]_vars
<1>1. [Own!OwnershipNext]_<<id.token, wiped, {b \in Bindings : portal[b] # "free"}>>
      => [\A b \in Bindings : portal[b] # "free" /\ id.token # b => id'.token # b]_vars
  BY LinkAssumption DEF Own!OwnershipNext, Own!Issue, Own!Forget
<1> QED
  BY <1>1, ImplementsOwnership, PTL DEF RefinesOwnership
=============================================================================
