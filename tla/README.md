# idryer-core in TLA+

`idryer-core` is the library inside every idryer device: an ESP32, on a DRYER together with an
RP2040 behind a UART, that is paired with a portal over HTTPS, talks to it through an MQTT
broker, serves the owner's phone on the local network, and replaces its own firmware and that of
the RP2040. This directory holds TLA+ models of the parts of it where the order of events
decides, the TLC configurations that check them on small instances, and TLAPS proofs of the
results for every instance. Paths below are relative to the repository; `src/` is the library.

| file | what it is |
|---|---|
| `OtaReceiver.tla`, `OtaReceiverProofs.tla` | firmware update: portal, ESP32, flash, RP2040 |
| `MCOtaReceiver.tla` with `Solo`, `Proxy`, `Paired`, `GateLeak` (`.cfg`) | instances of it for TLC |
| `Ownership.tla` | what the device promises of its binding |
| `CloudLink.tla`, `CloudLinkProofs.tla` | pairing, identity, broker connection, local access, REVOKE, which implement `Ownership` |
| `MCCloudLink.tla` with `Link`, `LinkLive`, `NoSecret` | instances of it |
| `UartBridge.tla`, `UartBridgeProofs.tla` | the frame protocol between ESP32 and RP2040 |
| `MCUartBridge.tla` with `Uart` | an instance of it |
| `BoundedFifo.tla` | what the error bus promises |
| `ErrorBus.tla` | the ring of error events and its drain, which implement `BoundedFifo` |
| `WorkTime.tla` | the counter of working time |
| `ConfigTransfer.tla` | a configuration in chunks |
| `ServicesProofs.tla` | proofs about these three, alone and side by side |
| `MCServices.tla` with `Services` | an instance of these three, one at a time |
| `Provisioning.tla`, `ProvisioningProofs.tla` | getting onto a Wi-Fi network and back to the setup mode |
| `ApChoice.tla`, `ApChoiceProofs.tla` | which access point is chosen, banned and left |
| `MCWifi.tla` with `Wifi`; `WrongPassword` | instances of the two, and of `Provisioning` alone |
| `WifiProofs.tla` | proofs about the two side by side |
| `IntegrationClients.tla` | the clients of Bambu, Moonraker and Home Assistant, as operators on records |
| `Integrations.tla`, `IntegrationsProofs.tla` | the manager that starts, stops and shows them |
| `MCIntegrations.tla` with `Integrations` | an instance of it |
| `PROJECT.json` | components, runs, the lines each definition stands for, findings, hazards, theorems |

## 1. The system

One thread, `Link::loop` (`src/iDryer.cpp:713`), drives everything. What makes it hard is
that it is not one atomic step: `MqttClient::loop` delivers whatever the broker has sent, and it is
called from inside other handlers (a connection attempt, the 400 ms after a `revoke_ack`, the
950 ms before a restart, the retries of a menu chunk); `UartBridge::loop` is called from inside
the push of a firmware chunk. Wi-Fi events arrive on a task of their own. Power may go at any
moment, and what survives is what NVS and flash hold, which several writes have put there.

| component | state | operations | who it talks to | what must hold |
|---|---|---|---|---|
| **Update receiver** `ota_receiver.cpp` | session (id, image, chunk counter, hash), push in progress, `espVerifiedPending_`, radio mark | announce, chunk, push to the RP2040, its ack and commit, tick, flush and restart | MqttClient (both ways), UartBridge (nested), Link (gate), Update library, radio mark | only intact images run; the two chips change major together; reports are true; a push and a restart end; the device is neither muted nor marked busy for longer than the update |
| **Cloud state machine** `cloud/` | `state_`, `identity_`, pending pairing token, MCU serial, radio mark, `mqttInitialized_` | `loop` with a handler per state, `tryActivate`, `handleRevoke`, `handleBindAck`, `setMcuSerial` | Wi-Fi, portal, MqttClient (nested), credential store | the secret goes only by a wipe and then stays away; the client has the identity the device has; a bound device comes online; a REVOKE is carried out |
| **MQTT client** `mqtt/` | credentials of the last `begin`, connection, assembly buffer, menu transfer | `begin`, `connect`, `disconnect`, `loop`, publishers, message assembly | broker, Link, update receiver | the session belongs to the identity; a message is delivered whole or not at all; a menu transfer survives a full outbox |
| **Local access** `local_access/` | copy of the secret, client slot, `clientAuthorized_` | `pair`, `auth`, commands, `updateToken`, `clearToken` | Link, NVS | the copy follows the identity; one client at a time |
| **Credential store** `platform/arduino/ArduinoCredentialStore.cpp` | NVS | `load`, `save` (four writes) | cloud state machine, Link | a save cut by power loss leaves a state the device can go on from |
| **Link** `iDryer.cpp` | gates (`otaActive`, `ignoreExternalCmd`), command table, publication timers | `loop`, `dispatchCommand`, `handleRevoke`, `notifyOtaBegin/Abort` | all of the above, product code | the gates let through what must pass and open again |
| **Radio-busy mark** `radio_busy.cpp` | a byte counter | begin, end | its holders; scans ask it | put and taken equally often |
| **UART bridge** `uart/` | parser, sequence counter, one pending frame | send, ack, retry, parse | RP2040 | a frame that asks for an ack is delivered or reported |
| **Error bus** `core/` | ring of 16 | post, poll, clear | products, RP2040 firmware | FIFO, nothing lost unreported |
| **Work time tracker** | saved and running seconds | loop, flush, begin | NVS | never runs back, loses a bounded amount |
| **Provisioning and roaming** `platform/arduino/EspTouchProvisioner.cpp` | credentials flag, pinned and banned access points, two scans | event callbacks, `loop` | Wi-Fi stack, radio mark | the scans do not mix up; a scan never falls on a handshake; the device comes back after an outage |
| **Integrations** `integrations/` | settings, connections of the Home Assistant, Moonraker and Bambu clients | apply, loop | Link, NVS | settings survive; retries are bounded |
| **Card and menu** `card/`, `menu_*.h` | none beyond a transfer in progress | build, publish | MQTT client | data transformation |

The hazards, with their lines and the properties that cover them, are in `PROJECT.json`.

## 2. The update receiver: `OtaReceiver.tla`

**State.** `active`, `targetRp`, `commandId`, `chunksReceived`, `radioHeld`, `pending`
(`espVerifiedPending_`), `espTargetMajor` and `ack` are the fields of `OtaReceiver`; `image`
stands for everything an announce brings (SHA, size, number of chunks, version); `shaOk` for the
hash context: it is TRUE while all bytes fed to it are bytes of that image. `push` is the local
state of a `pushChunkToRp` that is waiting, `restarting` a `flushAndRestart` that is pumping.
`otaActive` is the gate of Link, `radioDepth` the busy counter, `upd`/`spare`/`boot`/`running` the
flash, `verdict`/`progress`/`offered` what the portal has been told and may send, `toRp`/`fromRp`
the UART, `rp`/`rpCommits` the RP2040.

**Actions.** Each disjunct of `HandleAnnounce` and `HandleChunk` is one path through the handler,
with every call on that path in it: the refusals, the abort of a session in progress, `Update.begin`
and its failure, duplicate and out-of-order chunks, a failed write, the last chunk with its hash,
`Update.end`, or the deferral of a major change. A push to the RP2040 blocks the main loop: `ForwardChunk`
sends, the `Push...` actions are one turn of the polling loop each, and meanwhile only
UART handlers run, an `OtaCommitNow` among them, which restarts the device from within the push.
During a flush (`restarting`) announces and chunks are served as usual, because the flush pumps MQTT.
`PowerLoss` and `Restart` go through `Reboot`: the flagged partition runs if it is sealed.

**Environment.** The portal announces any image at any time; a chunk of an offered image, intact or not,
may arrive at any moment, any number of times. UART frames are lost, overrun or garbled. The
RP2040's firmware is not in this repository: `RpAnnounce`, `RpChunk` and `RpCommit` are what
`ota_receiver.cpp` expects of it. The Update library refuses to seal an incomplete image, but does not know the
announced hash.

**Properties.**

| property | statement | run | proved |
|---|---|---|---|
| `TypeOK` | types; attempts within MAX_RETRIES, counter within its byte | proxy | `TypeCorrect` |
| `NeverRunsCorrupt` | only images whose bytes are all intact run | solo | `RunsOnlyIntact`, `RunsOnlyIntactWhileEndsSucceed`, see below |
| `FlashFollowsSession` | hash, counter and partition have seen the same bytes | solo | `FlashFollows` |
| `VerdictSound` | `verified` is published only for an image the flash holds intact | solo | `VerdictOnSolo`; on a DRYER `VerdictUnderOwnId` |
| `RestartHappens` | a flush ends in a restart, whatever it serves meanwhile | solo | |
| `RadioBalanced` | the busy mark is put and taken equally often, and only for a session to the RP2040 | proxy | `RadioMark` |
| `ProgressNotAhead` | no report runs ahead of what was taken | proxy | `ProgressHonest` |
| `PushTerminates` | the main loop comes back from a push | proxy | |
| `MajorBumpOnlyOnCommit` | only the commit handler makes one bootable | paired | `MajorBumps` |
| `GateClosed` | the gate is closed while an image is on its way | paired | `GateStaysClosed` |

In `solo` no image ever waits for a commit, and in `proxy` none of the ESP's does: what a stale `espVerifiedPending_` or a commit inside a
push can do is in the instance of `paired`, in the theorems under their hypotheses (section 9) and in finding 17.

## 3. Binding and connection: `CloudLink.tla`

**State.** `state` is `state_`; `id` and `nvs` are the identity in RAM and in NVS (secret, device
id, key of the bound RP2040); `pairing` and `mcu` the pairing token and the serial from the
RP2040's Hello. `client` is `MqttClient`: whether `initialized_`, the credentials of the last
`begin`, the state of the connection, and the secret the CONNECT carries. `local` is
`LocalAccess` with its own copy of the secret. `portal` says of each binding whether it is free, active, being
revoked or closed; `online` is the session the broker shows; `wiped` collects the secrets
the device was told to forget. `ignoring` is `ignoreExternalCmd`.

**Nesting.** `outer` and `revoking` are the call stack: a connection attempt between the call of
`MqttClient::loop` and the code after it, the iteration in which a new secret is handed to
`LocalAccess`, the two phases of a flush, and the 400 ms pump of `handleRevoke`, which may run inside
any of them. `Pumping` says where the client library gets to run; the broker's messages
(`RevokeByMqtt`, `HandleBindAck`) and the connection's events are possible exactly there.

**Actions.** One per state handler and outcome (`HandleReady`, `ActivateSucceeds`, `ActivateRefused`, ...),
split where another handler can run in between; one per event of the client library; the
commands on the wire (`PairByWire`, `RevokeByWire`) and from the local network (`PairByWs`, `WsAuth`,
`RevokeByWs`); `SetMcuSerial` and `HandleBindAck`; the owner's unlinking at the portal; power loss anywhere, and inside a save or a wipe
after each of its writes (`PartlySaved`).

`MqttAttempt` is what `handleMqttConnecting` does after the clock test (`cloud_state_machine.cpp:265-322`). The code does not look at
its state again after the `loop()` at `:246`, so the action has no guard on the state: whatever ran inside that call, a REVOKE and its
wipe included, the attempt goes on if the retry is due by then.

**Environment.** Free: network, requests, connections and messages fail at any moment. The portal
issues each secret once and repeats a REVOKE until it has the ack; the broker lets in a binding
that is being revoked. The client library builds CONNECT from the credentials set when `connect()`
is called and sends nothing when it is not driven.

**Properties.**

| property | statement | run | proved |
|---|---|---|---|
| `TypeOK` | types; no state without a handler is entered | link | `LinkTypes` |
| `LocalFollowsIdentity` | pairing window open exactly without a secret; no client logged in with a wiped one | link | `LocalFollows` |
| `SecretStaysWiped` | a wiped secret is neither in RAM nor NVS nor with `LocalAccess` | link | `WipedStaysWiped` |
| `ClientHasNoOtherSecret` | the client has the secret of the device or none, and is at the broker only with a complete binding | link | `ClientSecretIsOwn` |
| `RadioOutlivesOnlyRevoke` | the radio mark is left behind by nothing but an attempt that goes on after a REVOKE inside it | link | `RadioMarkOutlives` |
| `RefinesOwnership` | the secret changes as `Ownership` says: issued once, to a device without one, and forgotten once | link | `ImplementsOwnership` |
| `BoundComesOnline` | a bound, accepted device with a network comes online again and again | link_live | |
| `RevokeReaches` | a REVOKE is carried out, as long as the device obeys the cloud | link_live | |
| `RevokeCarriedOut` | an acknowledged REVOKE is carried out unless the device restarts just then | link_live | |

The first two of the liveness properties except `BegunWithoutSecret`, the state finding 3 leads to: `mqttInitialized_` set, the client begun without a
secret. A device in it pairs, and never comes online with what it has got. Nothing else keeps a bound device away, or the run would show it.

`Ownership` knows three things: the secret, what has been issued, what has been forgotten. It is mapped to `id.token`, the bindings
the portal no longer has as free, and `wiped`. Everything else the device does, with half-written identities, two copies of the secret
and an answer that is lost after the portal has acted, is a stutter of it. That a secret goes only by a wipe (`SecretOnlyRevoked`) and
that one which was lost or forgotten never comes back follow (`OnlyRevoked`, `NoSecretComesBack`).

## 4. The UART: `UartBridge.tla`

Both ends of the wire run the same class, so the state is a function of the end: `seqCounter`
(one byte), `pending` (the single slot of the frame that waits for its ack), `parser` (between
frames or inside one). `line` holds the frames on their way, each whole or damaged; `name` tells
frames apart for the properties, the protocol sees `seq` alone. `handled` and `acked` are history.

`Send` is every send method (a partial write returns false and leaves the slot alone); `Repeat` and
`GiveUp` are `resendPendingIfNeeded`; `Handle...` and `Refuse` are the branches of `handleFrame`. `Swallow` is what
the byte parser can make of a damaged frame, or of frames that arrive while it waits for the end of one: nothing or an
Error, and it may stay inside. `Damage` and `Restart` are noise and power. A product's handler of a command may
acknowledge it or not.

| property | statement | run | proved |
|---|---|---|---|
| `TypeOK` | types; the retry counter stays below its limit | uart | `UartTypeOK` |
| `AckMeansHandled` | what is taken for acknowledged has been handled, while the sender does not restart | uart | `NumbersTellFrames`, if `NoReuse` |
| `HandledAtMost` | a message is handled `UART_MAX_RETRIES` times at most | uart | `BoundedExecution` |
| `SlotFreed` | the slot is freed in the end | uart | |
| `LineFallsSilent` | Errors do not breed Errors | uart | |

`HandledAtMost` is what there is instead of exactly-once: nothing on the receiving side tells a repetition from a new
command. `AckMeansHandled` depends on the byte of the sequence number being wider than what can be under way; the run has five
values for two messages, their repetitions and Errors. It excepts a sender that restarted, whose numbers start again at 0.

## 5. Three services: `ErrorBus`, `WorkTime`, `ConfigTransfer`

*`ErrorBus`* is the ring with `head`, `tail` and one slot that stays free; `Post`, `Clear` and one round of
`error_process_all` (`ProcessNext`: poll, filters, handler) are critical sections and hence atomic, and interleave, because posts come from interrupts and
the other core. `BoundedFifo` is the promise: a queue of one event less than there are slots, from which the oldest event is taken
and handed over at most once. The refinement maps its queue to `Held`, the slots from `tail` on.

*`WorkTime`* counts ticks, `Second` of them to a second. `Pass` is one iteration of the main loop, of one or more ticks, with
the write when an interval has passed; in `Persist` NVS may not open, which is only logged, or not take the value, which nobody notices; `Restart` reads the total back, or 0. `millis()` wraps.

*`ConfigTransfer`* is `ConfigSender::send` chunk by chunk, over a wire that loses chunks, to `ConfigReceiver::processFragment` with
its four errors. The sender may stop in the middle and restart.

| property | statement | run | proved |
|---|---|---|---|
| `ServicesTypeOK` | types of the three | services | `ServicesTypes` |
| `RefinesFifo` | the ring implements `BoundedFifo` | services | `BusImplementsFifo` |
| `Drains` | with a handler the bus is emptied, whatever the filters drop | services | |
| `TracksWork` | the total is never ahead of the time worked, and behind by no more than writes and restarts explain while NVS works | services | `TotalTracksWork` |
| `WholeDocument` | what is taken is a document as sent, until the sender restarts | services | `WholeDocumentTaken` |

`WholeDocument` needs its exception: transfer ids start again with the sender, and the rest of a new document
then completes the beginning of an old one. With the condition `reboots = 0` removed TLC finds it violated.

## 6. Wi-Fi: `Provisioning.tla` and `ApChoice.tla`

`Provisioning` has the stack on one side (`net`, what the network accepts; `link`, the attempt; `cfg`, the credentials the
stack holds; `sc`, SmartConfig) and the provisioner on the other (flags and counters under their own names). The
stack's events (`Connected`, `Fails`, `Lost`, `GotCredentials`, `ScAckDone`) come from their task between any two steps of the loop.
`loop()` is a chain of branches, each an action whose guard includes that the branches above it are not taken: `Save`, `WhileUp`,
`Roam`, `ScanDone`, `AirScan`, `Reject`, `Reconnect`, `Watchdog`, `BootRetry`, `StartSetup`, `RestartSetup`. `ManagerConnect`
is the other one to call the stack, from the cloud state machine. Pauses are choices of when a branch is taken. A
disconnect the device asked for (`Disconnects`) is reported like any other and counts as a failure.

`ApChoice` has levels instead of decibels and real (small) time, because bans and pauses end: the scan before an attempt
(`PickStart`, `PickDone`), a point given up (`Retire`, with `banAp` and its list), the looks around while the link is up (`LookStart`, `LookDone`).
The two modules share no state: the choice matters to the first only as "found or not" (`PinsBest`; a point of the right name may be pinned though
its password is another).

| property | statement | run | proved |
|---|---|---|---|
| `MCTypeOK` | types of the two | wifi | `WifiAndPointTypes` |
| `ScreenMeansSetup` | while the setup screen is shown the device listens, or has just got credentials | wifi | `SetupScreenIsTrue` |
| `RadioReleased` | a device that stays connected stops the sniffer | wifi | |
| `WrongPasswordWaits` | a wrong password is not tried for ever, if there was no link since the start | wifi | |
| `RightPasswordConnects` | with the right password, given on the air, it connects | wifi | |
| `OthersFirst` | the point given up last is not the next one while another may be chosen, with the list of bans full too | wifi | `OthersComeFirst` |

Two of these except `Starved`, the state of finding 10, and `WrongPasswordWaits` excepts finding 2; both would hide nothing else,
as the state names exactly the silent stack with a reconnection asked for. The network shows its name (`Hidden = FALSE`), see finding 11.

## 7. Integrations: `IntegrationClients.tla` and `Integrations.tla`

A client is a record, its methods are operators from record to record, because the manager calls several in one handler.
`heat` is the last chamber target a client handed to the product. The manager's handlers (`LinkPrinter`, `LinkHa`, `BambuApply`, `SetDeviceType`,
`Begin`) and `Loop`, which runs the three clients in turn and then compares, are one action each, as they run in one
thread. `PowerCut` leaves flash as any prefix of a command's writes (`Partial`). `PublishStatus` is `publishStatus` with its three outcomes: no
connection, which defers the message; taken; or refused by the MQTT client (payload too long, no room), of which the code takes no notice and clears its flag. `refused`
is the outcome of the last one, `behind` is TRUE while what the portal has been told differs from `Tracked`, the part of the message whose changes
the code publishes: the choice, the sections, the three states and the chamber. The filament, `lastError`, temperatures and progress travel with it and
have no publication of their own. Around it the connections drop, Klippy goes and comes back, and Moonraker's
messages wait in `wire`.

| property | statement | run | proved |
|---|---|---|---|
| `IntTypeOK` | types | integrations | `IntegrationsTypeOK` |
| `OnlySelectedHeats` | the product heats on the word of the selected, connected printer only | integrations | `OneSourceOfHeat` |
| `EnabledIsSelected` | an enabled printer is the selected one, wherever power went in a command | integrations | `BootRepairsTheChoice` |
| `StatusFresh` | connected, nothing deferred and the last message not refused, the portal has seen the present state | integrations | `PortalIsFresh` |
| `HeatStops` | a silent printer is not heated for | integrations | |

## 8. Runs, bounds, fairness

| run | instance | shows | distinct states |
|---|---|---|---|
| solo | one chip, images of 2 and 3 chunks of different majors | flash, verdict, restart | 39,048 |
| proxy | DRYER, an RP2040 image of 2 chunks, 2 attempts | push, acks, radio mark | 8,336 |
| paired | DRYER, an ESP and an RP2040 image of a new major | gate and two-chip commit | 856,976 |
| link | two-chip device, two bindings, one restart | safety of the binding | 1,268,264 |
| link_live | one-chip device, two bindings, no restart | liveness of it | 133,520 |
| uart | both ends, two messages, two attempts, one restart | the frame protocol | 188,195 |
| services | ring of 3, clock that wraps at 13, documents of up to 4 units | the three services | 886,095 |
| wifi | two networks, a change, a fluke, a restart; three points, two bans | provisioning and choice of point | 266,682 |
| integrations | one Bambu, one Moonraker, two Home Assistant hosts | choice, heat, status | 202,168 |
| gate_leak, wrong_password, no_secret | as above | findings 1 to 3 | |

Three MC modules put parts side by side that share no state (or, in `integrations`, only the status message). Their `focus`, chosen at the start, says which part
moves; the state spaces add up instead of multiplying, and nothing is lost, as no property relates the parts.

Bounds, and why they are enough:

- *Images and chunks.* Two images tell a session from another and the old from the new; three
  chunks have a first, a middle and a last one.
- *`MaxRetries`* is 5 in the code; 2 has a first attempt, a repeated one and exhaustion. In `paired` it is 1: what matters
  there is the commit.
- *`MaxInFlight`*, frames per direction of the UART: 1 in the update, so that an overrun loses a frame; 2 in `uart`, so that an old ack
  and a new one coexist.
- *`MaxDepth`*, 255 in the code: 2, one more than a balanced counter reaches.
- *`Bindings`* = 2: one to be revoked and its successor. *`Mcus`* = 1: a bound device refuses another one at the guard of
  `SetMcuSerial`.
- *`MaxRestarts`* = 1 in `link` and `uart`: a restart forgets all of RAM, so a second one starts from what one can leave in NVS,
  and the proofs lift the bound. 0 in `link_live`, which looks at one life of the device (what power loss between the writes of a save does is asked of `link`); 2 in `services`, for a restart of a total already read back.
- *`SeqSpace`* = 5 (256): few enough to wrap within the run, more than there are frames under way. *`MaxSends`* = 2: an old frame and
  the one that takes its slot. *`MaxDamage`* = 1: one ack lost.
- *`ERRORBUS_SIZE`* = 3 (16) with 4 posts: full, and round the ring. *`Second`* = 2, *`PERSIST_INTERVAL`* = 5, *`Wrap`* = 13,
  *`MaxWorked`* = 20: an interval is no whole number of seconds, and the clock wraps between two writes. *`CONFIG_BUFFER_SIZE`* = 2 with
  documents of up to 4: fits, and overflows at the first chunk and later. *`IdSpace`* = 4 with 3 documents: see section 9.
- *`kAirScanStreak`*, *`kAuthFailLimit`*, *`StreakMax`* = 2, 3, 4 (5, 8, 255) and *`kApPinFails`* = 2 (3): in their order in the code. One fluke,
  one change of the network, two sendings of the phone and one restart give the histories the flags must outlive; with stored credentials or
  without. *`kMaxBannedAps`* = 2 (4) of three points: the list can be full with one point left. *`MaxTime`* = 3 with bans of 2: a ban that holds
  and one that is over; *`MaxShifts`* = 1 change of a level.
- *`MaxWire`* = 2: two Moonraker messages in the wrong moment. *`Temps`* = {40}: on or off is what matters.

Deadlock is checked in `solo`, `proxy`, `paired`, `link` and `link_live`. In `uart`, `services`, `wifi`, `integrations` and two of the findings it is not: a line on which nobody sends,
a bus without posts and a device that is on its network have nothing left to do, or the bound on messages, time or restarts is used up.

Fairness. In `OtaReceiver`: `WF(PushStep)`, because the polling loop of a push ends each attempt by
a timer, and `SF(Restart)`, because the flush is bounded by two timers (800 and 150 ms) which run on while the nested
loop serves messages. In `CloudLink`: weak fairness for the handlers of the main loop and the
ends of its nested pumps, which are timers; strong fairness for what a device that keeps trying
achieves now and then: its retry becomes due, a login that the broker accepts succeeds, one that it
does not accept is refused, a connection outlives a tick, a queued DISCONNECT leaves, a REVOKE kept
for the session is delivered. Nothing is assumed of the Wi-Fi, the owner, the portal's answers to an
activation, or power. In `UartBridge`: weak fairness of each end's `Loop`, which the main loop and `waitForAck` call all the time.
In `ErrorBus`: weak fairness of the drain's steps, which the main loop calls and which do not block. In `Provisioning`: weak fairness of the stack's answers
(an attempt ends, a lost network is noticed) and of the branches of `loop()` whose pause is over, strong fairness of those that other branches
keep interrupting (`Reject`, `Reconnect`), whose time does come as the pauses are counted by the clock, and of a refusal by the handshake, which a wrong
password meets again and again. The phone, the network's changes and flukes are free. In `Integrations`: weak fairness of the start and of `Loop`; connections, Klippy and the portal are free.

Each property comes with a faulty variant of a definition (`PROJECT.json`, `mutants`), such as a hash
that is never compared or a lost connection that goes unnoticed, under which TLC finds it violated.

## 9. Proofs

All theorems hold for every value of the constants that the named ASSUMEs of the modules admit, and
under the hypotheses named here. Those assumptions are typings and bounds of the constants, and three that say something:
a ring has at least two slots; an interval and a pass fit the wrap of `millis()` (`WtAssumption`); and transfer ids do not come round
(`CfgAssumption`: fewer documents than the 65,536 ids; the code does not guard against it, a transfer would have to be left open all the while).

*`OtaReceiverProofs`.* `TypeInv` adds to `TypeOK` that a sealed partition holds an image that was announced.
`SessionInv` is the inductive invariant of a session: an active session has an image, of the ESP unless its target is the RP2040, and not yet all its chunks; a push
has an active session to the RP2040, and `RadioBalanced`, `GateClosed`, `ProgressNotAhead` and
`FlashFollowsSession` hold together. None of these is inductive alone: that a report is honest needs the
counter to be that of the image, which needs the session to be reset on every error exit.
`MajorBumpOnlyOnCommit` follows from it step by step. `CleanInv` is for `NeverRunsCorrupt`: a sealed
partition is clean, and so is one that a pending commit could seal. The latter is assumed of the
instance (`CommitIsSafe`): single-chip devices, or a DRYER whose ESP images are equally long. The
assumption is needed: `espVerifiedPending_` survives a failed commit and a new announce, so a second
`OtaCommitNow` seals what the session after it has written so far, whose hash nobody has compared (finding 17). `WaitingInv` shows that this is the only
way: on every instance nothing corrupt runs as long as no `Update.end` of a waiting image fails
(`RunsOnlyIntactWhileEndsSucceed`; the hypothesis, `[][~CommitFails]_vars`, is about the flash, not about the messages). The image that waits keeps
its partition open until the flush, and in the flush no commit is heard.

`VerdictSound` needs two things of a session to tell apart: the image it is about and `commandId_`, under which its verdict is published. In a
session of the ESP the chunk that completes it carries the id. In a proxied one nothing compares them, and a refused announce replaces the id
(finding 15); `VerdictUnderOwnId` has that as its hypothesis (`NoForeignId`), which on a single-chip device always holds (`VerdictOnSolo`).
`MajorsTogether` is for `MajorBumpNeedsCommit`: `CommitInv` says that a commit on its way is of a major that some ESP image has. The frame does not say of
which, so the theorem asks for one such major (`OneMajor`), as a portal does that offers one release at a time; with two it is false (finding 16).

*`CloudLinkProofs`.* `BindingInv` is the inductive invariant of the binding: RAM agrees with NVS
between steps; `LocalAccess` has the secret or none, and the secret except in the iteration of its
hand-over; a pairing token, or a hand-over, is never beside a secret without a device id
(a state that power loss can leave); a token the portal has not used is not a secret in use or
wiped; the secret in use is not wiped. `ActivationIsFirst` follows: an activation never replaces a secret. From
it come `LocalFollows` and `WipedStaysWiped`.
`AttemptInv` is for the connection, with a retry that may be due at any moment: a client that is driven is set up, one that has a secret has that of a complete
binding, one that is connected is driven, and an attempt whose `loop()` is under way is in `MqttConnecting`, or a REVOKE has left it in Provisioning without an identity
(`AttemptState`). `ClientSecretIsOwn` and `RadioMarkOutlives` follow without a hypothesis; that the client has *the* secret (`ClientHasIdentity`) and the mark stays in its
window (`RadioWindow`) do not hold (findings 3 and 18). For the refinement of `Ownership` one more is needed (`LoginInv`): a session was opened with a secret the portal
has issued, so the ack of a REVOKE closes an issued binding. Then each action issues, forgets or stutters.

*`UartBridgeProofs`.* `Inv` counts: what has been handled of a message, the copies of its frame on both lines and the tries its slot has left never
exceed `MaxRetries` together (`Counted`), and are zero before it is sent (`Untouched`). Every action moves one unit from a term to another or
drops it. A restart that empties slot and line only lowers the sum, which is why the bound survives it.
`AckInv` is about the number a frame carries: an ack on its way with the number in the slot is for a message that has been handled, and a message on its way with
that number is the one in the slot. It holds while no frame is given a number that an older frame, an ack of it or the slot still carries (`NoReuse`), a condition on the
steps that send, of an end that has not restarted. The code has no guard for it: what keeps it is that 256 numbers come round only after 255 other frames, when the line has a
buffer at each end and the slot three tries. TLC finds `[][NoReuse]_vars` true of the instance of the run, with five numbers.

*`ServicesProofs`, the error bus.* `BusInv` keeps the indices in the ring and says that the slots between them hold posted events. Then
each action is mapped: `Post` to `Put` or a stutter, `ProcessNext` to `Take`, `Clear` to `Drop`, the rest to stutters; the lemmas say how `Held` changes when
an index moves round the end of the ring.

*The work time.* `WtInv` says it in ticks, as seconds alone are not inductive: base and session together are at most the time worked,
and so is what NVS holds, which a restart falls back to. `Regular` is the other side, while NVS works: each write loses less than a second, each restart at most
an interval and a pass; it needs that the last write lies at most that far back.

*The configuration.* Until the sender restarts an id names one document (`IdsAreDocs`), the chunks on the wire are units of the document of their id in their place
(`WireGenuine`), and the buffer holds the beginning of the document of the transfer's id (`BufferBegins`). The test of the length at the last chunk is then redundant;
what makes the document whole is the test of the sequence.

*All three.* A behaviour of `MCServices` is one of each service (`ServicesApart`), so the guarantees hold in the composition that is model-checked (`ServicesTypes`, `ServicesTogether`).

*`ProvisioningProofs`.* `WifiInv` is the type invariant with `ScreenMeansSetup`, which is inductive once the types are known.

*`ApChoiceProofs`.* The types say that counters stop where the code stops them. `RetiredIsBanned` is behind `OthersFirst`: as long as the ban of the point given up last holds,
it is in the list. A new ban may drop any other one that still holds, never that one; the scan drops all of them or none, and a drop of all is an amnesty, after
which no point counts as given up. `OthersComeFirst` then reads the choice: a maximum over the points heard that are not banned.

*`WifiProofs`.* A step of `MCWifi` is a step of one part and a stutter of the other (`WifiApart`).

*`IntegrationsProofs`.* `IntInv` relates four places that the handlers change one after the other: the client's target is the one the product has been
told, a client that is not off is the selected one's, the enabled section is the selected one, and the chamber that `Loop` has seen is the one the client has, or the client has
just forgotten it and a publication is under way. The portal is behind only while a publication is pending or its client has refused the last one. From it follow the four theorems.

*Model-checked only.* The liveness properties, as fairness and `ENABLED` are out of reach of the prover: `RestartHappens`, `PushTerminates`, `BoundComesOnline`, `RevokeReaches`,
`RevokeCarriedOut`, `SlotFreed`, `LineFallsSilent`, `Drains`, `RadioReleased`, `WrongPasswordWaits`, `RightPasswordConnects`, `HeatStops`. Every safety property of
a passing run is stated by a theorem; those with a hypothesis (`CommitIsSafe` or `[][~CommitFails]_vars`, `NoForeignId`, `NoReuse`) are model-checked on
instances where it holds. None can be dropped: beyond them TLC finds the properties violated (findings 15 and 17; `AckMeansHandled` in `Uart.cfg` with
`SeqSpace = 2`, where numbers come round under way).

## 10. Findings

With a run of their own; `PROJECT.json` quotes the lines.

1. **gate_leak** (`GateReopens`). An announce aborts the session in progress without `notifyOtaAbort` and is then refused, for its SHA or for want of space
   (`ota_receiver.cpp:184-195`, `:245-249`): no session is left, and commands and telemetry stay muted until a later update or a restart. That is TLC's trace;
   a chunk out of order (`:321`), a failed write (`:366`) and a failed push (`:773-786`) leave the gate closed in the same way.
2. **wrong_password** (`WrongPasswordAlwaysWaits`). `everConnected_` is not reset by new credentials: a device that was connected once
   since its start tries a wrong password for ever.
3. **no_secret** (`ClientHasIdentity`). `handleMqttConnecting` does not look at its state after `mqtt_->loop()` (`cloud_state_machine.cpp:246`). A REVOKE inside that call wipes the
   secret and clears `mqttInitialized_`; with the retry due the attempt goes on (`:265-321`), `begin()` without a secret, and sets the flag again. The next binding never sets the
   client up: a device that has just been paired does not come online until a wipe or a restart.

Stated in the modules, where TLC finds them violated, without a run in the present set. To repeat one, take the named cfg, keep its constants
but for those given, and check the property alone.

| | property | cfg | what happens |
|---|---|---|---|
| 4 | `RadioHeldDuringUpdate` | Solo | an update of the ESP itself never marks the radio busy |
| 5 | `RestartsIntoVerified` | Solo | a message served by the flush before a restart overwrites the verified partition |
| 6 | `ProxyVerdictSound` | Proxy, `MaxInFlight = 2` | the hash test does not drop an ack of an aborted session of the same command id |
| 7 | `SessionIsOwn` | Link | a CONNECT under way when the identity is wiped goes online with the old secret after the next pairing |
| 8 | `GoodbyeIsPumped` | Link | `disconnect()` switches the client off before the DISCONNECT it queued is sent: it never leaves, and the broker publishes the last will |
| 9 | `UnlinkingReaches` | LinkLive | with `ignoreExternalCmd` set, or the update gate left closed (finding 1), the portal's REVOKE is rejected like any command |
| 10 | `SilenceEnds` | WrongPassword | with a reconnection asked for, every pass tries to connect, is refused by the silent stack, and never comes to the watchdog |
| 11 | `RightPasswordConnects` | WrongPassword, `Hidden = TRUE` | a network without a name in the air is never pinned, so that every pass ends the attempt in progress and scans again |
| 12 | `TrueMeansAcked` | Uart | `waitForAck` returns true for any slot that became free: after the last retry, too |
| 13 | `OldestGoes` | Wifi, specification `ApSpec` | with the list of bans full the first one is replaced, where the comment in `banAp` says the oldest |
| 14 | `IncidentCloses` | Integrations | Moonraker's connection drops while Klippy is down and comes back after it: the incident reported to the portal is never closed |
| 15 | `VerdictSound` | Paired | a refused announce overwrites `commandId_` under a proxied session, whose verdict is then published for the refused image |
| 16 | `MajorBumpNeedsCommit` | Paired, with a second ESP image, of major 3 | the frame of a commit does not say which major it is for: the RP2040 goes to one, the ESP image that waits is of the other |
| 17 | `NeverRunsCorrupt` | Paired, with `r1` and ESP images of 2 chunks and of 1 | `Update.end` of a commit fails, `espVerifiedPending_` stays, and the next `OtaCommitNow` seals what a session in progress has written, before its hash is compared |
| 18 | `RadioWindow` | Link | in the trace of finding 3 the attempt puts the radio mark in Provisioning, where the next attempt at the earliest takes it away: no scan for a better point until then |
| 19 | `RunsAsStored` | Integrations | a new address for the printer that is active already is stored and shown, and its client is not told: `setActive` returns at once (`link_integrations_manager.cpp:389`), though `.h:86-88` says the command updates the configuration |
| 20 | `StatusAlwaysFresh` | Integrations | a message that the MQTT client refuses clears `statusPublishPending_` all the same (`link_integrations_manager.cpp:582-583`): connected, nothing deferred, the portal stays with an old status until the next change, though `:434-436` says changes are published at once and only deferred ones need making up for |

Met while reading, without a property: a refused announce overwrites `commandId_`, so that
the chunks of the session in progress are dropped as foreign (`ota_receiver.cpp:142-174`, `:294`);
the contract knows a `rejected_busy` for an active session (`contracts/mqtt_contract.yaml:3146`)
where the code aborts that session (`:184-187`); `ota_receiver.h:170-174` says `Update.end()` is called
right after the verification, which the deferred commit does not; `targetMajor` of `OtaCommitNow` is not compared; the
first pause of the backoff equals `kMqttHandshakeGuardMs` (`cloud_state_machine.h:236-239` says it is certainly longer), which is what makes finding 3 a matter of one slow handshake; `WIPE_IDENTITY`
while waiting for the MCU serial leads to Provisioning without one; `failStreak_` and `lastReason_` go over from one set of credentials to the next;
a stored network that is good is not tried again while the setup mode is shown; Home Assistant, given another broker while connected, stays with the old one
(`ha_integration_adapter.cpp:101-104`); a change of the filament or of an error text alone is not published (`link_integrations_manager.cpp:640-649`); an activation that the
portal answers with a token and no device id is kept as it is (`cloud_state_machine.cpp:149`); an Error of another protocol version is answered with an Error
(`uart_bridge.cpp:264-267`, `:410-412`); Bambu's pause is compared as `now < nextConnectAttemptMs_`, which is not safe across the wrap of `millis()` (`bambu_client.cpp:193-196`).

## 11. Not modelled

In `OtaReceiver`: confirmation of a booted image and the bootloader's rollback, `firmware_check_update`, the contents of chunks
and versions beyond the major. In `CloudLink`: times (a retry is due at any moment, so every relation of pauses is
covered), the count of authorization refusals, an NVS that cannot be opened, the slot and heartbeat of the local client, the
update gate. The portal is taken to send a device id with every token (`http_api.cpp:47-51` reads it as optional; without one the state is that of a save cut short).

In `UartBridge`: the bytes of the parser, a CRC that fits by accident, what the frames say; both ends speak the same version of the protocol, so `LineFallsSilent` says nothing of
two that do not. In `ErrorBus`: the tables of errors; the critical sections are taken to exclude the other core too, where `noInterrupts` on some targets masks the calling core alone
(`error_bus.cpp:46-54`). In `WorkTime`: the wrap of the
total itself. In `ConfigTransfer`: chunks of several units, the transport below `sendFn`. In `Provisioning`: Improv over USB, a scan that the stack refuses, the hysteresis of the
signal level; the counter of `radio_busy` with all its holders. A link is up at once with its address (`Connected` stands for `STA_CONNECTED`, `:70-90`, and the first pass that finds
`WL_CONNECTED`, `:597`) and does not come up while the sniffer listens for credentials without having any; a setup mode that is started again (`Reject`, `RestartSetup`)
starts: the refusal of the SDK, which a later pass makes up for (`:130-142`), is modelled for `StartSetup` alone. In `IntegrationClients`: pauses between attempts and the wrap of their clock, the JSON; a connection that is half open (nothing arrives and nobody closes it) is one whose loss has
not happened yet, so `HeatStops` counts from the moment the library notices; `HaMqttClient`'s own reconnection to its old broker (`ha_mqtt_client.cpp:158-173`) and the Error state of its adapter
(`ha_integration_adapter.cpp:123-127`), on which no property of a passing run depends. In `Integrations`: sections left out of a build, an NVS that cannot be opened,
`setActive` and `setHaEnabled` from outside the module, which nobody in the repository calls; the converse of `EnabledIsSelected` (a selected printer that power left switched off) is not stated.

Whole parts: the assembly of fragmented MQTT messages and the transfer of the menu in chunks; the publication periods and the command table of `Link`; the slot of the local client with its
heartbeat; `HaCardProjection` and `card_builder`, which map data to JSON and keep no state; generated headers; the thin Arduino wrappers.

## 12. Where it can go on

1. Composition: the portal's stop-and-wait sender with `OtaReceiver`, and `UartBridge` under the push to the RP2040 in place of its abstract wire.
2. The menu's transfer with its retries, which pump the client, and the assembly of messages, with `radio_busy` and all its holders.
3. Proofs: an abstract update (a set of chips, one image each, changed whole) implemented by `OtaReceiver`; delivery at most so many times, implemented by `UartBridge`;
the step-wise part of the liveness properties, that is, the safety facts from which fairness alone would conclude.

Runs stay one per question; where a finding's run and a passing run ask the same of a component, the
first gives way.
