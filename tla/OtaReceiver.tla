---------------------------- MODULE OtaReceiver ----------------------------
(***************************************************************************)
(* The firmware update receiver of an idryer device                        *)
(* (src/src/ota_receiver.cpp), with the three things its handlers touch:   *)
(* the Link gate that silences the device during an update, the radio-busy *)
(* counter, and the flash (the Arduino Update library and the boot flag).  *)
(*                                                                         *)
(* The portal announces an image under a command id and sends it in        *)
(* chunks.  An image for the ESP is written to the spare partition, its    *)
(* SHA-256 compared with the announced one, and the boot flag moved.  An   *)
(* image for the RP2040 is forwarded over UART, chunk by chunk, each one   *)
(* acknowledged.  An ESP image of another major version waits for the      *)
(* RP2040: the boot flag moves only when OtaCommitNow arrives.             *)
(*                                                                         *)
(* The environment is open: the portal may announce any image, and the     *)
(* broker may deliver any chunk of an image the portal has seen accepted,  *)
(* at any moment and any number of times.                                  *)
(* The RP2040 firmware is not part of the repository; it is modelled from  *)
(* the acknowledgements and commits ota_receiver.cpp expects of it.        *)
(***************************************************************************)
EXTENDS Integers, Sequences

CONSTANTS
  Images,       \* images the portal may announce, each under its own command id
  Factory,      \* the image the device leaves the factory with
  NoImage,      \* no image; the empty command id
  TargetOf,     \* image -> "esp", "rp2040" or another target
  MajorOf,      \* image (and Factory) -> major version, 0 if not set
  ChunksOf,     \* image -> number of chunks
  HasUart,      \* TRUE on a DRYER: an RP2040 is attached
  MaxRetries,   \* MAX_RETRIES of pushChunkToRp
  MaxInFlight,  \* frames the UART holds in one direction; one more overruns
  MaxDepth      \* largest value of the radio-busy counter (255 in the code)

ASSUME ImagesAssumption ==
  /\ Factory \notin Images /\ NoImage \notin Images /\ Factory # NoImage
  /\ TargetOf \in [Images -> STRING]
  /\ MajorOf \in [Images \cup {Factory} -> Nat]
  /\ ChunksOf \in [Images -> Nat \ {0}]

ASSUME BoundsAssumption ==
  /\ HasUart \in BOOLEAN
  /\ MaxRetries \in Nat \ {0}
  /\ MaxInFlight \in Nat \ {0}
  /\ MaxDepth \in Nat \ {0}

VARIABLES
  active,          \* active_
  targetRp,        \* targetRp_
  commandId,       \* commandId_, the id every publish carries
  image,           \* the image of the last announce that was taken up:
                   \* expectedSha_, expectedSize_, expectedChunks_, toVersion_
                   \* and commandIdHash_
  chunksReceived,  \* chunksReceived_
  shaOk,           \* every byte fed to shaCtx_ is a byte of image
  radioHeld,       \* radioHeld_
  ack,             \* ackReceived_, ackChunkIdx_, ackStatus_
  push,            \* the chunk pushChunkToRp is blocked on
  pending,         \* espVerifiedPending_
  espTargetMajor,  \* espTargetMajor_
  restarting,      \* flushAndRestart is pumping MQTT
  otaActive,       \* Link: commands, telemetry and integrations are muted
  radioDepth,      \* radio_busy.cpp: s_busyDepth
  upd,             \* Update: a partition is open for writing
  spare,           \* content of the partition that is not running
  boot,            \* the partition the boot flag names
  running,         \* the image that is running
  verdict,         \* image -> last ack/complete status published for it
  progress,        \* image -> last progress that reached the portal
  offered,         \* images the portal has seen accepted and sends chunks of
  toRp, fromRp,    \* the two directions of the UART
  rp,              \* the update state of the RP2040
  rpCommits        \* majors for which the RP2040 has begun its own commit

rcvVars   == <<active, targetRp, commandId, image, chunksReceived, shaOk, ack, push>>
radioVars == <<radioHeld, radioDepth>>
pairVars  == <<pending, espTargetMajor>>
flashVars == <<upd, spare, boot, running>>
portalVars == <<verdict, progress, offered>>
uartVars  == <<toRp, fromRp>>
rpVars    == <<rp, rpCommits>>
vars == <<rcvVars, radioVars, pairVars, restarting, otaActive, flashVars,
          portalVars, uartVars, rpVars>>

NoAck  == [idx |-> 0, status |-> -1]
NoPush == [idx |-> 0, attempt |-> 0, good |-> FALSE]
Blocked == push # NoPush

UpdateIdle == [running |-> FALSE, written |-> 0]

Majors   == {MajorOf[i] : i \in Images \cup {Factory}}
Verdicts == {"none", "accepted", "rejected", "verified", "failed"}
AckStatuses == 0..4
AckMsg(i, k, s) == [kind |-> "ack", image |-> i, idx |-> k, status |-> s]
CommitMsg       == [kind |-> "commit", image |-> NoImage, idx |-> 0, status |-> 0]
ChunkMsg(i, k, g) == [kind |-> "chunk", image |-> i, idx |-> k, good |-> g]
AnnounceMsg(i)    == [kind |-> "announce", image |-> i, idx |-> 0, good |-> TRUE]

----------------------------------------------------------------------------
\* publishAck and publishComplete, and publishProgress.  The portal acts on
\* progress, so whether the report reaches it matters.
Publish(st) == verdict' = [i \in Images |-> IF i = commandId THEN st ELSE verdict[i]]

PublishProgress(n) ==
  \/ UNCHANGED progress
  \/ commandId \in Images /\ progress' = [progress EXCEPT ![commandId] = n]

\* A frame that does not fit is lost to an overrun.
Sent(ch, m) == IF Len(ch) < MaxInFlight THEN Append(ch, m) ELSE ch

RadioBusyBegin(d) == IF d < MaxDepth THEN d + 1 ELSE d
RadioBusyEnd(d)   == IF d > 0 THEN d - 1 ELSE d

(***************************************************************************)
(* The Update library (external).  begin fails while a partition is open   *)
(* and when there is no space.  The first write lands at the start of the  *)
(* spare partition and leaves whatever was there unbootable until end      *)
(* seals it.  end(evenIfRemaining) refuses an incomplete image, because    *)
(* setting the boot flag validates its segments, but it does not know the  *)
(* announced SHA-256: a complete image with corrupt bytes may pass.        *)
(***************************************************************************)
UpdateOpen == [running |-> TRUE, written |-> 0]

Written(i, good) ==
  IF upd.written = 0
  THEN [image |-> i, n |-> 1, clean |-> good, sealed |-> FALSE]
  ELSE [image |-> spare.image, n |-> spare.n + 1,
        clean |-> spare.clean /\ good /\ i = spare.image, sealed |-> spare.sealed]

Ended(s) == [s EXCEPT !.sealed = TRUE]

UpdateWritten == [upd EXCEPT !.written = @ + 1]

CanEnd(s, u) ==
  /\ u.running /\ u.written = s.n
  /\ s.image \in Images /\ TargetOf[s.image] = "esp" /\ s.n = ChunksOf[s.image]

----------------------------------------------------------------------------
Init ==
  /\ active = FALSE /\ targetRp = FALSE /\ restarting = FALSE
  /\ commandId = NoImage /\ image = NoImage
  /\ chunksReceived = 0 /\ shaOk = FALSE
  /\ ack = NoAck /\ push = NoPush
  /\ pending = FALSE /\ espTargetMajor = 0
  /\ otaActive = FALSE /\ radioHeld = FALSE /\ radioDepth = 0
  /\ upd = UpdateIdle
  /\ spare = [image |-> NoImage, n |-> 0, clean |-> TRUE, sealed |-> FALSE]
  /\ boot = "current"
  /\ running = [image |-> Factory, clean |-> TRUE]
  /\ verdict = [i \in Images |-> "none"]
  /\ progress = [i \in Images |-> 0] /\ offered = {}
  /\ toRp = <<>> /\ fromRp = <<>>
  /\ rp = [image |-> NoImage, n |-> 0, clean |-> TRUE, espReady |-> FALSE, espMajor |-> 0]
  /\ rpCommits = {}

\* A faulty variant of the next: the radio mark outlives the session.
ResetKeepingRadio ==
  /\ upd' = IF active /\ ~targetRp THEN UpdateIdle ELSE upd
  /\ UNCHANGED <<radioDepth, radioHeld>>
  /\ active' = FALSE /\ targetRp' = FALSE
  /\ commandId' = NoImage /\ image' = NoImage
  /\ chunksReceived' = 0 /\ shaOk' = FALSE
  /\ ack' = NoAck /\ push' = NoPush

\* resetSession.  espVerifiedPending_ survives it, and so does the Link gate.
ResetSession ==
  /\ upd' = IF active /\ ~targetRp THEN UpdateIdle ELSE upd
  /\ radioDepth' = IF radioHeld THEN RadioBusyEnd(radioDepth) ELSE radioDepth
  /\ radioHeld' = FALSE
  /\ active' = FALSE /\ targetRp' = FALSE
  /\ commandId' = NoImage /\ image' = NoImage
  /\ chunksReceived' = 0 /\ shaOk' = FALSE
  /\ ack' = NoAck /\ push' = NoPush

\* publishComplete with an error status, then resetSession: the error exits
\* that do not tell the Link.
FailSession ==
  /\ Publish("failed")
  /\ ResetSession

NotifyOtaBegin == otaActive' = TRUE
NotifyOtaAbort == otaActive' = FALSE

----------------------------------------------------------------------------
(***************************************************************************)
(* handleAnnounce                                                          *)
(***************************************************************************)

\* publishAck, with the new id already in commandId_.
Accept(i) ==
  /\ verdict' = [verdict EXCEPT ![i] = "accepted"]
  /\ offered' = offered \/ offered' = offered \cup {i}

Reject(i) ==
  /\ verdict' = [verdict EXCEPT ![i] = "rejected"]
  /\ UNCHANGED offered

\* A missing field, an unknown target, an RP2040 image without an RP2040, or a
\* busy device: the refusal is published under the new id, which stays in
\* commandId_.  Nothing else changes, a session in progress included.
AnnounceRefused(i) ==
  /\ commandId' = i
  /\ Reject(i)
  /\ UNCHANGED <<active, targetRp, image, chunksReceived, shaOk, ack, push,
                 radioVars, pairVars, restarting, otaActive, flashVars,
                 progress, uartVars, rpVars>>

\* A faulty variant of the next: the chunk counter is not reset.
TakeUpKeepingCount(i) ==
  /\ commandId' = i
  /\ UNCHANGED chunksReceived
  /\ ack' = IF active THEN NoAck ELSE ack
  /\ progress' = [progress EXCEPT ![i] = 0]
  /\ UNCHANGED <<push, pairVars, restarting, spare, boot, running, fromRp, rpVars>>

\* The part of an announce that follows the refusals: the session in progress
\* is aborted and the ids are replaced.
TakeUp(i) ==
  /\ commandId' = i
  /\ chunksReceived' = 0
  /\ ack' = IF active THEN NoAck ELSE ack
  /\ progress' = [progress EXCEPT ![i] = 0]
  /\ UNCHANGED <<push, pairVars, restarting, spare, boot, running, fromRp, rpVars>>

UpdateAfterAbort == IF active /\ ~targetRp THEN UpdateIdle ELSE upd
DepthAfterAbort == IF active /\ radioHeld THEN RadioBusyEnd(radioDepth) ELSE radioDepth
HeldAfterAbort == radioHeld /\ ~active

\* sha256 is not 64 hex digits.  The old session is already gone.
AnnounceBadSha(i) ==
  /\ TargetOf[i] = "esp" \/ (TargetOf[i] = "rp2040" /\ HasUart)
  /\ TakeUp(i)
  /\ image' = i /\ shaOk' = FALSE
  /\ active' = FALSE
  /\ targetRp' = (targetRp /\ ~active)
  /\ upd' = UpdateAfterAbort
  /\ radioDepth' = DepthAfterAbort /\ radioHeld' = HeldAfterAbort
  /\ Reject(i)
  /\ UNCHANGED <<otaActive, toRp>>

AnnounceRp(i) ==
  /\ TargetOf[i] = "rp2040" /\ HasUart
  /\ \/ /\ TakeUp(i)
        /\ active' = TRUE /\ targetRp' = TRUE
        /\ image' = i /\ shaOk' = FALSE
        /\ radioHeld' = TRUE
        /\ radioDepth' = IF HeldAfterAbort THEN DepthAfterAbort
                         ELSE RadioBusyBegin(DepthAfterAbort)
        /\ upd' = UpdateAfterAbort
        /\ toRp' = Sent(toRp, AnnounceMsg(i))
        /\ NotifyOtaBegin
        /\ Accept(i)
     \/ \* sendOtaAnnounceForMcu fails: the session is opened and reset again
        /\ ResetSession
        /\ Reject(i)
        /\ progress' = [progress EXCEPT ![i] = 0]
        /\ UNCHANGED <<pairVars, restarting, otaActive, spare, boot, running,
                       uartVars, rpVars>>

AnnounceEsp(i) ==
  /\ TargetOf[i] = "esp"
  /\ TakeUp(i)
  /\ image' = i /\ targetRp' = FALSE
  /\ radioDepth' = DepthAfterAbort /\ radioHeld' = HeldAfterAbort
  /\ UNCHANGED toRp
  /\ \/ /\ ~UpdateAfterAbort.running
        /\ upd' = UpdateOpen
        /\ active' = TRUE /\ shaOk' = TRUE
        /\ NotifyOtaBegin
        /\ Accept(i)
     \/ \* Update.begin fails
        /\ upd' = UpdateAfterAbort
        /\ active' = FALSE /\ shaOk' = FALSE
        /\ UNCHANGED otaActive
        /\ Reject(i)

HandleAnnounce(i) ==
  /\ ~Blocked
  /\ \/ AnnounceRefused(i)
     \/ AnnounceBadSha(i)
     \/ AnnounceRp(i)
     \/ AnnounceEsp(i)

----------------------------------------------------------------------------
(***************************************************************************)
(* handleChunk: a chunk of image c with index k, its bytes intact or not.  *)
(* Chunks without a session and chunks whose topic names another command   *)
(* id are dropped: they change nothing and are not actions.                *)
(***************************************************************************)
Accepts(c) == ~Blocked /\ active /\ c = commandId

\* A faulty variant of the next: the report counts the duplicate.
DuplicateCounted(c, k) ==
  /\ Accepts(c) /\ k < chunksReceived
  /\ PublishProgress(chunksReceived + 1)
  /\ UNCHANGED <<rcvVars, radioVars, pairVars, restarting, otaActive,
                 flashVars, verdict, offered, uartVars, rpVars>>

\* Already written: the portal missed the report, so it is sent again.
DuplicateChunk(c, k) ==
  /\ Accepts(c) /\ k < chunksReceived
  /\ PublishProgress(chunksReceived)
  /\ UNCHANGED <<rcvVars, radioVars, pairVars, restarting, otaActive,
                 flashVars, verdict, offered, uartVars, rpVars>>

OutOfOrderChunk(c, k) ==
  /\ Accepts(c) /\ k > chunksReceived
  /\ FailSession
  /\ UNCHANGED <<pairVars, restarting, otaActive, spare, boot, running,
                 progress, offered, uartVars, rpVars>>

InOrder(c, k) == Accepts(c) /\ k = chunksReceived

\* pushChunkToRp until it blocks: an oversized chunk or a failing send ends the
\* session, otherwise the fragments are sent and ackReceived_ is cleared.
ForwardChunk(c, k, good) ==
  /\ InOrder(c, k) /\ targetRp
  /\ UNCHANGED <<pairVars, restarting, otaActive, spare, boot, running,
                 progress, offered, fromRp, rpVars>>
  /\ \/ /\ push' = [idx |-> k, attempt |-> 1, good |-> good /\ c = image]
        /\ ack' = NoAck
        /\ toRp' = Sent(toRp, ChunkMsg(image, k, good /\ c = image))
        /\ UNCHANGED <<active, targetRp, commandId, image, chunksReceived,
                       shaOk, radioVars, upd, verdict>>
     \/ /\ FailSession
        /\ UNCHANGED toRp

\* Update.write takes less than the chunk: a flash error, bytes beyond the
\* announced size, or no partition open.
FailWrite(c, k) ==
  /\ InOrder(c, k) /\ ~targetRp
  /\ FailSession
  /\ UNCHANGED <<pairVars, restarting, otaActive, spare, boot, running,
                 progress, offered, uartVars, rpVars>>

CanWrite(c, k) == InOrder(c, k) /\ ~targetRp /\ upd.running

\* Two faulty variants of ShaAfter: the hash is never compared; the context is
\* started again with every chunk.
ShaUnchecked(c, good) == TRUE
ShaOfLastChunk(c, good) == good /\ c = image

ShaAfter(c, good) == shaOk /\ good /\ c = image
LastChunk == chunksReceived + 1 = ChunksOf[image]

WriteChunk(c, k, good) ==
  /\ CanWrite(c, k) /\ ~LastChunk
  /\ upd' = UpdateWritten
  /\ spare' = Written(c, good)
  /\ shaOk' = ShaAfter(c, good)
  /\ chunksReceived' = chunksReceived + 1
  /\ PublishProgress(chunksReceived + 1)
  /\ UNCHANGED <<active, targetRp, commandId, image, ack, push, radioVars,
                 pairVars, restarting, otaActive, boot, running, verdict,
                 offered, uartVars, rpVars>>

\* A faulty variant of the next: only upgrades wait for the RP2040.
PairedMajorUpgrade ==
  /\ HasUart
  /\ MajorOf[running.image] # 0
  /\ MajorOf[image] < MajorOf[running.image]

PairedMajorBump ==
  /\ HasUart
  /\ MajorOf[running.image] # 0
  /\ MajorOf[image] # MajorOf[running.image]

\* The last chunk: the hash decides, then the major version.  Each of the next
\* four is one run of the handler.
Finishes(c, k) == CanWrite(c, k) /\ LastChunk

ShaMismatch(c, k, good) ==
  /\ Finishes(c, k) /\ ~ShaAfter(c, good)
  /\ spare' = Written(c, good)
  /\ PublishProgress(chunksReceived + 1)
  /\ FailSession
  /\ NotifyOtaAbort
  /\ UNCHANGED <<pairVars, restarting, offered, boot, running, uartVars, rpVars>>

\* A faulty variant of the next: Update.end, and with it the boot flag, at once.
CommitAtOnce(c, k, good) ==
  /\ Finishes(c, k) /\ ShaAfter(c, good) /\ PairedMajorBump
  /\ CanEnd(Written(c, good), UpdateWritten)
  /\ spare' = Ended(Written(c, good)) /\ boot' = "spare"
  /\ upd' = UpdateIdle
  /\ chunksReceived' = chunksReceived + 1
  /\ shaOk' = FALSE
  /\ PublishProgress(chunksReceived + 1)
  /\ Publish("verified")
  /\ espTargetMajor' = MajorOf[image]
  /\ pending' = TRUE
  /\ active' = FALSE
  /\ UNCHANGED <<targetRp, commandId, image, ack, push, radioVars, restarting,
                 otaActive, offered, running, uartVars, rpVars>>

\* Another major: the partition stays open and the boot flag where it was until
\* OtaCommitNow.  The session is over but not reset.
DeferCommit(c, k, good) ==
  /\ Finishes(c, k) /\ ShaAfter(c, good) /\ PairedMajorBump
  /\ spare' = Written(c, good)
  /\ upd' = UpdateWritten
  /\ chunksReceived' = chunksReceived + 1
  /\ shaOk' = FALSE
  /\ PublishProgress(chunksReceived + 1)
  /\ Publish("verified")
  /\ espTargetMajor' = MajorOf[image]
  /\ pending' = TRUE
  /\ active' = FALSE
  /\ UNCHANGED <<targetRp, commandId, image, ack, push, radioVars, restarting,
                 otaActive, offered, boot, running, uartVars, rpVars>>

SoloEndFails(c, k, good) ==
  /\ Finishes(c, k) /\ ShaAfter(c, good) /\ ~PairedMajorBump
  /\ spare' = Written(c, good)
  /\ PublishProgress(chunksReceived + 1)
  /\ FailSession
  /\ NotifyOtaAbort
  /\ UNCHANGED <<pairVars, restarting, offered, boot, running, uartVars, rpVars>>

SoloCommit(c, k, good) ==
  /\ Finishes(c, k) /\ ShaAfter(c, good) /\ ~PairedMajorBump
  /\ CanEnd(Written(c, good), UpdateWritten)
  /\ spare' = Ended(Written(c, good))
  /\ boot' = "spare"
  /\ PublishProgress(chunksReceived + 1)
  /\ Publish("verified")
  /\ ResetSession
  /\ restarting' = TRUE
  /\ UNCHANGED <<pairVars, otaActive, offered, running, uartVars, rpVars>>

HandleChunk(c, k, good) ==
  /\ c \in offered
  /\ \/ DuplicateChunk(c, k)
     \/ OutOfOrderChunk(c, k)
     \/ ForwardChunk(c, k, good)
     \/ FailWrite(c, k)
     \/ WriteChunk(c, k, good)
     \/ ShaMismatch(c, k, good)
     \/ DeferCommit(c, k, good)
     \/ SoloEndFails(c, k, good)
     \/ SoloCommit(c, k, good)

----------------------------------------------------------------------------
(***************************************************************************)
(* pushChunkToRp while it polls the UART.  Only UART handlers run: MQTT is *)
(* not pumped.                                                             *)
(***************************************************************************)

\* Two faulty variants of the next: no bound on the attempts, and an attempt
\* that is not counted.
PushUnbounded ==
  /\ push' = [push EXCEPT !.attempt = @ + 1]
  /\ ack' = NoAck
  /\ toRp' = Sent(toRp, ChunkMsg(image, push.idx, push.good))
  /\ UNCHANGED <<active, targetRp, commandId, image, chunksReceived, shaOk,
                 radioVars, upd, verdict>>

PushUncounted ==
  /\ UNCHANGED push
  /\ ack' = NoAck
  /\ toRp' = Sent(toRp, ChunkMsg(image, push.idx, push.good))
  /\ UNCHANGED <<active, targetRp, commandId, image, chunksReceived, shaOk,
                 radioVars, upd, verdict>>

\* A timeout, an acknowledgement of another chunk, or status 4: the same chunk
\* again, until the attempts are spent.
PushAgain ==
  \/ /\ push.attempt < MaxRetries
     /\ push' = [push EXCEPT !.attempt = @ + 1]
     /\ ack' = NoAck
     /\ toRp' = Sent(toRp, ChunkMsg(image, push.idx, push.good))
     /\ UNCHANGED <<active, targetRp, commandId, image, chunksReceived, shaOk,
                    radioVars, upd, verdict>>
  \/ \* attempts spent, or the UART refuses a fragment
     /\ FailSession
     /\ UNCHANGED toRp

PushTimeout ==
  /\ Blocked /\ ack = NoAck
  /\ PushAgain
  /\ UNCHANGED <<pairVars, restarting, otaActive, spare, boot, running,
                 progress, offered, fromRp, rpVars>>

PushRetried ==
  /\ Blocked /\ ack # NoAck
  /\ ack.idx # push.idx \/ ack.status = 4
  /\ PushAgain
  /\ UNCHANGED <<pairVars, restarting, otaActive, spare, boot, running,
                 progress, offered, fromRp, rpVars>>

PushRefused ==
  /\ Blocked /\ ack # NoAck
  /\ ack.idx = push.idx /\ ack.status \in {1, 2, 3}
  /\ FailSession
  /\ UNCHANGED <<pairVars, restarting, otaActive, spare, boot, running,
                 progress, offered, uartVars, rpVars>>

\* The chunk is acknowledged; after the last one the session is complete, the
\* device stays up and goes back to its normal mode.
PushAccepted ==
  /\ Blocked /\ ack # NoAck
  /\ ack.idx = push.idx /\ ack.status = 0
  /\ PublishProgress(chunksReceived + 1)
  /\ IF LastChunk
     THEN /\ Publish("verified")
          /\ ResetSession
          /\ NotifyOtaAbort
     ELSE /\ chunksReceived' = chunksReceived + 1
          /\ push' = NoPush
          /\ UNCHANGED <<active, targetRp, commandId, image, shaOk, ack,
                         radioVars, upd, verdict, otaActive>>
  /\ UNCHANGED <<pairVars, restarting, offered, spare, boot, running, uartVars, rpVars>>

----------------------------------------------------------------------------
(***************************************************************************)
(* UART handlers on the ESP.  They run from uart_->loop(): in the main     *)
(* loop, and while a push is waiting; not while flushAndRestart pumps.     *)
(***************************************************************************)
UartPolled == Blocked \/ ~restarting

Incoming(kind) == UartPolled /\ fromRp # <<>> /\ Head(fromRp).kind = kind

HandleOtaChunkAck ==
  /\ Incoming("ack")
  /\ LET m == Head(fromRp) IN
     ack' = IF active /\ targetRp /\ m.image = image
            THEN [idx |-> m.idx, status |-> m.status] ELSE ack
  /\ fromRp' = Tail(fromRp)
  /\ UNCHANGED <<active, targetRp, commandId, image, chunksReceived, shaOk, push,
                 radioVars, pairVars, restarting, otaActive, flashVars,
                 portalVars, toRp, rpVars>>

\* Without a verified image waiting the commit is ignored.
CommitIgnored ==
  /\ Incoming("commit") /\ ~pending
  /\ fromRp' = Tail(fromRp)
  /\ UNCHANGED <<rcvVars, radioVars, pairVars, restarting, otaActive, flashVars,
                 portalVars, toRp, rpVars>>

\* A faulty variant of the next: the failure ends the update mode, whosever it is.
CommitFailsOpening ==
  /\ Incoming("commit") /\ pending
  /\ upd' = UpdateIdle
  /\ NotifyOtaAbort
  /\ fromRp' = Tail(fromRp)
  /\ UNCHANGED <<rcvVars, radioVars, pairVars, restarting, spare, boot, running,
                 portalVars, toRp, rpVars>>

\* Update.end fails: no restart, and espVerifiedPending_ stays set.
CommitFails ==
  /\ Incoming("commit") /\ pending
  /\ upd' = UpdateIdle
  /\ fromRp' = Tail(fromRp)
  /\ UNCHANGED <<rcvVars, radioVars, pairVars, restarting, otaActive, spare,
                 boot, running, portalVars, toRp, rpVars>>

\* The boot flag moves and flushAndRestart begins.  A push this handler runs
\* inside of is never resumed.
CommitSucceeds ==
  /\ Incoming("commit") /\ pending
  /\ CanEnd(spare, upd)
  /\ spare' = Ended(spare) /\ boot' = "spare" /\ upd' = UpdateIdle
  /\ restarting' = TRUE
  /\ push' = NoPush
  /\ fromRp' = Tail(fromRp)
  /\ UNCHANGED <<active, targetRp, commandId, image, chunksReceived, shaOk, ack,
                 radioVars, pairVars, otaActive, running, portalVars, toRp,
                 rpVars>>

HandleOtaCommitNow == CommitIgnored \/ CommitFails \/ CommitSucceeds

\* tick: the periodic OtaStatus reaches the RP2040.
Tick ==
  /\ HasUart /\ ~Blocked /\ ~restarting
  /\ rp' = [rp EXCEPT !.espReady = pending,
                      !.espMajor = IF pending THEN espTargetMajor ELSE 0]
  /\ UNCHANGED <<rcvVars, radioVars, pairVars, restarting, otaActive, flashVars,
                 portalVars, uartVars, rpCommits>>

\* The bootloader starts the flagged partition if it holds a bootable image and
\* falls back to the current one otherwise.  RAM starts afresh.
Reboot ==
  /\ IF boot = "spare" /\ spare.sealed
     THEN /\ running' = [image |-> spare.image, clean |-> spare.clean]
          /\ spare' = [image |-> NoImage, n |-> 0, clean |-> TRUE, sealed |-> FALSE]
     ELSE UNCHANGED <<running, spare>>
  /\ boot' = "current"
  /\ upd' = UpdateIdle
  /\ active' = FALSE /\ targetRp' = FALSE /\ restarting' = FALSE
  /\ commandId' = NoImage /\ image' = NoImage
  /\ chunksReceived' = 0 /\ shaOk' = FALSE
  /\ ack' = NoAck /\ push' = NoPush
  /\ pending' = FALSE /\ espTargetMajor' = 0
  /\ otaActive' = FALSE /\ radioHeld' = FALSE /\ radioDepth' = 0
  /\ fromRp' = <<>>
  /\ UNCHANGED <<portalVars, toRp, rpVars>>

\* A faulty variant of the next: the flush waits for a session to end.
RestartWhenIdle == restarting /\ ~active /\ ~Blocked /\ Reboot

Restart == restarting /\ ~Blocked /\ Reboot

PowerLoss == ~restarting /\ Reboot

----------------------------------------------------------------------------
(***************************************************************************)
(* The RP2040 (external) and the UART frames that CRC errors destroy.      *)
(***************************************************************************)
ToRp(kind) == toRp # <<>> /\ Head(toRp).kind = kind

EspUnchanged == UNCHANGED <<rcvVars, radioVars, pairVars, restarting, otaActive,
                            flashVars, portalVars>>

RpAnnounce ==
  /\ ToRp("announce")
  /\ rp' = [rp EXCEPT !.image = Head(toRp).image, !.n = 0, !.clean = TRUE]
  /\ toRp' = Tail(toRp)
  /\ UNCHANGED <<fromRp, rpCommits>> /\ EspUnchanged

\* Chunks in order are stored, duplicates acknowledged again, gaps refused; a
\* chunk with a lost fragment is asked for again; the last one is hashed, and a
\* wrong hash or a flash error ends the session.
RpStores(m) == m.idx = rp.n /\ rp.n < ChunksOf[rp.image]

RpStatuses(m) ==
  IF m.idx < rp.n THEN {0}
  ELSE IF ~RpStores(m) THEN {3}
  ELSE {2, 4, IF rp.n + 1 = ChunksOf[rp.image] /\ ~(rp.clean /\ m.good) THEN 1 ELSE 0}

RpChunk ==
  /\ ToRp("chunk")
  /\ LET m == Head(toRp) IN
     IF rp.image = m.image /\ m.image \in Images
     THEN \E s \in RpStatuses(m) :
            /\ fromRp' = Sent(fromRp, AckMsg(m.image, m.idx, s))
            /\ rp' = CASE RpStores(m) /\ s = 0 ->
                            [rp EXCEPT !.n = @ + 1, !.clean = @ /\ m.good]
                       [] s \in {1, 2} -> [rp EXCEPT !.image = NoImage, !.n = 0]
                       [] OTHER -> rp
     ELSE UNCHANGED <<fromRp, rp>>
  /\ toRp' = Tail(toRp)
  /\ UNCHANGED rpCommits /\ EspUnchanged

RpVerified == rp.image \in Images /\ rp.n = ChunksOf[rp.image] /\ rp.clean

\* Both images downloaded and the device idle: the RP2040 commits.  It may
\* send the frame again.
RpCommit ==
  /\ HasUart /\ RpVerified /\ rp.espReady /\ MajorOf[rp.image] = rp.espMajor
  /\ fromRp' = Sent(fromRp, CommitMsg)
  /\ rpCommits' = rpCommits \cup {rp.espMajor}
  /\ UNCHANGED <<rp, toRp>> /\ EspUnchanged

LoseToRp ==
  /\ toRp # <<>> /\ toRp' = Tail(toRp)
  /\ UNCHANGED <<fromRp, rpVars>> /\ EspUnchanged

LoseFromRp ==
  /\ fromRp # <<>> /\ fromRp' = Tail(fromRp)
  /\ UNCHANGED <<toRp, rpVars>> /\ EspUnchanged

RpNext == RpAnnounce \/ RpChunk \/ RpCommit \/ LoseToRp \/ LoseFromRp

----------------------------------------------------------------------------
MaxChunkIdx == CHOOSE m \in {ChunksOf[i] : i \in Images} :
                 \A i \in Images : ChunksOf[i] <= m

PushStep == PushTimeout \/ PushRetried \/ PushRefused \/ PushAccepted

Next ==
  \/ \E i \in Images : HandleAnnounce(i)
  \/ \E c \in Images, k \in 0..MaxChunkIdx, good \in BOOLEAN : HandleChunk(c, k, good)
  \/ PushStep
  \/ HandleOtaChunkAck
  \/ HandleOtaCommitNow
  \/ Tick
  \/ Restart
  \/ PowerLoss
  \/ RpNext

Spec == Init /\ [][Next]_vars

\* The polling loop of a push is not interrupted: its timer or an answer ends
\* each attempt.  The flush of flushAndRestart is bounded by two timers, which
\* run on while the nested MQTT loop serves messages.
FairSpec == Spec /\ WF_vars(PushStep) /\ SF_vars(Restart)

----------------------------------------------------------------------------
(***************************************************************************)
(* Properties                                                              *)
(***************************************************************************)
Contents == [image: Images \cup {NoImage}, n: Nat, clean: BOOLEAN, sealed: BOOLEAN]
RpFrames == [kind: {"chunk", "announce"}, image: Images \cup {NoImage},
             idx: Nat, good: BOOLEAN]
EspFrames == [kind: {"ack", "commit"}, image: Images \cup {NoImage},
              idx: Nat, status: AckStatuses]

FlagTypeOK ==
  /\ active \in BOOLEAN /\ targetRp \in BOOLEAN /\ shaOk \in BOOLEAN
  /\ radioHeld \in BOOLEAN /\ pending \in BOOLEAN
  /\ restarting \in BOOLEAN /\ otaActive \in BOOLEAN

RcvTypeOK ==
  /\ commandId \in Images \cup {NoImage} /\ image \in Images \cup {NoImage}
  /\ chunksReceived \in Nat
  /\ ack \in [idx: Nat, status: AckStatuses \cup {-1}]
  /\ push \in [idx: Nat, attempt: 0..MaxRetries, good: BOOLEAN]
  /\ radioDepth \in 0..MaxDepth

FlashTypeOK ==
  /\ upd \in [running: BOOLEAN, written: Nat]
  /\ spare \in Contents /\ boot \in {"current", "spare"}
  /\ running \in [image: Images \cup {Factory}, clean: BOOLEAN]

PortalTypeOK ==
  /\ verdict \in [Images -> Verdicts] /\ progress \in [Images -> Nat]
  /\ offered \subseteq Images

PairTypeOK ==
  /\ espTargetMajor \in Nat
  /\ toRp \in Seq(RpFrames) /\ fromRp \in Seq(EspFrames)
  /\ rp \in [image: Images \cup {NoImage}, n: Nat, clean: BOOLEAN,
              espReady: BOOLEAN, espMajor: Nat]
  /\ rpCommits \subseteq Nat

\* Every variable has the type its declaration in the code gives it; a push
\* makes no more attempts than MAX_RETRIES, the busy counter stays in its byte.
TypeOK == FlagTypeOK /\ RcvTypeOK /\ FlashTypeOK /\ PortalTypeOK /\ PairTypeOK

\* Whatever the broker delivers, and wherever the power goes, the device only
\* ever runs an image all of whose bytes are those of the announced one.
NeverRunsCorrupt == running.clean

\* A DRYER never starts an image of another major version before the RP2040
\* has begun its own commit to that major, whenever it loses power.
MajorBumpNeedsCommit ==
  HasUart /\ (\A i \in Images \cup {Factory} : MajorOf[i] # 0) =>
    /\ MajorOf[running.image] \in {MajorOf[Factory]} \cup rpCommits
    /\ boot = "spare" /\ spare.sealed =>
         MajorOf[spare.image] \in {MajorOf[running.image]} \cup rpCommits

\* While an image is being written the hash context and the flash have seen the
\* same bytes: as many chunks as were counted, none twice, none skipped.
FlashFollowsSession ==
  active /\ ~targetRp /\ upd.running =>
    /\ upd.written = chunksReceived
    /\ chunksReceived > 0 =>
         /\ spare.n = chunksReceived /\ ~spare.sealed
         /\ shaOk => spare.image = image /\ spare.clean

\* The busy mark is put and taken the same number of times, and outlives no
\* session: otherwise the device would never again look for a better access
\* point.
RadioBalanced ==
  /\ radioDepth = IF radioHeld THEN 1 ELSE 0
  /\ radioHeld => active /\ targetRp

\* Commands stay rejected and telemetry silent as long as an image is on its way.
GateClosed == active => otaActive

\* The portal is never told of more chunks than the session has taken, so it
\* never skips one that was lost.
ProgressNotAhead ==
  active => progress[image] <= chunksReceived

\* "verified" is published for an ESP image only when the spare partition holds
\* all of it, intact.
VerdictSound ==
  [][\A i \in Images :
       verdict'[i] = "verified" /\ verdict[i] # "verified" /\ TargetOf[i] = "esp"
         => spare'.image = i /\ spare'.n = ChunksOf[i] /\ spare'.clean]_vars

\* ... and for an RP2040 image only when the RP2040 has stored and hashed it.
ProxyVerdictSound ==
  [][\A i \in Images :
       verdict'[i] = "verified" /\ verdict[i] # "verified" /\ TargetOf[i] = "rp2040"
         => rp.image = i /\ RpVerified]_vars

MakesOtherMajorBootable ==
  /\ HasUart /\ MajorOf[running.image] # 0
  /\ spare' # spare /\ boot' = "spare" /\ spare'.sealed
  /\ MajorOf[spare'.image] # MajorOf[running.image]

\* On a DRYER an image of another major becomes bootable only in the handler of
\* an OtaCommitNow frame: the chunk handler never moves the boot flag onto one.
MajorBumpOnlyOnCommit == [][MakesOtherMajorBootable => Incoming("commit")]_vars

\* pushChunkToRp never blocks the device for good.
PushTerminates == Blocked ~> ~Blocked

\* Once the boot flag has moved the device does restart.
RestartHappens == restarting ~> ~restarting

----------------------------------------------------------------------------
(***************************************************************************)
(* What the comments and the contract say and the code does not do: TLC    *)
(* finds each of them violated (README, Findings).                         *)
(***************************************************************************)

\* "After a failed download they come back by themselves": the Link gate is
\* closed only while an update is under way.
GateReopens == otaActive => active \/ pending \/ restarting

\* The radio is marked busy for the time of an update, so no scan falls on it.
RadioHeldDuringUpdate == active => radioHeld

\* "verified: SHA OK, ready to reboot": until the restart that follows, the
\* boot flag names the image that was verified.
RestartsIntoVerified == restarting => boot = "spare" /\ spare.sealed

=============================================================================
