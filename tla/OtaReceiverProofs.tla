------------------------- MODULE OtaReceiverProofs -------------------------
(***************************************************************************)
(* What OtaReceiver guarantees for every set of images, every number of    *)
(* chunks and every bound.                                                 *)
(***************************************************************************)
EXTENDS OtaReceiver, TLAPS

USE DEF rcvVars, radioVars, pairVars, flashVars, portalVars, uartVars, rpVars

----------------------------------------------------------------------------
(***************************************************************************)
(* Types.  After a restart the device runs what was sealed, so the type of *)
(* running needs to know that a sealed image is one that was announced.    *)
(***************************************************************************)
SealedImage == spare.sealed => spare.image \in Images
TypeInv == TypeOK /\ SealedImage
UpdTypes == [running: BOOLEAN, written: Nat]

\* A frame that is sent, or lost to an overrun, leaves a sequence of frames.
LEMMA SentTypes ==
  ASSUME NEW S, NEW ch \in Seq(S), NEW m \in S
  PROVE  Sent(ch, m) \in Seq(S)
BY DEF Sent

\* Every frame the two chips exchange is one of the declared frames.
LEMMA MessageTypes ==
  ASSUME NEW i \in Images \cup {NoImage}, NEW k \in Nat, NEW g \in BOOLEAN,
         NEW s \in AckStatuses
  PROVE  /\ ChunkMsg(i, k, g) \in RpFrames /\ AnnounceMsg(i) \in RpFrames
         /\ AckMsg(i, k, s) \in EspFrames /\ CommitMsg \in EspFrames
BY DEF ChunkMsg, AnnounceMsg, AckMsg, CommitMsg, RpFrames, EspFrames, AckStatuses

\* Writing a chunk leaves a content; it never seals one.
LEMMA WrittenTypes ==
  ASSUME TypeInv, NEW c \in Images, NEW good \in BOOLEAN
  PROVE  /\ Written(c, good) \in Contents
         /\ Written(c, good).sealed => Written(c, good).image \in Images
BY DEF Written, TypeInv, TypeOK, FlashTypeOK, Contents, SealedImage

\* Update.end seals only an announced image.
LEMMA EndedTypes ==
  ASSUME NEW s \in Contents, NEW u, CanEnd(s, u)
  PROVE  Ended(s) \in Contents /\ Ended(s).image \in Images
BY DEF Ended, CanEnd, Contents

\* The Update object keeps its type whichever of its operations runs.
LEMMA UpdateTypes ==
  ASSUME TypeOK
  PROVE  /\ UpdateAfterAbort \in UpdTypes /\ UpdateWritten \in UpdTypes
         /\ UpdateOpen \in UpdTypes /\ UpdateIdle \in UpdTypes
BY DEF TypeOK, FlashTypeOK, UpdateAfterAbort, UpdateWritten, UpdateOpen, UpdateIdle, UpdTypes

\* The busy counter neither underflows nor leaves its byte.
LEMMA DepthTypes ==
  ASSUME TypeOK
  PROVE  /\ DepthAfterAbort \in 0..MaxDepth
         /\ RadioBusyBegin(DepthAfterAbort) \in 0..MaxDepth
         /\ RadioBusyEnd(radioDepth) \in 0..MaxDepth
BY BoundsAssumption
DEF TypeOK, RcvTypeOK, DepthAfterAbort, RadioBusyBegin, RadioBusyEnd

\* resetSession keeps the types of what it assigns.
LEMMA ResetTypes ==
  ASSUME TypeOK, ResetSession
  PROVE  RcvTypeOK' /\ upd' \in UpdTypes
<1>1. RcvTypeOK'
  BY DepthTypes, BoundsAssumption
  DEF ResetSession, TypeOK, RcvTypeOK, NoAck, NoPush, AckStatuses
<1>2. upd' \in UpdTypes
  BY UpdateTypes DEF ResetSession, TypeOK, FlashTypeOK, UpdTypes
<1> QED
  BY <1>1, <1>2

\* What is published is a verdict; what is reported is a count.
LEMMA PublishTypes ==
  ASSUME TypeOK, NEW st \in Verdicts, Publish(st)
  PROVE  verdict' \in [Images -> Verdicts]
BY DEF Publish, TypeOK, PortalTypeOK

\* A progress report keeps the type of the portal's counts.
LEMMA ProgressTypes ==
  ASSUME TypeOK, NEW n \in Nat, PublishProgress(n)
  PROVE  progress' \in [Images -> Nat]
BY DEF PublishProgress, TypeOK, PortalTypeOK

\* One more attempt of a push, or its failure, keeps every type.
LEMMA PushAgainTypes ==
  ASSUME TypeInv, PushAgain
  PROVE  /\ RcvTypeOK' /\ upd' \in UpdTypes
         /\ verdict' \in [Images -> Verdicts] /\ toRp' \in Seq(RpFrames)
<1> USE DEF TypeInv, TypeOK
<1>1. CASE FailSession /\ UNCHANGED toRp
  BY <1>1, ResetTypes, PublishTypes DEF FailSession, Verdicts, PairTypeOK
<1>2. CASE /\ push.attempt < MaxRetries
           /\ push' = [push EXCEPT !.attempt = @ + 1]
           /\ ack' = NoAck
           /\ toRp' = Sent(toRp, ChunkMsg(image, push.idx, push.good))
           /\ UNCHANGED <<active, targetRp, commandId, image, chunksReceived, shaOk,
                          radioVars, upd, verdict>>
  <2>1. push' \in [idx: Nat, attempt: 0..MaxRetries, good: BOOLEAN]
    BY <1>2, BoundsAssumption DEF RcvTypeOK
  <2>2. RcvTypeOK'
    BY <1>2, <2>1 DEF RcvTypeOK, NoAck, AckStatuses
  <2>3. ChunkMsg(image, push.idx, push.good) \in RpFrames
    BY DEF RcvTypeOK, ChunkMsg, RpFrames
  <2> QED
    BY <1>2, <2>2, <2>3, SentTypes
    DEF RcvTypeOK, FlashTypeOK, PortalTypeOK, PairTypeOK, UpdTypes
<1> QED
  BY <1>1, <1>2 DEF PushAgain

\* The initial state has the declared types.
LEMMA InitTypes == Init => TypeInv
<1> SUFFICES ASSUME Init PROVE TypeInv
  OBVIOUS
<1>1. FlagTypeOK
  BY DEF Init, FlagTypeOK
<1>2. RcvTypeOK
  BY BoundsAssumption DEF Init, RcvTypeOK, NoAck, NoPush, AckStatuses
<1>3. FlashTypeOK /\ SealedImage
  BY DEF Init, FlashTypeOK, SealedImage, Contents, UpdateIdle
<1>4. PortalTypeOK
  BY DEF Init, PortalTypeOK, Verdicts
<1>5. PairTypeOK
  BY DEF Init, PairTypeOK
<1> QED
  BY <1>1, <1>2, <1>3, <1>4, <1>5 DEF TypeOK, TypeInv

\* handleAnnounce keeps every type, whichever way it answers.
LEMMA AnnounceTypes ==
  ASSUME TypeInv, NEW i \in Images, HandleAnnounce(i)
  PROVE  TypeInv'
<1> USE DEF TypeInv, TypeOK
<1>1. CASE AnnounceRefused(i)
  BY <1>1 DEF AnnounceRefused, Reject, FlagTypeOK, RcvTypeOK, FlashTypeOK,
              PortalTypeOK, PairTypeOK, SealedImage, Verdicts
<1>2. CASE AnnounceBadSha(i)
  <2> USE <1>2 DEF AnnounceBadSha, Reject, TakeUp
  <2>1. FlagTypeOK'
    BY DEF FlagTypeOK, HeldAfterAbort
  <2>2. RcvTypeOK'
    BY DepthTypes DEF RcvTypeOK, NoAck, AckStatuses
  <2>3. FlashTypeOK' /\ SealedImage'
    BY UpdateTypes DEF FlashTypeOK, SealedImage, UpdTypes
  <2>4. PortalTypeOK' /\ PairTypeOK'
    BY DEF PortalTypeOK, PairTypeOK, Verdicts
  <2> QED
    BY <2>1, <2>2, <2>3, <2>4
<1>3. CASE AnnounceRp(i)
  <2>1. CASE /\ TakeUp(i)
             /\ active' = TRUE /\ targetRp' = TRUE
             /\ image' = i /\ shaOk' = FALSE
             /\ radioHeld' = TRUE
             /\ radioDepth' = IF HeldAfterAbort THEN DepthAfterAbort
                              ELSE RadioBusyBegin(DepthAfterAbort)
             /\ upd' = UpdateAfterAbort
             /\ toRp' = Sent(toRp, AnnounceMsg(i))
             /\ NotifyOtaBegin
             /\ Accept(i)
    <3> USE <2>1 DEF TakeUp
    <3>1. FlagTypeOK'
      BY DEF FlagTypeOK, NotifyOtaBegin
    <3>2. RcvTypeOK'
      BY DepthTypes DEF RcvTypeOK, NoAck, AckStatuses
    <3>3. FlashTypeOK' /\ SealedImage'
      BY UpdateTypes DEF FlashTypeOK, SealedImage, UpdTypes
    <3>4. PortalTypeOK'
      BY DEF PortalTypeOK, Accept, Verdicts
    <3>5. AnnounceMsg(i) \in RpFrames
      BY DEF AnnounceMsg, RpFrames
    <3>6. PairTypeOK'
      BY <3>5, SentTypes DEF PairTypeOK
    <3> QED
      BY <3>1, <3>2, <3>3, <3>4, <3>6
  <2>2. CASE /\ ResetSession
             /\ Reject(i)
             /\ progress' = [progress EXCEPT ![i] = 0]
             /\ UNCHANGED <<pairVars, restarting, otaActive, spare, boot, running,
                            uartVars, rpVars>>
    <3>1. FlagTypeOK'
      BY <2>2 DEF FlagTypeOK, ResetSession
    <3>2. FlashTypeOK' /\ SealedImage'
      BY <2>2, ResetTypes DEF FlashTypeOK, SealedImage, UpdTypes
    <3>3. PortalTypeOK' /\ PairTypeOK'
      BY <2>2 DEF PortalTypeOK, PairTypeOK, Reject, Verdicts
    <3> QED
      BY <2>2, <3>1, <3>2, <3>3, ResetTypes
  <2> QED
    BY <1>3, <2>1, <2>2 DEF AnnounceRp
<1>4. CASE AnnounceEsp(i)
  <2> USE <1>4 DEF AnnounceEsp, TakeUp
  <2>1. FlagTypeOK'
    BY DEF FlagTypeOK, HeldAfterAbort, NotifyOtaBegin
  <2>2. RcvTypeOK'
    BY DepthTypes DEF RcvTypeOK, NoAck, AckStatuses
  <2>3. upd' \in UpdTypes
    BY UpdateTypes
  <2>4. FlashTypeOK' /\ SealedImage'
    BY <2>3 DEF FlashTypeOK, SealedImage, UpdTypes
  <2>5. PortalTypeOK' /\ PairTypeOK'
    BY DEF PortalTypeOK, PairTypeOK, Accept, Reject, Verdicts
  <2> QED
    BY <2>1, <2>2, <2>4, <2>5
<1> QED
  BY <1>1, <1>2, <1>3, <1>4 DEF HandleAnnounce

\* The error exits: publishComplete, then resetSession.
LEMMA FailTypes ==
  ASSUME TypeInv, FailSession, UNCHANGED <<pairVars, restarting, spare, boot, running,
                                           offered, fromRp, rpVars>>,
         otaActive' \in BOOLEAN, progress' \in [Images -> Nat], toRp' = toRp
  PROVE  TypeOK'
<1> USE DEF TypeInv, TypeOK, FailSession
<1>1. FlagTypeOK'
  BY DEF FlagTypeOK, ResetSession
<1>2. FlashTypeOK'
  BY ResetTypes DEF FlashTypeOK, UpdTypes
<1>3. PortalTypeOK' /\ PairTypeOK'
  BY PublishTypes DEF PortalTypeOK, PairTypeOK, Verdicts
<1> QED
  BY <1>1, <1>2, <1>3, ResetTypes

\* handleChunk keeps every type.
LEMMA ChunkTypes ==
  ASSUME TypeInv, NEW c \in Images, NEW k \in Nat, NEW good \in BOOLEAN,
         HandleChunk(c, k, good)
  PROVE  TypeInv'
<1> USE DEF TypeInv, TypeOK
<1>0. chunksReceived \in Nat /\ chunksReceived + 1 \in Nat
  BY DEF RcvTypeOK
<1>w. Written(c, good) \in Contents
      /\ (Written(c, good).sealed => Written(c, good).image \in Images)
  BY WrittenTypes
<1>1. CASE DuplicateChunk(c, k)
  <2>1. PortalTypeOK'
    BY <1>0, <1>1, ProgressTypes DEF DuplicateChunk, PortalTypeOK
  <2> QED
    BY <1>1, <2>1 DEF DuplicateChunk, FlagTypeOK, RcvTypeOK, FlashTypeOK, PairTypeOK,
                      SealedImage
<1>2. CASE OutOfOrderChunk(c, k)
  BY <1>2, FailTypes DEF OutOfOrderChunk, FlagTypeOK, PortalTypeOK, SealedImage
<1>3. CASE ForwardChunk(c, k, good)
  <2>1. CASE FailSession /\ UNCHANGED toRp
    BY <1>3, <2>1, FailTypes DEF ForwardChunk, FlagTypeOK, PortalTypeOK, SealedImage
  <2>2. CASE /\ push' = [idx |-> k, attempt |-> 1, good |-> good /\ c = image]
             /\ ack' = NoAck
             /\ toRp' = Sent(toRp, ChunkMsg(image, k, good /\ c = image))
             /\ UNCHANGED <<active, targetRp, commandId, image, chunksReceived,
                            shaOk, radioVars, upd, verdict>>
    <3>1. push' \in [idx: Nat, attempt: 0..MaxRetries, good: BOOLEAN]
      BY <2>2, BoundsAssumption
    <3>2. RcvTypeOK'
      BY <2>2, <3>1 DEF RcvTypeOK, NoAck, AckStatuses
    <3>3. ChunkMsg(image, k, good /\ c = image) \in RpFrames
      BY DEF RcvTypeOK, ChunkMsg, RpFrames
    <3>4. PairTypeOK'
      BY <1>3, <2>2, <3>3, SentTypes DEF ForwardChunk, PairTypeOK
    <3>5. FlagTypeOK'
      BY <1>3, <2>2 DEF ForwardChunk, FlagTypeOK
    <3> QED
      BY <1>3, <2>2, <3>2, <3>4, <3>5
      DEF ForwardChunk, FlashTypeOK, PortalTypeOK, SealedImage
  <2> QED
    BY <1>3, <2>1, <2>2 DEF ForwardChunk
<1>4. CASE FailWrite(c, k)
  BY <1>4, FailTypes DEF FailWrite, FlagTypeOK, PortalTypeOK, SealedImage
<1>5. CASE WriteChunk(c, k, good)
  <2> USE <1>5 DEF WriteChunk
  <2>1. FlagTypeOK'
    BY DEF FlagTypeOK, ShaAfter
  <2>2. RcvTypeOK' /\ PairTypeOK'
    BY <1>0 DEF RcvTypeOK, PairTypeOK
  <2>3. FlashTypeOK' /\ SealedImage'
    BY <1>w, UpdateTypes DEF FlashTypeOK, SealedImage, UpdTypes
  <2>4. PortalTypeOK'
    BY <1>0, ProgressTypes DEF PortalTypeOK
  <2> QED
    BY <2>1, <2>2, <2>3, <2>4
<1>6. CASE ShaMismatch(c, k, good)
  <2> USE <1>6 DEF ShaMismatch, FailSession
  <2>1. FlagTypeOK'
    BY DEF FlagTypeOK, ResetSession, NotifyOtaAbort
  <2>2. RcvTypeOK' /\ FlashTypeOK' /\ SealedImage'
    BY <1>w, ResetTypes DEF FlashTypeOK, SealedImage, UpdTypes
  <2>3. PortalTypeOK' /\ PairTypeOK'
    BY <1>0, PublishTypes, ProgressTypes DEF PortalTypeOK, PairTypeOK, Verdicts
  <2> QED
    BY <2>1, <2>2, <2>3
<1>7. CASE DeferCommit(c, k, good)
  <2> USE <1>7 DEF DeferCommit
  <2>1. image \in Images
    BY DEF DeferCommit, Finishes, CanWrite, InOrder, Accepts, ShaAfter
  <2>2. FlagTypeOK'
    BY DEF FlagTypeOK
  <2>3. RcvTypeOK'
    BY <1>0 DEF RcvTypeOK
  <2>4. FlashTypeOK' /\ SealedImage'
    BY <1>w, UpdateTypes DEF FlashTypeOK, SealedImage, UpdTypes
  <2>5. PortalTypeOK'
    BY <1>0, PublishTypes, ProgressTypes DEF PortalTypeOK, Verdicts
  <2>6. PairTypeOK'
    BY <2>1, ImagesAssumption DEF PairTypeOK
  <2> QED
    BY <2>2, <2>3, <2>4, <2>5, <2>6
<1>8. CASE SoloEndFails(c, k, good)
  <2> USE <1>8 DEF SoloEndFails, FailSession
  <2>1. FlagTypeOK'
    BY DEF FlagTypeOK, ResetSession, NotifyOtaAbort
  <2>2. RcvTypeOK' /\ FlashTypeOK' /\ SealedImage'
    BY <1>w, ResetTypes DEF FlashTypeOK, SealedImage, UpdTypes
  <2>3. PortalTypeOK' /\ PairTypeOK'
    BY <1>0, PublishTypes, ProgressTypes DEF PortalTypeOK, PairTypeOK, Verdicts
  <2> QED
    BY <2>1, <2>2, <2>3
<1>9. CASE SoloCommit(c, k, good)
  <2> USE <1>9 DEF SoloCommit
  <2>1. FlagTypeOK'
    BY DEF FlagTypeOK, ResetSession
  <2>2. spare' \in Contents /\ spare'.image \in Images
    BY <1>w, EndedTypes
  <2>3. RcvTypeOK' /\ FlashTypeOK' /\ SealedImage'
    BY <2>2, ResetTypes DEF FlashTypeOK, SealedImage, UpdTypes
  <2>4. PortalTypeOK' /\ PairTypeOK'
    BY <1>0, PublishTypes, ProgressTypes DEF PortalTypeOK, PairTypeOK, Verdicts
  <2> QED
    BY <2>1, <2>3, <2>4
<1> QED
  BY <1>1, <1>2, <1>3, <1>4, <1>5, <1>6, <1>7, <1>8, <1>9 DEF HandleChunk

\* pushChunkToRp keeps every type.
LEMMA PushTypes ==
  ASSUME TypeInv, PushStep
  PROVE  TypeInv'
<1> USE DEF TypeInv, TypeOK
<1>1. CASE PushTimeout \/ PushRetried
  <2>1. PushAgain /\ UNCHANGED <<pairVars, restarting, otaActive, spare, boot, running,
                                 progress, offered, fromRp, rpVars>>
    BY <1>1 DEF PushTimeout, PushRetried
  <2>2. FlagTypeOK'
    BY <2>1 DEF FlagTypeOK, PushAgain, FailSession, ResetSession
  <2> QED
    BY <2>1, <2>2, PushAgainTypes
    DEF FlashTypeOK, PortalTypeOK, PairTypeOK, SealedImage, UpdTypes
<1>2. CASE PushRefused
  BY <1>2, FailTypes DEF PushRefused, FlagTypeOK, PortalTypeOK, SealedImage
<1>3. CASE PushAccepted
  <2>1. FlagTypeOK'
    BY <1>3 DEF PushAccepted, FlagTypeOK, ResetSession, NotifyOtaAbort
  <2>2. progress' \in [Images -> Nat] /\ chunksReceived + 1 \in Nat
    BY <1>3, ProgressTypes DEF PushAccepted, RcvTypeOK
  <2>3. CASE LastChunk
    <3>1. Publish("verified") /\ ResetSession
      BY <1>3, <2>3 DEF PushAccepted
    <3> QED
      BY <1>3, <2>1, <2>2, <3>1, ResetTypes, PublishTypes
      DEF PushAccepted, FlashTypeOK, PortalTypeOK, PairTypeOK, SealedImage, UpdTypes, Verdicts
  <2>4. CASE ~LastChunk
    <3>0. /\ chunksReceived' = chunksReceived + 1 /\ push' = NoPush
          /\ UNCHANGED <<commandId, image, ack, radioDepth>>
      BY <1>3, <2>4 DEF PushAccepted
    <3>1. RcvTypeOK'
      BY <3>0, BoundsAssumption DEF RcvTypeOK, NoPush
    <3> QED
      BY <1>3, <2>1, <2>2, <2>4, <3>1
      DEF PushAccepted, FlashTypeOK, PortalTypeOK, PairTypeOK, SealedImage
  <2> QED
    BY <2>3, <2>4
<1> QED
  BY <1>1, <1>2, <1>3 DEF PushStep

\* The handlers of the UART frames, and the periodic status, keep every type.
LEMMA UartTypes ==
  ASSUME TypeInv, HandleOtaChunkAck \/ HandleOtaCommitNow \/ Tick
  PROVE  TypeInv'
<1> USE DEF TypeInv, TypeOK
<1>1. CASE HandleOtaChunkAck
  <2> USE <1>1 DEF HandleOtaChunkAck
  <2>1. Head(fromRp) \in EspFrames /\ Tail(fromRp) \in Seq(EspFrames)
    BY DEF PairTypeOK, Incoming
  <2>2. [idx |-> Head(fromRp).idx, status |-> Head(fromRp).status]
          \in [idx: Nat, status: AckStatuses \cup {-1}]
    BY <2>1 DEF EspFrames
  <2>3. RcvTypeOK'
    BY <2>2 DEF RcvTypeOK
  <2> QED
    BY <2>1, <2>3 DEF FlagTypeOK, FlashTypeOK, PortalTypeOK, PairTypeOK, SealedImage
<1>2. CASE CommitIgnored
  BY <1>2 DEF CommitIgnored, Incoming, FlagTypeOK, RcvTypeOK, FlashTypeOK, PortalTypeOK,
              PairTypeOK, SealedImage
<1>3. CASE CommitFails
  BY <1>3, UpdateTypes DEF CommitFails, Incoming, FlagTypeOK, RcvTypeOK, FlashTypeOK,
              PortalTypeOK, PairTypeOK, SealedImage, UpdTypes
<1>4. CASE CommitSucceeds
  <2> USE <1>4 DEF CommitSucceeds
  <2>1. FlagTypeOK'
    BY DEF FlagTypeOK
  <2>2. RcvTypeOK'
    BY BoundsAssumption DEF RcvTypeOK, NoPush
  <2>3. spare' \in Contents /\ spare'.image \in Images
    BY EndedTypes DEF FlashTypeOK
  <2>4. FlashTypeOK' /\ SealedImage'
    BY <2>3, UpdateTypes DEF FlashTypeOK, SealedImage, UpdTypes
  <2> QED
    BY <2>1, <2>2, <2>4 DEF PortalTypeOK, PairTypeOK, Incoming
<1>5. CASE Tick
  <2>1. pending \in BOOLEAN
    BY DEF FlagTypeOK
  <2>2. PairTypeOK'
    <3> DEFINE m == IF pending THEN espTargetMajor ELSE 0
    <3>1. m \in Nat
      BY DEF PairTypeOK
    <3>2. rp' = [rp EXCEPT !.espReady = pending, !.espMajor = m]
      BY <1>5 DEF Tick
    <3> HIDE DEF m
    <3> QED
      BY <1>5, <2>1, <3>1, <3>2 DEF Tick, PairTypeOK
  <2> QED
    BY <1>5, <2>2 DEF Tick, FlagTypeOK, RcvTypeOK, FlashTypeOK, PortalTypeOK, SealedImage
<1> QED
  BY <1>1, <1>2, <1>3, <1>4, <1>5 DEF HandleOtaCommitNow

\* A restart, wanted or not, starts from the declared types.
LEMMA RebootTypes ==
  ASSUME TypeInv, Reboot
  PROVE  TypeInv'
<1> USE DEF TypeInv, TypeOK, Reboot
<1>1. FlagTypeOK'
  BY DEF FlagTypeOK
<1>2. RcvTypeOK'
  BY BoundsAssumption DEF RcvTypeOK, NoAck, NoPush, AckStatuses
<1>3. running' \in [image: Images \cup {Factory}, clean: BOOLEAN] /\ spare' \in Contents
  <2>1. CASE boot = "spare" /\ spare.sealed
    <3>1. spare.image \in Images /\ spare.clean \in BOOLEAN
      BY <2>1 DEF FlashTypeOK, SealedImage, Contents
    <3>2. running' = [image |-> spare.image, clean |-> spare.clean]
      BY <2>1
    <3>3. spare' = [image |-> NoImage, n |-> 0, clean |-> TRUE, sealed |-> FALSE]
      BY <2>1
    <3> QED
      BY <3>1, <3>2, <3>3 DEF Contents
  <2>2. CASE ~(boot = "spare" /\ spare.sealed)
    BY <2>2 DEF FlashTypeOK
  <2> QED
    BY <2>1, <2>2
<1>4. SealedImage'
  BY DEF SealedImage
<1>5. upd' \in UpdTypes
  BY UpdateTypes
<1>6. PortalTypeOK' /\ PairTypeOK'
  BY DEF PortalTypeOK, PairTypeOK
<1> QED
  BY <1>1, <1>2, <1>3, <1>4, <1>5, <1>6 DEF FlashTypeOK, UpdTypes

\* Whatever the RP2040 does touches only the frames and its own state.
LEMMA RpTypes ==
  ASSUME TypeInv, RpNext
  PROVE  TypeInv'
<1> USE DEF TypeInv, TypeOK
<1>1. EspUnchanged
  BY DEF RpNext, RpAnnounce, RpChunk, RpCommit, LoseToRp, LoseFromRp
<1>2. FlagTypeOK' /\ RcvTypeOK' /\ FlashTypeOK' /\ PortalTypeOK' /\ SealedImage'
  BY <1>1 DEF EspUnchanged, FlagTypeOK, RcvTypeOK, FlashTypeOK, PortalTypeOK, SealedImage
<1>3. PairTypeOK'
  <2> USE <1>1 DEF EspUnchanged, PairTypeOK
  <2>0. toRp # <<>> => Head(toRp) \in RpFrames /\ Tail(toRp) \in Seq(RpFrames)
    OBVIOUS
  <2>1. CASE RpAnnounce
    BY <2>0, <2>1 DEF RpAnnounce, ToRp, RpFrames
  <2>2. CASE RpChunk
    <3> DEFINE m == Head(toRp)
    <3>1. m \in RpFrames /\ toRp' \in Seq(RpFrames) /\ UNCHANGED rpCommits
      BY <2>0, <2>2 DEF RpChunk, ToRp
    <3>2. CASE UNCHANGED <<fromRp, rp>>
      BY <3>1, <3>2
    <3>3. CASE m.image \in Images /\ rp.image = m.image
      <4>1. PICK s \in RpStatuses(m) :
              /\ fromRp' = Sent(fromRp, AckMsg(m.image, m.idx, s))
              /\ rp' = CASE RpStores(m) /\ s = 0 ->
                              [rp EXCEPT !.n = @ + 1, !.clean = @ /\ m.good]
                         [] s \in {1, 2} -> [rp EXCEPT !.image = NoImage, !.n = 0]
                         [] OTHER -> rp
        BY <2>2, <3>3 DEF RpChunk
      <4>2. s \in AckStatuses
        BY DEF RpStatuses, AckStatuses
      <4>3. AckMsg(m.image, m.idx, s) \in EspFrames
        BY <3>1, <3>3, <4>2 DEF AckMsg, EspFrames, RpFrames
      <4>4. fromRp' \in Seq(EspFrames)
        BY <4>1, <4>3, SentTypes
      <4>5. rp' \in [image: Images \cup {NoImage}, n: Nat, clean: BOOLEAN,
                     espReady: BOOLEAN, espMajor: Nat]
        <5>1. CASE RpStores(m) /\ s = 0
          <6>1. rp' = [rp EXCEPT !.n = @ + 1, !.clean = @ /\ m.good]
            BY <4>1, <5>1
          <6>2. PICK b \in BOOLEAN : b = (rp.clean /\ m.good)
            OBVIOUS
          <6>n. PICK n \in Nat : n = rp.n + 1
            OBVIOUS
          <6>3. rp' = [rp EXCEPT !.n = n, !.clean = b]
            BY <6>1, <6>2, <6>n
          <6> QED
            BY <6>3
        <5>2. CASE ~(RpStores(m) /\ s = 0) /\ s \in {1, 2}
          BY <4>1, <5>2
        <5>3. CASE ~(RpStores(m) /\ s = 0) /\ s \notin {1, 2}
          BY <4>1, <5>3
        <5> QED
          BY <5>1, <5>2, <5>3
      <4> QED
        BY <3>1, <4>4, <4>5
    <3> QED
      BY <2>2, <3>2, <3>3 DEF RpChunk
  <2>3. CASE RpCommit
    <3>1. CommitMsg \in EspFrames
      BY DEF CommitMsg, EspFrames, AckStatuses
    <3>2. fromRp' \in Seq(EspFrames)
      BY <2>3, <3>1, SentTypes DEF RpCommit
    <3> QED
      BY <2>3, <3>2 DEF RpCommit
  <2>4. CASE LoseToRp
    BY <2>0, <2>4 DEF LoseToRp
  <2>5. CASE LoseFromRp
    <3>1. Tail(fromRp) \in Seq(EspFrames)
      BY <2>5 DEF LoseFromRp
    <3> QED
      BY <2>5, <3>1 DEF LoseFromRp
  <2> QED
    BY <2>1, <2>2, <2>3, <2>4, <2>5 DEF RpNext
<1> QED
  BY <1>2, <1>3

\* Every step keeps every type.
LEMMA TypeStep == TypeInv /\ [Next]_vars => TypeInv'
<1> SUFFICES ASSUME TypeInv, [Next]_vars PROVE TypeInv'
  OBVIOUS
<1>1. ASSUME NEW i \in Images, HandleAnnounce(i) PROVE TypeInv'
  BY <1>1, AnnounceTypes
<1>2. ASSUME NEW c \in Images, NEW k \in 0..MaxChunkIdx, NEW good \in BOOLEAN,
             HandleChunk(c, k, good)
      PROVE  TypeInv'
  BY <1>2, ChunkTypes
<1>3. CASE PushStep
  BY <1>3, PushTypes
<1>4. CASE HandleOtaChunkAck \/ HandleOtaCommitNow \/ Tick
  BY <1>4, UartTypes
<1>5. CASE Restart \/ PowerLoss
  BY <1>5, RebootTypes DEF Restart, PowerLoss
<1>6. CASE RpNext
  BY <1>6, RpTypes
<1>7. CASE UNCHANGED vars
  BY <1>7 DEF vars, TypeInv, TypeOK, FlagTypeOK, RcvTypeOK, FlashTypeOK, PortalTypeOK,
              PairTypeOK, SealedImage
<1> QED
  BY <1>1, <1>2, <1>3, <1>4, <1>5, <1>6, <1>7 DEF Next

\* Type correctness, for every set of images and every bound; it includes that a
\* push of pushChunkToRp never exceeds MAX_RETRIES and that the busy counter of
\* radio_busy.cpp stays within its byte.
THEOREM TypeCorrect == Spec => []TypeOK
<1>1. Init => TypeInv
  BY InitTypes
<1>2. TypeInv /\ [Next]_vars => TypeInv'
  BY TypeStep
<1>3. TypeInv => TypeOK
  BY DEF TypeInv
<1> QED
  BY <1>1, <1>2, <1>3, PTL DEF Spec

----------------------------------------------------------------------------
(***************************************************************************)
(* The session.  The properties of a session lean on each other: the count *)
(* stays below the announced number because the last chunk ends it, a push *)
(* can count a chunk because it runs inside of a session, and the radio    *)
(* mark is taken exactly once because no session leaves one behind.        *)
(***************************************************************************)
ActiveSession ==
  active => /\ image \in Images /\ chunksReceived < ChunksOf[image]
            /\ ~targetRp => TargetOf[image] = "esp"

PushHasSession == Blocked => active /\ targetRp

SessionInv == /\ ActiveSession /\ PushHasSession /\ RadioBalanced
              /\ GateClosed /\ ProgressNotAhead /\ FlashFollowsSession

sessionState == <<active, targetRp, image, chunksReceived, shaOk, push, radioHeld,
                  radioDepth, otaActive, upd, spare, progress>>

\* resetSession leaves no session, no push and no radio mark, whatever happens
\* to the rest of the state.
LEMMA ResetEnds ==
  ASSUME TypeInv, SessionInv, ResetSession
  PROVE  SessionInv'
<1>1. active' = FALSE /\ radioHeld' = FALSE /\ push' = NoPush
  BY DEF ResetSession
<1>2. radioDepth' = 0
  BY DEF ResetSession, SessionInv, RadioBalanced, RadioBusyEnd
<1> QED
  BY <1>1, <1>2 DEF SessionInv, ActiveSession, PushHasSession, RadioBalanced,
     GateClosed, ProgressNotAhead, FlashFollowsSession, Blocked, NoPush

\* What leaves the session alone leaves its invariant alone.
LEMMA SessionUntouched ==
  ASSUME SessionInv, UNCHANGED sessionState
  PROVE  SessionInv'
BY DEF sessionState, SessionInv, ActiveSession, PushHasSession, RadioBalanced,
       GateClosed, ProgressNotAhead, FlashFollowsSession, Blocked, NoPush

\* An announce ends the session it finds before it opens its own.
LEMMA SessionAnnounce ==
  ASSUME TypeInv, SessionInv, NEW i \in Images, HandleAnnounce(i)
  PROVE  SessionInv'
<1>0. push = NoPush /\ ChunksOf[i] \in Nat \ {0}
  BY ImagesAssumption DEF HandleAnnounce, Blocked
<1>1. ~HeldAfterAbort /\ DepthAfterAbort = 0
  BY DEF SessionInv, RadioBalanced, HeldAfterAbort, DepthAfterAbort, RadioBusyEnd
<1>2. i \in DOMAIN progress
  BY DEF TypeInv, TypeOK, PortalTypeOK
<1>3. CASE AnnounceRefused(i)
  BY <1>3, SessionUntouched DEF AnnounceRefused, sessionState
<1>4. CASE AnnounceBadSha(i)
  BY <1>0, <1>1, <1>4 DEF AnnounceBadSha, TakeUp, SessionInv, ActiveSession, PushHasSession,
     RadioBalanced, GateClosed, ProgressNotAhead, FlashFollowsSession, Blocked, NoPush
<1>5. CASE AnnounceRp(i)
  <2>1. CASE ResetSession
    BY <2>1, ResetEnds
  <2>2. CASE ~ResetSession
    <3>1. /\ TakeUp(i) /\ active' = TRUE /\ targetRp' = TRUE /\ image' = i
          /\ radioHeld' = TRUE /\ otaActive' = TRUE
          /\ radioDepth' = RadioBusyBegin(DepthAfterAbort)
      BY <1>1, <1>5, <2>2 DEF AnnounceRp, NotifyOtaBegin
    <3>2. push' = NoPush /\ chunksReceived' = 0 /\ progress'[i] = 0
      BY <1>0, <1>2, <3>1 DEF TakeUp
    <3>3. radioDepth' = 1
      BY <1>1, <3>1, BoundsAssumption DEF RadioBusyBegin
    <3> QED
      BY <1>0, <3>1, <3>2, <3>3 DEF SessionInv, ActiveSession, PushHasSession,
         RadioBalanced, GateClosed, ProgressNotAhead, FlashFollowsSession, Blocked
  <2> QED
    BY <2>1, <2>2
<1>6. CASE AnnounceEsp(i)
  <2>1. /\ push' = NoPush /\ chunksReceived' = 0 /\ progress'[i] = 0 /\ image' = i
        /\ targetRp' = FALSE /\ radioHeld' = FALSE /\ radioDepth' = 0
        /\ TargetOf[i] = "esp" /\ (active' => otaActive' /\ upd' = UpdateOpen)
    BY <1>0, <1>1, <1>2, <1>6 DEF AnnounceEsp, TakeUp, NotifyOtaBegin
  <2> QED
    BY <1>0, <2>1 DEF SessionInv, ActiveSession, PushHasSession, RadioBalanced,
       GateClosed, ProgressNotAhead, FlashFollowsSession, Blocked, UpdateOpen
<1> QED
  BY <1>3, <1>4, <1>5, <1>6 DEF HandleAnnounce

\* A report tells the portal either nothing or the count it is given.
LEMMA ReportNotAhead ==
  ASSUME TypeInv, NEW n \in Nat, PublishProgress(n), image \in Images
  PROVE  progress'[image] \in {progress[image], n}
BY DEF PublishProgress, TypeInv, TypeOK, PortalTypeOK

\* Writing the next chunk breaks the seal of what was there and keeps the count.
LEMMA WrittenFollows ==
  ASSUME TypeInv, SessionInv, NEW c \in Images, NEW k \in Nat, NEW good \in BOOLEAN,
         CanWrite(c, k)
  PROVE  Written(c, good).n = chunksReceived + 1 /\ ~Written(c, good).sealed
<1>1. /\ active /\ ~targetRp /\ upd.running /\ chunksReceived \in Nat
      /\ upd.written = chunksReceived
  BY DEF CanWrite, InOrder, Accepts, SessionInv, FlashFollowsSession, TypeInv, TypeOK,
         RcvTypeOK
<1> QED
  BY <1>1 DEF Written, SessionInv, FlashFollowsSession

\* A chunk that leaves the hash right leaves the partition with the announced
\* bytes and no others.
LEMMA WrittenIntact ==
  ASSUME TypeInv, SessionInv, NEW c \in Images, NEW k \in Nat, NEW good \in BOOLEAN,
         CanWrite(c, k), ShaAfter(c, good)
  PROVE  Written(c, good).image = image /\ Written(c, good).clean
<1>1. /\ active /\ ~targetRp /\ upd.running /\ chunksReceived \in Nat
      /\ upd.written = chunksReceived
  BY DEF CanWrite, InOrder, Accepts, SessionInv, FlashFollowsSession, TypeInv, TypeOK,
         RcvTypeOK
<1>2. shaOk /\ good /\ c = image
  BY DEF ShaAfter
<1>3. CASE upd.written = 0
  <2>1. Written(c, good).image = c /\ Written(c, good).clean = good
    BY <1>3 DEF Written
  <2> QED
    BY <1>2, <2>1
<1>4. CASE upd.written # 0
  <2>1. spare.image = image /\ spare.clean
    BY <1>1, <1>2, <1>4 DEF SessionInv, FlashFollowsSession
  <2>2. Written(c, good).image = spare.image
        /\ Written(c, good).clean = (spare.clean /\ good /\ c = spare.image)
    BY <1>4 DEF Written
  <2> QED
    BY <1>2, <2>1, <2>2
<1> QED
  BY <1>3, <1>4

\* A chunk keeps the session invariant: it is dropped, counted once, or ends the
\* session.
LEMMA SessionChunk ==
  ASSUME TypeInv, SessionInv, NEW c \in Images, NEW k \in Nat, NEW good \in BOOLEAN,
         HandleChunk(c, k, good)
  PROVE  SessionInv'
<1>0. chunksReceived \in Nat /\ (image \in Images => progress[image] \in Nat
                                   /\ ChunksOf[image] \in Nat)
  BY ImagesAssumption DEF TypeInv, TypeOK, RcvTypeOK, PortalTypeOK
<1>1. CASE ResetSession
  BY <1>1, ResetEnds
<1>2. CASE DuplicateChunk(c, k)
  <2>1. PublishProgress(chunksReceived) /\ active
        /\ UNCHANGED <<active, targetRp, image, chunksReceived, shaOk, push, radioHeld,
                       radioDepth, otaActive, upd, spare>>
    BY <1>2 DEF DuplicateChunk, Accepts
  <2>2. progress'[image] \in {progress[image], chunksReceived}
    BY <1>0, <2>1, ReportNotAhead DEF SessionInv, ActiveSession
  <2> QED
    BY <1>0, <2>1, <2>2 DEF SessionInv, ActiveSession, PushHasSession, RadioBalanced,
       GateClosed, ProgressNotAhead, FlashFollowsSession, Blocked, NoPush
<1>3. CASE ForwardChunk(c, k, good) /\ ~ResetSession
  <2>1. active /\ targetRp
        /\ UNCHANGED <<active, targetRp, image, chunksReceived, shaOk, radioHeld,
                       radioDepth, otaActive, upd, spare, progress>>
    BY <1>3 DEF ForwardChunk, FailSession, InOrder, Accepts
  <2> QED
    BY <2>1 DEF SessionInv, ActiveSession, PushHasSession, RadioBalanced,
       GateClosed, ProgressNotAhead, FlashFollowsSession
<1>4. CASE WriteChunk(c, k, good)
  <2>1. /\ active /\ ~targetRp /\ upd.running /\ image \in Images /\ push = NoPush
        /\ PublishProgress(chunksReceived + 1) /\ chunksReceived' = chunksReceived + 1
        /\ UNCHANGED <<active, targetRp, image, push, radioHeld, radioDepth, otaActive>>
    BY <1>4 DEF WriteChunk, CanWrite, InOrder, Accepts, Blocked, SessionInv, ActiveSession
  <2>2. progress'[image] \in {progress[image], chunksReceived + 1}
    BY <1>0, <2>1, ReportNotAhead
  <2>3. chunksReceived + 1 < ChunksOf[image]
    BY <1>0, <1>4, <2>1 DEF WriteChunk, LastChunk, SessionInv, ActiveSession
  <2>4. FlashFollowsSession'
    <3>1. /\ upd' = [upd EXCEPT !.written = @ + 1] /\ spare' = Written(c, good)
          /\ CanWrite(c, k) /\ shaOk' = ShaAfter(c, good)
      BY <1>4 DEF WriteChunk, UpdateWritten
    <3>2. upd'.written = chunksReceived'
      BY <2>1, <3>1 DEF SessionInv, FlashFollowsSession, TypeInv, TypeOK, FlashTypeOK
    <3>3. spare'.n = chunksReceived' /\ ~spare'.sealed
      BY <2>1, <3>1, WrittenFollows
    <3>4. shaOk' => spare'.image = image /\ spare'.clean
      BY <3>1, WrittenIntact
    <3> QED
      BY <2>1, <3>2, <3>3, <3>4 DEF FlashFollowsSession
  <2> QED
    BY <1>0, <2>1, <2>2, <2>3, <2>4 DEF SessionInv, ActiveSession, PushHasSession,
       RadioBalanced, GateClosed, ProgressNotAhead, Blocked, NoPush
<1>5. CASE DeferCommit(c, k, good)
  <2>1. ~targetRp /\ active' = FALSE /\ push' = NoPush
        /\ UNCHANGED <<radioHeld, radioDepth>>
    BY <1>5 DEF DeferCommit, Finishes, CanWrite, InOrder, Accepts, Blocked
  <2> QED
    BY <2>1 DEF SessionInv, ActiveSession, PushHasSession, RadioBalanced, GateClosed,
       ProgressNotAhead, FlashFollowsSession, Blocked, NoPush
<1> QED
  BY <1>1, <1>2, <1>3, <1>4, <1>5
  DEF HandleChunk, OutOfOrderChunk, FailWrite, ShaMismatch, SoloEndFails, SoloCommit,
      FailSession

\* A push that goes on keeps its session; one that ends resets it, except that
\* the chunk before the last only counts.
LEMMA SessionPush ==
  ASSUME TypeInv, SessionInv, PushStep
  PROVE  SessionInv'
<1>0. active /\ targetRp /\ image \in Images /\ chunksReceived \in Nat
      /\ ChunksOf[image] \in Nat /\ progress[image] \in Nat
  BY ImagesAssumption
  DEF PushStep, PushTimeout, PushRetried, PushRefused, PushAccepted, SessionInv,
      PushHasSession, ActiveSession, TypeInv, TypeOK, RcvTypeOK, PortalTypeOK
<1>1. CASE ResetSession
  BY <1>1, ResetEnds
<1>2. CASE (PushTimeout \/ PushRetried) /\ ~ResetSession
  <2>1. UNCHANGED <<active, targetRp, image, chunksReceived, shaOk, radioHeld,
                    radioDepth, otaActive, upd, spare, progress>>
    BY <1>2 DEF PushTimeout, PushRetried, PushAgain, FailSession
  <2> QED
    BY <1>0, <2>1 DEF SessionInv, ActiveSession, PushHasSession, RadioBalanced,
       GateClosed, ProgressNotAhead, FlashFollowsSession
<1>3. CASE PushAccepted /\ ~ResetSession
  <2>1. /\ ~LastChunk /\ chunksReceived' = chunksReceived + 1 /\ push' = NoPush
        /\ PublishProgress(chunksReceived + 1)
        /\ UNCHANGED <<active, targetRp, image, radioHeld, radioDepth, otaActive>>
    BY <1>3 DEF PushAccepted
  <2>2. progress'[image] \in {progress[image], chunksReceived + 1}
    BY <1>0, <2>1, ReportNotAhead
  <2> QED
    BY <1>0, <2>1, <2>2 DEF SessionInv, ActiveSession, PushHasSession, RadioBalanced,
       GateClosed, ProgressNotAhead, FlashFollowsSession, Blocked, LastChunk
<1> QED
  BY <1>1, <1>2, <1>3 DEF PushStep, PushRefused, FailSession

\* Every step keeps the session invariant.
LEMMA SessionStep == TypeInv /\ SessionInv /\ [Next]_vars => SessionInv'
<1> SUFFICES ASSUME TypeInv, SessionInv, [Next]_vars PROVE SessionInv'
  OBVIOUS
<1>1. ASSUME NEW i \in Images, HandleAnnounce(i) PROVE SessionInv'
  BY <1>1, SessionAnnounce
<1>2. ASSUME NEW c \in Images, NEW k \in 0..MaxChunkIdx, NEW good \in BOOLEAN,
             HandleChunk(c, k, good)
      PROVE  SessionInv'
  BY <1>2, SessionChunk
<1>3. CASE PushStep
  BY <1>3, SessionPush
<1>4. CASE HandleOtaChunkAck \/ CommitIgnored \/ Tick
  BY <1>4, SessionUntouched DEF HandleOtaChunkAck, CommitIgnored, Tick, sessionState
<1>5. CASE CommitFails
  BY <1>5 DEF CommitFails, UpdateIdle, SessionInv, ActiveSession, PushHasSession,
     RadioBalanced, GateClosed, ProgressNotAhead, FlashFollowsSession, Blocked, NoPush
<1>6. CASE CommitSucceeds
  BY <1>6 DEF CommitSucceeds, UpdateIdle, SessionInv, ActiveSession, PushHasSession,
     RadioBalanced, GateClosed, ProgressNotAhead, FlashFollowsSession, Blocked, NoPush
<1>7. CASE Restart \/ PowerLoss
  BY <1>7 DEF Restart, PowerLoss, Reboot, SessionInv, ActiveSession, PushHasSession,
     RadioBalanced, GateClosed, ProgressNotAhead, FlashFollowsSession, Blocked, NoPush
<1>8. CASE RpNext
  BY <1>8, SessionUntouched
  DEF RpNext, RpAnnounce, RpChunk, RpCommit, LoseToRp, LoseFromRp, EspUnchanged, sessionState
<1>9. CASE UNCHANGED vars
  BY <1>9, SessionUntouched DEF vars, sessionState
<1> QED
  BY <1>1, <1>2, <1>3, <1>4, <1>5, <1>6, <1>7, <1>8, <1>9 DEF Next, HandleOtaCommitNow

\* A device that starts has no session.
LEMMA InitSession == Init => SessionInv
BY DEF Init, SessionInv, ActiveSession, PushHasSession, RadioBalanced, GateClosed,
       ProgressNotAhead, FlashFollowsSession, Blocked, NoPush

\* Every reachable state satisfies the types and the session invariant.
LEMMA SessionCorrect == Spec => [](TypeInv /\ SessionInv)
<1>1. Init => TypeInv /\ SessionInv
  BY InitTypes, InitSession
<1>2. TypeInv /\ SessionInv /\ [Next]_vars => TypeInv' /\ SessionInv'
  BY TypeStep, SessionStep
<1> QED
  BY <1>1, <1>2, PTL DEF Spec

\* The hash context and the partition agree: what the SHA comparison of the last
\* chunk decides about is what Update.end is going to seal.
THEOREM FlashFollows == Spec => []FlashFollowsSession
<1>1. TypeInv /\ SessionInv => FlashFollowsSession
  BY DEF SessionInv
<1> QED
  BY <1>1, SessionCorrect, PTL

\* No path through the handlers leaves the radio marked busy, or takes the mark
\* of somebody else.
THEOREM RadioMark == Spec => []RadioBalanced
<1>1. TypeInv /\ SessionInv => RadioBalanced
  BY DEF SessionInv
<1> QED
  BY <1>1, SessionCorrect, PTL

\* The Link gate is closed for as long as a session is active.
THEOREM GateStaysClosed == Spec => []GateClosed
<1>1. TypeInv /\ SessionInv => GateClosed
  BY DEF SessionInv
<1> QED
  BY <1>1, SessionCorrect, PTL

\* The portal never hears of more chunks than the session has taken.
THEOREM ProgressHonest == Spec => []ProgressNotAhead
<1>1. TypeInv /\ SessionInv => ProgressNotAhead
  BY DEF SessionInv
<1> QED
  BY <1>1, SessionCorrect, PTL

----------------------------------------------------------------------------
(***************************************************************************)
(* The boot flag.                                                          *)
(***************************************************************************)

\* Moving the boot flag onto an image of another major version is the work of
\* the OtaCommitNow handler alone.  No chunk can do it: a chunk either leaves
\* the partition unsealed, or its image is the announced one and the major was
\* compared in the same handler.
THEOREM MajorBumps == Spec => MajorBumpOnlyOnCommit
<1>1. ASSUME TypeInv, SessionInv, [Next]_vars, MakesOtherMajorBootable
      PROVE  Incoming("commit")
  <2> USE DEF MakesOtherMajorBootable
  <2>1. ASSUME NEW i \in Images, HandleAnnounce(i) PROVE FALSE
    BY <1>1, <2>1 DEF HandleAnnounce, AnnounceRefused, AnnounceBadSha, AnnounceRp,
                      AnnounceEsp, TakeUp
  <2>2. ASSUME NEW c \in Images, NEW k \in 0..MaxChunkIdx, NEW good \in BOOLEAN,
               HandleChunk(c, k, good)
        PROVE  FALSE
    <3>1. CASE UNCHANGED spare
      BY <1>1, <3>1
    <3>2. CASE CanWrite(c, k) /\ spare' = Written(c, good)
      BY <1>1, <3>2, WrittenFollows
    <3>3. CASE SoloCommit(c, k, good)
      <4>1. CanWrite(c, k) /\ ShaAfter(c, good) /\ ~PairedMajorBump
            /\ spare' = Ended(Written(c, good))
        BY <3>3 DEF SoloCommit, Finishes
      <4>2. Written(c, good).image = image /\ Written(c, good) \in Contents
        BY <1>1, <4>1, WrittenIntact, WrittenTypes
      <4>3. spare'.image = image
        BY <4>1, <4>2 DEF Ended, Contents
      <4> QED
        BY <1>1, <4>1, <4>3 DEF PairedMajorBump
    <3> QED
      BY <2>2, <3>1, <3>2, <3>3
      DEF HandleChunk, DuplicateChunk, OutOfOrderChunk, ForwardChunk, FailWrite, WriteChunk,
          ShaMismatch, DeferCommit, SoloEndFails, Finishes
  <2>3. CASE PushStep
    BY <1>1, <2>3 DEF PushStep, PushTimeout, PushRetried, PushRefused, PushAccepted
  <2>4. CASE HandleOtaChunkAck \/ Tick
    BY <1>1, <2>4 DEF HandleOtaChunkAck, Tick
  <2>5. CASE HandleOtaCommitNow
    BY <2>5 DEF HandleOtaCommitNow, CommitIgnored, CommitFails, CommitSucceeds
  <2>6. CASE Restart \/ PowerLoss
    BY <1>1, <2>6 DEF Restart, PowerLoss, Reboot
  <2>7. CASE RpNext
    BY <1>1, <2>7 DEF RpNext, RpAnnounce, RpChunk, RpCommit, LoseToRp, LoseFromRp,
                      EspUnchanged
  <2>8. CASE UNCHANGED vars
    BY <1>1, <2>8 DEF vars
  <2> QED
    BY <1>1, <2>1, <2>2, <2>3, <2>4, <2>5, <2>6, <2>7, <2>8 DEF Next
<1>2. TypeInv /\ SessionInv /\ [Next]_vars => [MakesOtherMajorBootable => Incoming("commit")]_vars
  BY <1>1
<1> QED
  BY <1>2, SessionCorrect, PTL DEF Spec, MajorBumpOnlyOnCommit

----------------------------------------------------------------------------
(***************************************************************************)
(* Nothing corrupt is ever run.  The boot flag moves in two places: after  *)
(* the last chunk, where the hash has just been compared, and in the       *)
(* OtaCommitNow handler, which compares nothing and relies on              *)
(* espVerifiedPending_.  That flag outlives a failed Update.end, so the    *)
(* partition it speaks of may have been opened again for a new session.    *)
(* The commit is then harmless if there is no RP2040 to send it, or if the *)
(* new session cannot look complete halfway, all images being equally long.*)
(***************************************************************************)
UniformImages ==
  \A i, j \in Images : TargetOf[i] = "esp" /\ TargetOf[j] = "esp" => ChunksOf[i] = ChunksOf[j]

CommitIsSafe == ~HasUart \/ UniformImages

CleanInv ==
  /\ running.clean
  /\ spare.sealed => spare.clean
  /\ ~HasUart => ~pending
  /\ pending /\ CanEnd(spare, upd) => spare.clean

\* What leaves the flash and the pending flag alone leaves them clean.
LEMMA CleanUntouched ==
  ASSUME CleanInv, UNCHANGED <<running, spare, upd, pending>>
  PROVE  CleanInv'
BY DEF CleanInv, CanEnd

\* Closing the partition, or opening it, makes it one that no commit can seal.
LEMMA CleanNotEndable ==
  ASSUME CleanInv, UNCHANGED <<running, spare, pending>>, TypeInv,
         upd' \in {upd, UpdateIdle, UpdateOpen}
  PROVE  CleanInv'
<1>1. CASE upd' = upd
  BY <1>1, CleanUntouched
<1>2. CASE upd' = UpdateIdle
  BY <1>2 DEF CleanInv, CanEnd, UpdateIdle
<1>3. CASE upd' = UpdateOpen
  <2>1. ~CanEnd(spare, UpdateOpen)
    BY ImagesAssumption DEF CanEnd, UpdateOpen
  <2> QED
    BY <1>3, <2>1 DEF CleanInv, CanEnd
<1> QED
  BY <1>1, <1>2, <1>3

\* A chunk that is not the last one leaves a partition no commit can seal.
LEMMA CleanWrite ==
  ASSUME CommitIsSafe, CleanInv, TypeInv, SessionInv, NEW c \in Images, NEW k \in Nat,
         NEW good \in BOOLEAN, WriteChunk(c, k, good)
  PROVE  CleanInv'
<1>1. /\ active /\ ~targetRp /\ image \in Images /\ CanWrite(c, k)
      /\ UNCHANGED <<running, pending>> /\ spare' = Written(c, good)
      /\ chunksReceived + 1 # ChunksOf[image]
  BY DEF WriteChunk, CanWrite, InOrder, Accepts, SessionInv, ActiveSession, LastChunk
<1>2. spare'.n = chunksReceived + 1 /\ ~spare'.sealed
  BY <1>1, WrittenFollows
<1>3. UniformImages => ~CanEnd(spare', upd')
  BY <1>1, <1>2 DEF CanEnd, UniformImages, SessionInv, ActiveSession
<1>4. CASE ~HasUart
  BY <1>1, <1>2, <1>4 DEF CleanInv
<1>5. CASE UniformImages
  BY <1>1, <1>2, <1>3, <1>5 DEF CleanInv
<1> QED
  BY <1>4, <1>5 DEF CommitIsSafe

\* A chunk never leaves a corrupt image sealed, or one that a commit could seal.
LEMMA CleanChunk ==
  ASSUME CommitIsSafe, CleanInv, TypeInv, SessionInv, NEW c \in Images, NEW k \in Nat,
         NEW good \in BOOLEAN, HandleChunk(c, k, good)
  PROVE  CleanInv'
<1>1. CASE DuplicateChunk(c, k)
  BY <1>1, CleanUntouched DEF DuplicateChunk
<1>2. CASE OutOfOrderChunk(c, k) \/ ForwardChunk(c, k, good) \/ FailWrite(c, k)
  <2>1. upd' \in {upd, UpdateIdle} /\ UNCHANGED <<running, spare, pending>>
    BY <1>2 DEF OutOfOrderChunk, ForwardChunk, FailWrite, FailSession, ResetSession
  <2> QED
    BY <2>1, CleanNotEndable
<1>3. CASE WriteChunk(c, k, good)
  BY <1>3, CleanWrite
<1>4. CASE ShaMismatch(c, k, good) \/ SoloEndFails(c, k, good)
  <2>1. /\ CanWrite(c, k) /\ active /\ ~targetRp /\ UNCHANGED <<running, pending>>
        /\ spare' = Written(c, good) /\ upd' = UpdateIdle
    BY <1>4 DEF ShaMismatch, SoloEndFails, Finishes, CanWrite, InOrder, Accepts,
                FailSession, ResetSession
  <2>2. ~spare'.sealed
    BY <2>1, WrittenFollows
  <2> QED
    BY <2>1, <2>2 DEF CleanInv, CanEnd, UpdateIdle
<1>5. CASE DeferCommit(c, k, good)
  <2>1. /\ CanWrite(c, k) /\ ShaAfter(c, good) /\ HasUart /\ UNCHANGED running
        /\ spare' = Written(c, good)
    BY <1>5 DEF DeferCommit, Finishes, PairedMajorBump
  <2>2. spare'.clean
    BY <2>1, WrittenIntact
  <2> QED
    BY <2>1, <2>2 DEF CleanInv
<1>6. CASE SoloCommit(c, k, good)
  <2>1. /\ CanWrite(c, k) /\ ShaAfter(c, good) /\ UNCHANGED <<running, pending>>
        /\ spare' = Ended(Written(c, good))
    BY <1>6 DEF SoloCommit, Finishes
  <2>2. Written(c, good).clean /\ Written(c, good) \in Contents
    BY <2>1, WrittenIntact, WrittenTypes
  <2>3. spare'.clean
    BY <2>1, <2>2 DEF Ended, Contents
  <2> QED
    BY <2>1, <2>3 DEF CleanInv
<1> QED
  BY <1>1, <1>2, <1>3, <1>4, <1>5, <1>6 DEF HandleChunk

\* No step makes a corrupt image run, or bootable.
LEMMA CleanStep ==
  ASSUME CommitIsSafe
  PROVE  CleanInv /\ TypeInv /\ SessionInv /\ [Next]_vars => CleanInv'
<1> SUFFICES ASSUME CleanInv, TypeInv, SessionInv, [Next]_vars PROVE CleanInv'
  OBVIOUS
<1>1. ASSUME NEW i \in Images, HandleAnnounce(i) PROVE CleanInv'
  <2>1. upd' \in {upd, UpdateIdle, UpdateOpen} /\ UNCHANGED <<running, spare, pending>>
    BY <1>1 DEF HandleAnnounce, AnnounceRefused, AnnounceBadSha, AnnounceRp, AnnounceEsp,
                TakeUp, UpdateAfterAbort, ResetSession
  <2> QED
    BY <2>1, CleanNotEndable
<1>2. ASSUME NEW c \in Images, NEW k \in 0..MaxChunkIdx, NEW good \in BOOLEAN,
             HandleChunk(c, k, good)
      PROVE  CleanInv'
  BY <1>2, CleanChunk
<1>3. CASE PushStep
  <2>1. upd' \in {upd, UpdateIdle} /\ UNCHANGED <<running, spare, pending>>
    BY <1>3 DEF PushStep, PushTimeout, PushRetried, PushRefused, PushAccepted, PushAgain,
                FailSession, ResetSession
  <2> QED
    BY <2>1, CleanNotEndable
<1>4. CASE HandleOtaChunkAck \/ CommitIgnored \/ Tick
  BY <1>4, CleanUntouched DEF HandleOtaChunkAck, CommitIgnored, Tick
<1>5. CASE CommitFails
  BY <1>5, CleanNotEndable DEF CommitFails
<1>6. CASE CommitSucceeds
  <2>1. /\ pending /\ CanEnd(spare, upd) /\ spare' = Ended(spare)
        /\ UNCHANGED <<running, pending>>
    BY <1>6 DEF CommitSucceeds
  <2>2. spare'.clean
    BY <2>1 DEF CleanInv, Ended, TypeInv, TypeOK, FlashTypeOK, Contents
  <2> QED
    BY <2>1, <2>2 DEF CleanInv
<1>7. CASE Restart \/ PowerLoss
  <2>1. Reboot
    BY <1>7 DEF Restart, PowerLoss
  <2>2. CASE boot = "spare" /\ spare.sealed
    BY <2>1, <2>2 DEF Reboot, CleanInv
  <2>3. CASE ~(boot = "spare" /\ spare.sealed)
    BY <2>1, <2>3 DEF Reboot, CleanInv
  <2> QED
    BY <2>2, <2>3
<1>8. CASE RpNext
  BY <1>8, CleanUntouched
  DEF RpNext, RpAnnounce, RpChunk, RpCommit, LoseToRp, LoseFromRp, EspUnchanged
<1>9. CASE UNCHANGED vars
  BY <1>9, CleanUntouched DEF vars
<1> QED
  BY <1>1, <1>2, <1>3, <1>4, <1>5, <1>6, <1>7, <1>8, <1>9 DEF Next, HandleOtaCommitNow

\* A device without an RP2040, and a DRYER whose ESP images are equally long, only
\* ever runs an image all of whose bytes are those of the announced one: through
\* corrupt, duplicated and reordered chunks, aborted sessions and power loss.
THEOREM RunsOnlyIntact ==
  ASSUME CommitIsSafe
  PROVE  Spec => []NeverRunsCorrupt
<1>1. Init => CleanInv
  BY DEF Init, CleanInv, CanEnd, UpdateIdle
<1>2. CleanInv /\ TypeInv /\ SessionInv /\ [Next]_vars => CleanInv'
  BY CleanStep
<1>3. CleanInv => NeverRunsCorrupt
  BY DEF CleanInv, NeverRunsCorrupt
<1> QED
  BY <1>1, <1>2, <1>3, SessionCorrect, PTL DEF Spec

----------------------------------------------------------------------------
(***************************************************************************)
(* The verdicts.  A verdict is published under commandId_, whatever image  *)
(* the session is about.  In an ESP session the two agree when it counts:  *)
(* the chunk that completes it carries the id, and the hash the image.  In *)
(* a proxied session nothing compares them again, and a refused announce   *)
(* replaces commandId_ under it.                                           *)
(***************************************************************************)
RpSession == active /\ targetRp => HasUart /\ TargetOf[image] = "rp2040"

NoForeignId == active /\ targetRp => commandId = image

\* Only an announce opens a session, and a proxied one only for an RP2040 image.
LEMMA RpSessionStep == RpSession /\ [Next]_vars => RpSession'
<1> SUFFICES ASSUME RpSession, [Next]_vars PROVE RpSession'
  OBVIOUS
<1>1. CASE ResetSession
  BY <1>1 DEF ResetSession, RpSession
<1>2. CASE UNCHANGED <<active, targetRp, image>>
  BY <1>2 DEF RpSession
<1>3. ASSUME NEW i \in Images, HandleAnnounce(i), ~ResetSession PROVE RpSession'
  BY <1>3 DEF HandleAnnounce, AnnounceRefused, AnnounceBadSha, AnnounceRp, AnnounceEsp, RpSession
<1>4. ASSUME NEW c \in Images, NEW k \in 0..MaxChunkIdx, NEW good \in BOOLEAN,
             HandleChunk(c, k, good)
      PROVE  RpSession'
  <2>1. CASE DeferCommit(c, k, good)
    BY <2>1 DEF DeferCommit, RpSession
  <2> QED
    BY <1>1, <1>2, <1>4, <2>1
    DEF HandleChunk, DuplicateChunk, OutOfOrderChunk, ForwardChunk, FailWrite, WriteChunk,
        ShaMismatch, SoloEndFails, SoloCommit, FailSession
<1>5. CASE PushStep
  BY <1>1, <1>2, <1>5 DEF PushStep, PushTimeout, PushRetried, PushRefused, PushAccepted,
                          PushAgain, FailSession
<1>6. CASE HandleOtaChunkAck \/ HandleOtaCommitNow \/ Tick \/ RpNext
  BY <1>2, <1>6 DEF HandleOtaChunkAck, HandleOtaCommitNow, CommitIgnored, CommitFails,
     CommitSucceeds, Tick, RpNext, RpAnnounce, RpChunk, RpCommit, LoseToRp, LoseFromRp,
     EspUnchanged
<1>7. CASE Restart \/ PowerLoss
  BY <1>7 DEF Restart, PowerLoss, Reboot, RpSession
<1>8. CASE UNCHANGED vars
  BY <1>2, <1>8 DEF vars
<1> QED
  BY <1>1, <1>3, <1>4, <1>5, <1>6, <1>7, <1>8 DEF Next

\* Publishing changes the verdict of the current id only.
LEMMA PublishedId ==
  ASSUME TypeInv, NEW i \in Images, NEW st \in Verdicts, Publish(st), verdict'[i] # verdict[i]
  PROVE  i = commandId
BY DEF Publish

\* The hash of the last chunk vouches for the whole partition: whatever is
\* published then is published for the image the partition holds.
LEMMA FinishedIntact ==
  ASSUME TypeInv, SessionInv, NEW c \in Images, NEW k \in Nat, NEW good \in BOOLEAN,
         Finishes(c, k), ShaAfter(c, good)
  PROVE  /\ commandId = image /\ Written(c, good) \in Contents
         /\ Written(c, good).image = image /\ Written(c, good).n = ChunksOf[image]
         /\ Written(c, good).clean
<1>1. CanWrite(c, k) /\ LastChunk /\ c = commandId /\ c = image
  BY DEF Finishes, CanWrite, InOrder, Accepts, ShaAfter
<1> QED
  BY <1>1, WrittenIntact, WrittenFollows, WrittenTypes DEF LastChunk

\* Each publication of "verified" for an ESP image follows its last chunk, if the
\* sessions of the RP2040 keep their ids.
LEMMA VerdictStep ==
  ASSUME TypeInv, SessionInv, RpSession, NoForeignId, [Next]_vars, NEW i \in Images,
         verdict'[i] = "verified", verdict[i] # "verified", TargetOf[i] = "esp"
  PROVE  spare'.image = i /\ spare'.n = ChunksOf[i] /\ spare'.clean
<1>0. verdict \in [Images -> Verdicts]
  BY DEF TypeInv, TypeOK, PortalTypeOK
<1>1. ~UNCHANGED verdict /\ ~Publish("failed")
  BY <1>0 DEF Publish, Verdicts
<1>2. ~\E j \in Images : HandleAnnounce(j)
  <2>1. ASSUME NEW j \in Images, Accept(j) \/ Reject(j) PROVE FALSE
    BY <1>0, <2>1 DEF Accept, Reject, Verdicts
  <2> QED
    BY <1>1, <2>1 DEF HandleAnnounce, AnnounceRefused, AnnounceBadSha, AnnounceRp, AnnounceEsp
<1>3. ASSUME NEW c \in Images, NEW k \in 0..MaxChunkIdx, NEW good \in BOOLEAN,
             HandleChunk(c, k, good)
      PROVE  spare'.image = i /\ spare'.n = ChunksOf[i] /\ spare'.clean
  <2>1. DeferCommit(c, k, good) \/ SoloCommit(c, k, good)
    BY <1>1, <1>3 DEF HandleChunk, DuplicateChunk, OutOfOrderChunk, ForwardChunk, FailWrite,
       WriteChunk, ShaMismatch, SoloEndFails, FailSession
  <2>2. /\ Finishes(c, k) /\ ShaAfter(c, good) /\ Publish("verified")
        /\ spare' \in {Written(c, good), Ended(Written(c, good))}
    BY <2>1 DEF DeferCommit, SoloCommit
  <2>3. i = commandId
    BY <1>1, <2>2, PublishedId DEF Verdicts
  <2>4. /\ commandId = image /\ Written(c, good) \in Contents
        /\ Written(c, good).image = image /\ Written(c, good).n = ChunksOf[image]
        /\ Written(c, good).clean
    BY <2>2, FinishedIntact
  <2> QED
    BY <2>2, <2>3, <2>4 DEF Ended, Contents
<1>4. CASE PushStep
  <2>1. PushAccepted /\ Publish("verified")
    BY <1>1, <1>4 DEF PushStep, PushTimeout, PushRetried, PushRefused, PushAccepted, PushAgain,
                      FailSession
  <2>2. active /\ targetRp
    BY <2>1 DEF PushAccepted, SessionInv, PushHasSession
  <2>3. i = commandId
    BY <1>1, <2>1, PublishedId DEF Verdicts
  <2> QED
    BY <2>2, <2>3 DEF RpSession, NoForeignId
<1>5. CASE HandleOtaChunkAck \/ HandleOtaCommitNow \/ Tick \/ RpNext
  BY <1>1, <1>5 DEF HandleOtaChunkAck, HandleOtaCommitNow, CommitIgnored, CommitFails,
     CommitSucceeds, Tick, RpNext, RpAnnounce, RpChunk, RpCommit, LoseToRp, LoseFromRp,
     EspUnchanged
<1>6. CASE Restart \/ PowerLoss
  BY <1>1, <1>6 DEF Restart, PowerLoss, Reboot
<1>7. CASE UNCHANGED vars
  BY <1>1, <1>7 DEF vars
<1> QED
  BY <1>2, <1>3, <1>4, <1>5, <1>6, <1>7 DEF Next

\* Every proxied session is one of an RP2040 image, on a device that has an RP2040.
LEMMA RpSessionCorrect == Spec => []RpSession
<1>1. Init => RpSession
  BY DEF Init, RpSession
<1> QED
  BY <1>1, RpSessionStep, PTL DEF Spec

\* On a DRYER the portal reads "verified" for an ESP image only when the spare
\* partition holds all of it, intact, as long as no announce is refused while an
\* image is being forwarded to the RP2040.
THEOREM VerdictUnderOwnId == Spec /\ []NoForeignId => VerdictSound
<1>1. TypeInv /\ SessionInv /\ RpSession /\ NoForeignId /\ [Next]_vars =>
        [\A i \in Images :
           verdict'[i] = "verified" /\ verdict[i] # "verified" /\ TargetOf[i] = "esp"
             => spare'.image = i /\ spare'.n = ChunksOf[i] /\ spare'.clean]_vars
  BY VerdictStep
<1> QED
  BY <1>1, SessionCorrect, RpSessionCorrect, PTL DEF Spec, VerdictSound

\* On a device without an RP2040 nothing but that ever makes the portal read
\* "verified": not a refused announce, a duplicate chunk or an aborted session.
THEOREM VerdictOnSolo ==
  ASSUME ~HasUart
  PROVE  Spec => VerdictSound
<1>1. RpSession => NoForeignId
  BY DEF RpSession, NoForeignId
<1> QED
  BY <1>1, RpSessionCorrect, VerdictUnderOwnId, PTL

----------------------------------------------------------------------------
(***************************************************************************)
(* Nothing corrupt is ever run, whatever the sizes of the images, if       *)
(* Update.end of a waiting image never fails.  The waiting image then      *)
(* keeps its partition open, so no other session of this device can write  *)
(* to it before the restart.  During the restart one can, because          *)
(* Update.end has closed the partition and MQTT is still pumped, but no    *)
(* OtaCommitNow is heard there: the UART is polled only by a push, and a   *)
(* push belongs to a session that has aborted that one.                    *)
(***************************************************************************)
EspSession == active /\ ~targetRp

WaitingInv ==
  /\ running.clean
  /\ spare.sealed => spare.clean
  /\ pending /\ CanEnd(spare, upd) /\ ~EspSession => spare.clean
  /\ pending /\ ~restarting => upd.running /\ ~EspSession

\* What leaves the flash, the flags and the session alone leaves them waiting.
LEMMA WaitingUntouched ==
  ASSUME WaitingInv,
         UNCHANGED <<running, spare, upd, pending, restarting, active, targetRp>>
  PROVE  WaitingInv'
BY DEF WaitingInv, CanEnd, EspSession

\* A session that ends closes the partition if it was the one that opened it.
LEMMA WaitingAbort ==
  ASSUME WaitingInv, UNCHANGED <<running, spare, pending, restarting>>,
         upd' = UpdateAfterAbort, ~EspSession'
  PROVE  WaitingInv'
<1>1. CASE EspSession
  BY <1>1 DEF WaitingInv, CanEnd, EspSession, UpdateAfterAbort, UpdateIdle
<1>2. CASE ~EspSession
  BY <1>2 DEF WaitingInv, CanEnd, EspSession, UpdateAfterAbort
<1> QED
  BY <1>1, <1>2

\* resetSession is such an end.
LEMMA WaitingReset ==
  ASSUME WaitingInv, ResetSession, UNCHANGED <<running, spare, pending, restarting>>
  PROVE  WaitingInv'
<1>1. upd' = UpdateAfterAbort /\ ~EspSession'
  BY DEF ResetSession, UpdateAfterAbort, EspSession
<1> QED
  BY <1>1, WaitingAbort

\* An announce cannot open the partition of a waiting image.
LEMMA WaitingAnnounce ==
  ASSUME WaitingInv, NEW i \in Images, HandleAnnounce(i)
  PROVE  WaitingInv'
<1>1. UNCHANGED <<running, spare, pending, restarting>>
  BY DEF HandleAnnounce, AnnounceRefused, AnnounceBadSha, AnnounceRp, AnnounceEsp, TakeUp
<1>2. CASE AnnounceRefused(i)
  BY <1>2, WaitingUntouched DEF AnnounceRefused
<1>3. CASE AnnounceBadSha(i)
  BY <1>1, <1>3, WaitingAbort DEF AnnounceBadSha, EspSession
<1>4. CASE AnnounceRp(i)
  <2>1. CASE ResetSession
    BY <1>1, <2>1, WaitingReset
  <2>2. CASE ~ResetSession
    BY <1>1, <1>4, <2>2, WaitingAbort DEF AnnounceRp, EspSession
  <2> QED
    BY <2>1, <2>2
<1>5. CASE AnnounceEsp(i) /\ ~active'
  BY <1>1, <1>5, WaitingAbort DEF AnnounceEsp, EspSession
<1>6. CASE AnnounceEsp(i) /\ active'
  <2>1. ~UpdateAfterAbort.running /\ EspSession'
    BY <1>6 DEF AnnounceEsp, EspSession
  <2>2. ~(pending /\ ~restarting)
    BY <2>1 DEF WaitingInv, UpdateAfterAbort, EspSession
  <2> QED
    BY <1>1, <2>1, <2>2 DEF WaitingInv
<1> QED
  BY <1>2, <1>3, <1>4, <1>5, <1>6 DEF HandleAnnounce

\* A chunk that is written belongs to a session, and no image is waiting then; the
\* last one leaves the partition whole and intact, or unsealed and closed.
LEMMA WaitingChunk ==
  ASSUME WaitingInv, TypeInv, SessionInv, NEW c \in Images, NEW k \in Nat,
         NEW good \in BOOLEAN, HandleChunk(c, k, good)
  PROVE  WaitingInv'
<1>1. CASE DuplicateChunk(c, k)
  BY <1>1, WaitingUntouched DEF DuplicateChunk
<1>2. CASE OutOfOrderChunk(c, k) \/ FailWrite(c, k)
  BY <1>2, WaitingReset DEF OutOfOrderChunk, FailWrite, FailSession
<1>3. CASE ForwardChunk(c, k, good)
  <2>1. CASE ResetSession
    BY <1>3, <2>1, WaitingReset DEF ForwardChunk
  <2>2. CASE ~ResetSession
    BY <1>3, <2>2, WaitingUntouched DEF ForwardChunk, FailSession
  <2> QED
    BY <2>1, <2>2
<1>4. CASE WriteChunk(c, k, good)
  <2>1. /\ CanWrite(c, k) /\ EspSession /\ spare' = Written(c, good)
        /\ UNCHANGED <<active, targetRp, running, pending, restarting>>
    BY <1>4 DEF WriteChunk, CanWrite, InOrder, Accepts, EspSession
  <2>2. ~spare'.sealed
    BY <2>1, WrittenFollows
  <2> QED
    BY <2>1, <2>2 DEF WaitingInv, EspSession
<1>5. CASE ShaMismatch(c, k, good) \/ SoloEndFails(c, k, good)
  <2>1. /\ CanWrite(c, k) /\ EspSession /\ spare' = Written(c, good)
        /\ UNCHANGED <<running, pending, restarting>> /\ upd' = UpdateIdle
    BY <1>5 DEF ShaMismatch, SoloEndFails, Finishes, CanWrite, InOrder, Accepts,
                FailSession, ResetSession, EspSession
  <2>2. ~spare'.sealed
    BY <2>1, WrittenFollows
  <2> QED
    BY <2>1, <2>2 DEF WaitingInv, CanEnd, UpdateIdle
<1>6. CASE DeferCommit(c, k, good)
  <2>1. /\ Finishes(c, k) /\ ShaAfter(c, good) /\ CanWrite(c, k) /\ active' = FALSE
        /\ spare' = Written(c, good) /\ upd' = UpdateWritten /\ UNCHANGED running
    BY <1>6 DEF DeferCommit, Finishes
  <2>2. spare'.clean /\ ~spare'.sealed
    BY <2>1, FinishedIntact, WrittenFollows
  <2>3. upd'.running
    BY <2>1 DEF CanWrite, UpdateWritten, TypeInv, TypeOK, FlashTypeOK
  <2> QED
    BY <2>1, <2>2, <2>3 DEF WaitingInv, EspSession
<1>7. CASE SoloCommit(c, k, good)
  <2>1. /\ Finishes(c, k) /\ ShaAfter(c, good) /\ EspSession /\ restarting'
        /\ spare' = Ended(Written(c, good)) /\ upd' = UpdateIdle /\ UNCHANGED running
    BY <1>7 DEF SoloCommit, Finishes, CanWrite, InOrder, Accepts, ResetSession, EspSession
  <2>2. spare'.clean
    BY <2>1, FinishedIntact DEF Ended, Contents
  <2> QED
    BY <2>1, <2>2 DEF WaitingInv, CanEnd, UpdateIdle
<1> QED
  BY <1>1, <1>2, <1>3, <1>4, <1>5, <1>6, <1>7 DEF HandleChunk

\* While Update.end does not fail, every step keeps a waiting image intact.
LEMMA WaitingStep ==
  WaitingInv /\ TypeInv /\ SessionInv /\ [Next]_vars /\ [~CommitFails]_vars => WaitingInv'
<1> SUFFICES ASSUME WaitingInv, TypeInv, SessionInv, [Next]_vars, [~CommitFails]_vars
             PROVE  WaitingInv'
  OBVIOUS
<1>1. ASSUME NEW i \in Images, HandleAnnounce(i) PROVE WaitingInv'
  BY <1>1, WaitingAnnounce
<1>2. ASSUME NEW c \in Images, NEW k \in 0..MaxChunkIdx, NEW good \in BOOLEAN,
             HandleChunk(c, k, good)
      PROVE  WaitingInv'
  BY <1>2, WaitingChunk
<1>3. CASE PushStep
  <2>1. CASE ResetSession
    BY <1>3, <2>1, WaitingReset DEF PushStep, PushTimeout, PushRetried, PushRefused, PushAccepted
  <2>2. CASE ~ResetSession
    BY <1>3, <2>2, WaitingUntouched
    DEF PushStep, PushTimeout, PushRetried, PushRefused, PushAccepted, PushAgain, FailSession
  <2> QED
    BY <2>1, <2>2
<1>4. CASE HandleOtaChunkAck \/ CommitIgnored \/ Tick
  BY <1>4, WaitingUntouched DEF HandleOtaChunkAck, CommitIgnored, Tick
<1>5. CASE CommitFails
  BY <1>5, WaitingUntouched DEF vars
<1>6. CASE CommitSucceeds
  <2>1. /\ pending /\ CanEnd(spare, upd) /\ spare' = Ended(spare) /\ upd' = UpdateIdle
        /\ restarting' /\ UNCHANGED <<running, pending>> /\ (Blocked \/ ~restarting)
    BY <1>6 DEF CommitSucceeds, Incoming, UartPolled
  <2>2. ~EspSession
    BY <2>1 DEF SessionInv, PushHasSession, WaitingInv, EspSession
  <2>3. spare'.clean
    BY <2>1, <2>2 DEF WaitingInv, Ended, TypeInv, TypeOK, FlashTypeOK, Contents
  <2> QED
    BY <2>1, <2>3 DEF WaitingInv, CanEnd, UpdateIdle
<1>7. CASE Restart \/ PowerLoss
  <2>1. Reboot
    BY <1>7 DEF Restart, PowerLoss
  <2>2. CASE boot = "spare" /\ spare.sealed
    BY <2>1, <2>2 DEF Reboot, WaitingInv
  <2>3. CASE ~(boot = "spare" /\ spare.sealed)
    BY <2>1, <2>3 DEF Reboot, WaitingInv
  <2> QED
    BY <2>2, <2>3
<1>8. CASE RpNext
  BY <1>8, WaitingUntouched
  DEF RpNext, RpAnnounce, RpChunk, RpCommit, LoseToRp, LoseFromRp, EspUnchanged
<1>9. CASE UNCHANGED vars
  BY <1>9, WaitingUntouched DEF vars
<1> QED
  BY <1>1, <1>2, <1>3, <1>4, <1>5, <1>6, <1>7, <1>8, <1>9 DEF Next, HandleOtaCommitNow

\* The only way to run a corrupt image is a failed Update.end of a waiting image
\* and what is done with its partition afterwards.
THEOREM RunsOnlyIntactWhileEndsSucceed ==
  Spec /\ [][~CommitFails]_vars => []NeverRunsCorrupt
<1>1. Init => WaitingInv
  BY DEF Init, WaitingInv
<1>2. WaitingInv => NeverRunsCorrupt
  BY DEF WaitingInv, NeverRunsCorrupt
<1> QED
  BY <1>1, <1>2, WaitingStep, SessionCorrect, PTL DEF Spec

----------------------------------------------------------------------------
(***************************************************************************)
(* The two chips change majors together, if all ESP images on offer have   *)
(* one major.  (The commit frame does not say which major it is for, and   *)
(* a stale one commits whatever waits: with two new majors on offer the    *)
(* ESP may start one and the RP2040 the other.)                            *)
(***************************************************************************)
EspImages == {i \in Images : TargetOf[i] = "esp"}
OneMajor == \A i, j \in EspImages : MajorOf[i] = MajorOf[j]
EspMajors == {MajorOf[i] : i \in EspImages}

\* A commit frame on its way, or about to be sent, is one of the major on offer.
CommitInv ==
  /\ pending => espTargetMajor \in EspMajors
  /\ rp.espReady => rp.espMajor \in EspMajors
  /\ \A n \in 1..Len(fromRp) : fromRp[n].kind = "commit" => EspMajors \cap rpCommits # {}

\* A frame leaves the line only by being read or lost: those behind it move up.
LEMMA TailElements ==
  ASSUME NEW S, NEW s \in Seq(S), s # <<>>, NEW n \in 1..Len(Tail(s))
  PROVE  n + 1 \in 1..Len(s) /\ Tail(s)[n] = s[n + 1]
OBVIOUS

\* A frame that is sent is the last one of the line, if it does not overrun.
LEMMA SentElements ==
  ASSUME NEW S, NEW s \in Seq(S), NEW m \in S, NEW n \in 1..Len(Sent(s, m))
  PROVE  Sent(s, m)[n] = m \/ (n \in 1..Len(s) /\ Sent(s, m)[n] = s[n])
<1>1. CASE Len(s) < MaxInFlight
  <2>1. Sent(s, m) = Append(s, m) /\ Len(Append(s, m)) = Len(s) + 1
    BY <1>1 DEF Sent
  <2>2. n \in 1..Len(s) \/ n = Len(s) + 1
    BY <2>1
  <2> QED
    BY <2>1, <2>2
<1>2. CASE ~(Len(s) < MaxInFlight)
  BY <1>2 DEF Sent
<1> QED
  BY <1>1, <1>2

\* What leaves both flags and the line from the RP2040 alone, or shortens the
\* line, leaves the commits alone.
LEMMA CommitUntouched ==
  ASSUME TypeInv, CommitInv, UNCHANGED <<rp, rpCommits, pending, espTargetMajor>>,
         fromRp' = fromRp \/ (fromRp # <<>> /\ fromRp' = Tail(fromRp))
  PROVE  CommitInv'
<1>1. CASE fromRp' = fromRp
  BY <1>1 DEF CommitInv
<1>2. CASE fromRp # <<>> /\ fromRp' = Tail(fromRp)
  <2>1. ASSUME NEW n \in 1..Len(fromRp'), fromRp'[n].kind = "commit"
        PROVE  EspMajors \cap rpCommits' # {}
    <3>1. n + 1 \in 1..Len(fromRp) /\ fromRp'[n] = fromRp[n + 1]
      BY <1>2, TailElements DEF TypeInv, TypeOK, PairTypeOK
    <3> QED
      BY <2>1, <3>1 DEF CommitInv
  <2> QED
    BY <2>1 DEF CommitInv
<1> QED
  BY <1>1, <1>2

\* The RP2040 promises only a major it was told of, and answers chunks with
\* acknowledgements.
LEMMA CommitRp ==
  ASSUME TypeInv, CommitInv, RpNext
  PROVE  CommitInv'
<1>0. /\ fromRp \in Seq(EspFrames) /\ toRp \in Seq(RpFrames)
      /\ rp \in [image: Images \cup {NoImage}, n: Nat, clean: BOOLEAN,
                  espReady: BOOLEAN, espMajor: Nat]
  BY DEF TypeInv, TypeOK, PairTypeOK
<1>1. UNCHANGED <<pending, espTargetMajor>>
  BY DEF RpNext, RpAnnounce, RpChunk, RpCommit, LoseToRp, LoseFromRp, EspUnchanged
<1>2. CASE RpAnnounce
  BY <1>0, <1>1, <1>2 DEF RpAnnounce, CommitInv
<1>3. CASE RpChunk
  <2>1. rpCommits' = rpCommits /\ rp'.espReady = rp.espReady /\ rp'.espMajor = rp.espMajor
    BY <1>0, <1>3 DEF RpChunk
  <2>2. CASE fromRp' = fromRp
    BY <1>1, <2>1, <2>2 DEF CommitInv
  <2>3. CASE fromRp' # fromRp
    <3> DEFINE m == Head(toRp)
    <3>1. PICK s \in RpStatuses(m) : m.image \in Images /\ toRp # <<>>
                                    /\ fromRp' = Sent(fromRp, AckMsg(m.image, m.idx, s))
      BY <1>3, <2>3 DEF RpChunk, ToRp
    <3>2. s \in AckStatuses
      BY <3>1 DEF RpStatuses, AckStatuses
    <3>3. m.idx \in Nat
      <4>1. m \in RpFrames
        BY <1>0, <3>1
      <4> QED
        BY <4>1 DEF RpFrames
    <3>4. AckMsg(m.image, m.idx, s) \in EspFrames /\ AckMsg(m.image, m.idx, s).kind = "ack"
      BY <3>1, <3>2, <3>3 DEF AckMsg, EspFrames
    <3>5. ASSUME NEW n \in 1..Len(fromRp'), fromRp'[n].kind = "commit"
          PROVE  EspMajors \cap rpCommits' # {}
      <4>1. n \in 1..Len(fromRp) /\ fromRp'[n] = fromRp[n]
        <5> HIDE DEF m
        <5> QED
          BY <1>0, <3>1, <3>4, <3>5, SentElements
      <4> QED
        BY <2>1, <3>5, <4>1 DEF CommitInv
    <3> QED
      BY <1>1, <2>1, <3>5 DEF CommitInv
  <2> QED
    BY <2>2, <2>3
<1>4. CASE RpCommit
  <2>1. rp' = rp /\ rp.espReady /\ rpCommits' = rpCommits \cup {rp.espMajor}
    BY <1>4 DEF RpCommit
  <2>2. EspMajors \cap rpCommits' # {}
    BY <2>1 DEF CommitInv
  <2> QED
    BY <1>1, <2>1, <2>2 DEF CommitInv
<1>5. CASE LoseToRp \/ LoseFromRp
  BY <1>1, <1>5, CommitUntouched DEF LoseToRp, LoseFromRp
<1> QED
  BY <1>2, <1>3, <1>4, <1>5 DEF RpNext

\* An ESP session is one of an ESP image, so the major that waits is one on offer.
LEMMA CommitStep ==
  TypeInv /\ SessionInv /\ CommitInv /\ [Next]_vars => CommitInv'
<1> SUFFICES ASSUME TypeInv, SessionInv, CommitInv, [Next]_vars PROVE CommitInv'
  OBVIOUS
<1>1. ASSUME NEW i \in Images, HandleAnnounce(i) PROVE CommitInv'
  BY <1>1, CommitUntouched
  DEF HandleAnnounce, AnnounceRefused, AnnounceBadSha, AnnounceRp, AnnounceEsp, TakeUp
<1>2. ASSUME NEW c \in Images, NEW k \in 0..MaxChunkIdx, NEW good \in BOOLEAN,
             HandleChunk(c, k, good)
      PROVE  CommitInv'
  <2>1. CASE DeferCommit(c, k, good)
    <3>1. /\ espTargetMajor' = MajorOf[image] /\ active /\ ~targetRp
          /\ UNCHANGED <<fromRp, rp, rpCommits>>
      BY <2>1 DEF DeferCommit, Finishes, CanWrite, InOrder, Accepts
    <3>2. image \in EspImages
      BY <3>1 DEF SessionInv, ActiveSession, EspImages
    <3> QED
      BY <3>1, <3>2 DEF CommitInv, EspMajors
  <2>2. CASE ~DeferCommit(c, k, good)
    BY <1>2, <2>2, CommitUntouched
    DEF HandleChunk, DuplicateChunk, OutOfOrderChunk, ForwardChunk, FailWrite, WriteChunk,
        ShaMismatch, SoloEndFails, SoloCommit
  <2> QED
    BY <2>1, <2>2
<1>3. CASE PushStep
  BY <1>3, CommitUntouched DEF PushStep, PushTimeout, PushRetried, PushRefused, PushAccepted
<1>4. CASE HandleOtaChunkAck \/ HandleOtaCommitNow
  BY <1>4, CommitUntouched DEF HandleOtaChunkAck, HandleOtaCommitNow, CommitIgnored,
     CommitFails, CommitSucceeds, Incoming
<1>5. CASE Tick
  <2>1. /\ rp'.espReady = pending /\ (pending => rp'.espMajor = espTargetMajor)
        /\ UNCHANGED <<fromRp, rpCommits, pending, espTargetMajor>>
    BY <1>5 DEF Tick, TypeInv, TypeOK, PairTypeOK
  <2> QED
    BY <2>1 DEF CommitInv
<1>6. CASE Restart \/ PowerLoss
  BY <1>6 DEF Restart, PowerLoss, Reboot, CommitInv
<1>7. CASE RpNext
  BY <1>7, CommitRp
<1>8. CASE UNCHANGED vars
  BY <1>8, CommitUntouched DEF vars
<1> QED
  BY <1>1, <1>2, <1>3, <1>4, <1>5, <1>6, <1>7, <1>8 DEF Next

\* A bootable image has the major that runs, or one the RP2040 has committed to.
LEMMA BumpStep ==
  ASSUME OneMajor
  PROVE  TypeInv /\ SessionInv /\ CommitInv /\ MajorBumpNeedsCommit /\ [Next]_vars
           => MajorBumpNeedsCommit'
<1> SUFFICES ASSUME TypeInv, SessionInv, CommitInv, MajorBumpNeedsCommit, [Next]_vars,
                    HasUart, \A i \in Images \cup {Factory} : MajorOf[i] # 0
             PROVE  MajorBumpNeedsCommit'
  BY DEF MajorBumpNeedsCommit
<1>0. /\ MajorOf[running.image] \in {MajorOf[Factory]} \cup rpCommits
      /\ boot = "spare" /\ spare.sealed =>
           MajorOf[spare.image] \in {MajorOf[running.image]} \cup rpCommits
  BY DEF MajorBumpNeedsCommit
<1>1. CASE UNCHANGED <<spare, boot, running>> /\ rpCommits \subseteq rpCommits'
  BY <1>0, <1>1 DEF MajorBumpNeedsCommit
<1>2. CASE UNCHANGED <<running, rpCommits>> /\ ~spare'.sealed
  BY <1>0, <1>2 DEF MajorBumpNeedsCommit
<1>3. ASSUME NEW i \in Images, HandleAnnounce(i) PROVE MajorBumpNeedsCommit'
  BY <1>1, <1>3 DEF HandleAnnounce, AnnounceRefused, AnnounceBadSha, AnnounceRp, AnnounceEsp,
                    TakeUp
<1>4. ASSUME NEW c \in Images, NEW k \in 0..MaxChunkIdx, NEW good \in BOOLEAN,
             HandleChunk(c, k, good)
      PROVE  MajorBumpNeedsCommit'
  <2>1. CASE CanWrite(c, k) /\ spare' = Written(c, good) /\ UNCHANGED <<running, rpCommits>>
    BY <1>2, <2>1, WrittenFollows
  <2>2. CASE SoloCommit(c, k, good)
    <3>1. /\ Finishes(c, k) /\ ShaAfter(c, good) /\ ~PairedMajorBump
          /\ spare' = Ended(Written(c, good)) /\ UNCHANGED <<running, rpCommits>>
      BY <2>2 DEF SoloCommit
    <3>2. spare'.image = image
      BY <3>1, FinishedIntact DEF Ended, Contents
    <3>3. running.image \in Images \cup {Factory}
      BY DEF TypeInv, TypeOK, FlashTypeOK
    <3>4. MajorOf[image] = MajorOf[running.image]
      BY <3>1, <3>3 DEF PairedMajorBump
    <3> QED
      BY <1>0, <3>1, <3>2, <3>4 DEF MajorBumpNeedsCommit
  <2> QED
    BY <1>1, <1>4, <2>1, <2>2
    DEF HandleChunk, DuplicateChunk, OutOfOrderChunk, ForwardChunk, FailWrite, WriteChunk,
        ShaMismatch, DeferCommit, SoloEndFails, Finishes
<1>5. CASE PushStep
  BY <1>1, <1>5 DEF PushStep, PushTimeout, PushRetried, PushRefused, PushAccepted
<1>6. CASE HandleOtaChunkAck \/ CommitIgnored \/ CommitFails \/ Tick
  BY <1>1, <1>6 DEF HandleOtaChunkAck, CommitIgnored, CommitFails, Tick
<1>7. CASE CommitSucceeds
  <2>1. /\ CanEnd(spare, upd) /\ spare' = Ended(spare) /\ UNCHANGED <<running, rpCommits>>
        /\ fromRp # <<>> /\ Head(fromRp).kind = "commit"
    BY <1>7 DEF CommitSucceeds, Incoming
  <2>2. 1 \in 1..Len(fromRp) /\ fromRp[1].kind = "commit"
    BY <2>1 DEF TypeInv, TypeOK, PairTypeOK
  <2>3. EspMajors \cap rpCommits # {}
    BY <2>2 DEF CommitInv
  <2>4. spare'.image \in EspImages
    BY <2>1 DEF CanEnd, Ended, EspImages, TypeInv, TypeOK, FlashTypeOK, Contents
  <2>5. MajorOf[spare'.image] \in rpCommits
    BY <2>3, <2>4 DEF OneMajor, EspMajors
  <2> QED
    BY <1>0, <2>1, <2>5 DEF MajorBumpNeedsCommit
<1>8. CASE Restart \/ PowerLoss
  <2>1. Reboot
    BY <1>8 DEF Restart, PowerLoss
  <2>2. /\ boot' = "current" /\ rpCommits' = rpCommits
        /\ \/ running'.image = running.image
           \/ running'.image = spare.image /\ boot = "spare" /\ spare.sealed
    BY <2>1 DEF Reboot
  <2> QED
    BY <1>0, <2>2 DEF MajorBumpNeedsCommit
<1>9. CASE RpNext
  BY <1>1, <1>9 DEF RpNext, RpAnnounce, RpChunk, RpCommit, LoseToRp, LoseFromRp, EspUnchanged
<1>10. CASE UNCHANGED vars
  BY <1>1, <1>10 DEF vars
<1> QED
  BY <1>3, <1>4, <1>5, <1>6, <1>7, <1>8, <1>9, <1>10 DEF Next, HandleOtaCommitNow

\* If all ESP images on offer have one major, a DRYER never starts an image of
\* another major before the RP2040 has begun its own commit to that major, whenever
\* it loses power and whatever frames are lost or late.
THEOREM MajorsTogether ==
  ASSUME OneMajor
  PROVE  Spec => []MajorBumpNeedsCommit
<1>1. Init => CommitInv /\ MajorBumpNeedsCommit
  BY DEF Init, CommitInv, MajorBumpNeedsCommit
<1> QED
  BY <1>1, CommitStep, BumpStep, SessionCorrect, PTL DEF Spec

=============================================================================
