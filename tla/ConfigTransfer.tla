--------------------------- MODULE ConfigTransfer ---------------------------
(***************************************************************************)
(* A configuration too large for a UART frame travels in chunks            *)
(* (src/config/config_manager.h): ConfigSender cuts it up, ConfigReceiver  *)
(* puts it together.  The chunks travel in order; any of them may be lost, *)
(* and the sender may give up in the middle or restart.  Every chunk holds *)
(* one unit of data.                                                       *)
(***************************************************************************)
EXTENDS Naturals, Sequences

CONSTANTS
  CONFIG_BUFFER_SIZE,  \* units the receiver's buffer holds
  IdSpace,             \* values of a transfer id (2^16)
  MaxLength,           \* bound: units of a document
  MaxDocs,             \* bound: documents sent
  MaxOnWire,           \* bound: chunks on their way
  MaxSenderRestarts    \* bound: restarts of the sender

ASSUME CfgAssumption ==
  /\ CONFIG_BUFFER_SIZE \in Nat /\ MaxLength \in Nat \ {0} /\ MaxOnWire \in Nat
  /\ MaxDocs \in Nat /\ IdSpace \in Nat /\ MaxDocs < IdSpace /\ MaxSenderRestarts \in Nat

NoDoc == [doc |-> 0, length |-> 0, id |-> 0, next |-> 0]

VARIABLES
  counter,    \* generateTransferId's counter
  lengths,    \* the lengths of the documents sent so far
  sending,    \* the document in send, and the index of its next chunk
  wire,       \* chunks on their way
  rx,         \* the receiver: transferId_, totalSize_, nextChunk_, active_
  buffer,     \* buffer_ up to receivedSize_
  published,  \* the document last taken with getJson
  reboots     \* restarts of the sender

cfgVars == <<counter, lengths, sending, wire, rx, buffer, published, reboots>>

Units == (1 .. MaxDocs) \X (0 .. MaxLength - 1)
NoTransfer == [transferId |-> 0, totalSize |-> 0, nextChunk |-> 0, active |-> FALSE]

CfgTypeOK ==
  /\ counter \in 0 .. IdSpace - 1
  /\ lengths \in Seq(1 .. MaxLength) /\ Len(lengths) <= MaxDocs
  /\ sending \in [doc : 0 .. MaxDocs, length : 0 .. MaxLength, id : 0 .. IdSpace - 1,
                  next : 0 .. MaxLength]
  /\ wire \in Seq([id : 0 .. IdSpace - 1, total : 0 .. MaxLength, index : 0 .. MaxLength - 1,
                   unit : Units, last : BOOLEAN])
  /\ rx \in [transferId : 0 .. IdSpace - 1, totalSize : 0 .. MaxLength,
             nextChunk : 0 .. MaxLength, active : BOOLEAN]
  /\ buffer \in Seq(Units) /\ Len(buffer) <= CONFIG_BUFFER_SIZE
  /\ published \in Seq(Units) /\ reboots \in Nat

CfgInit ==
  /\ counter = 0 /\ lengths = <<>> /\ sending = NoDoc /\ wire = <<>>
  /\ rx = NoTransfer /\ buffer = <<>> /\ published = <<>> /\ reboots = 0

----------------------------------------------------------------------------
(* The sender. *)

\* A new document: generateTransferId, then send.
StartSend(n) ==
  LET id == (counter + 1) % IdSpace IN
  /\ sending = NoDoc /\ Len(lengths) < MaxDocs
  /\ counter' = id /\ lengths' = Append(lengths, n)
  /\ sending' = [doc |-> Len(lengths) + 1, length |-> n, id |-> id, next |-> 0]
  /\ UNCHANGED <<wire, rx, buffer, published, reboots>>

\* A chunk; only the first names the total size.
Chunk == [id |-> sending.id, index |-> sending.next, unit |-> <<sending.doc, sending.next>>,
          total |-> IF sending.next = 0 THEN sending.length ELSE 0,
          last |-> sending.next + 1 = sending.length]

\* A round of send's loop: sendFn takes the chunk (which may still be lost) or fails.
SendChunk ==
  /\ sending # NoDoc /\ Len(wire) < MaxOnWire
  /\ \/ /\ wire' = Append(wire, Chunk) \/ UNCHANGED wire
        /\ sending' = IF Chunk.last THEN NoDoc ELSE [sending EXCEPT !.next = @ + 1]
     \/ sending' = NoDoc /\ UNCHANGED wire
  /\ UNCHANGED <<counter, lengths, rx, buffer, published, reboots>>

\* The sender restarts, and with it generateTransferId.
RestartSender ==
  /\ reboots < MaxSenderRestarts /\ reboots' = reboots + 1
  /\ counter' = 0 /\ sending' = NoDoc
  /\ UNCHANGED <<lengths, wire, rx, buffer, published>>

----------------------------------------------------------------------------
(* The receiver: processFragment, and the handler that takes a complete    *)
(* document and resets the receiver.                                       *)

Reset == rx' = NoTransfer /\ buffer' = <<>>

BelongsToAny(r, c) == r.active  \* A faulty variant of Belongs
Belongs(r, c) == r.active /\ c.id = r.transferId

FitsBuffer(b) == Len(b) + 1 <= CONFIG_BUFFER_SIZE

\* The chunk is the next one of the transfer r, of which b has been received.
TakeUnit(r, b, c) ==
  LET whole == Append(b, c.unit) IN
  IF ~c.last
    THEN /\ rx' = [r EXCEPT !.nextChunk = @ + 1] /\ buffer' = whole /\ UNCHANGED published
    ELSE /\ Reset
         /\ published' = IF r.totalSize > 0 /\ Len(whole) # r.totalSize
                           THEN published ELSE whole

ReceiveChunk ==
  LET c == Head(wire)
      first == c.index = 0
      r == IF first THEN [transferId |-> c.id, totalSize |-> c.total, nextChunk |-> 0,
                          active |-> TRUE] ELSE rx
      b == IF first THEN <<>> ELSE buffer IN
  /\ wire # <<>> /\ wire' = Tail(wire)
  /\ \/ /\ first /\ c.total > CONFIG_BUFFER_SIZE                \* ErrorOverflow
        /\ Reset /\ UNCHANGED published
     \/ /\ ~first /\ ~Belongs(rx, c)                            \* ErrorTransferId
        /\ UNCHANGED <<rx, buffer, published>>
     \/ /\ ~first /\ Belongs(rx, c) /\ c.index # rx.nextChunk   \* ErrorSequence
        /\ UNCHANGED <<rx, buffer, published>>
     \/ /\ first => c.total <= CONFIG_BUFFER_SIZE
        /\ Belongs(r, c) /\ c.index = r.nextChunk
        /\ IF FitsBuffer(b) THEN TakeUnit(r, b, c)
                            ELSE Reset /\ UNCHANGED published   \* ErrorOverflow
  /\ UNCHANGED <<counter, lengths, sending, reboots>>

CfgNext == (\E n \in 1 .. MaxLength : StartSend(n)) \/ SendChunk \/ RestartSender \/ ReceiveChunk

CfgSpec == CfgInit /\ [][CfgNext]_cfgVars

----------------------------------------------------------------------------
(* Properties. *)

Document(d) == [i \in 1 .. lengths[d] |-> <<d, i - 1>>]

\* What is taken with getJson is a document as it was sent, whole and in order, whatever chunks
\* were lost and wherever send failed; that transfer ids start again with the sender excepted.
WholeDocument ==
  published # <<>> /\ reboots = 0 => \E d \in 1 .. Len(lengths) : published = Document(d)
=============================================================================
