----------------------------- MODULE UartBridge -----------------------------
(***************************************************************************)
(* The frame protocol between the ESP32 and the RP2040 (src/uart).  Both   *)
(* ends run the same class: a byte parser, a sequence counter of one byte  *)
(* and a single slot for a frame that waits for its acknowledgement, which *)
(* loop() sends again every UART_CMD_TIMEOUT_MS.                           *)
(*                                                                         *)
(* The wire carries frames, not bytes.  A frame that lost or changed a     *)
(* byte is no longer whole: what the parser makes of its bytes, and of the *)
(* frames it swallows while it is inside a frame that never ends, is a     *)
(* choice among what they can lead to.  A CRC that fits by accident is     *)
(* left out.                                                               *)
(***************************************************************************)
EXTENDS Naturals, Sequences, FiniteSets

CONSTANTS
  Messages,     \* what the products send: an end, a kind, and whether an ack is asked for
  SeqSpace,     \* values of the sequence byte (256 in the code)
  MaxRetries,   \* UART_MAX_RETRIES
  MaxSends,     \* bound: frames the two ends are asked to send
  MaxInFlight,  \* bound: frames a receive buffer holds; the next one is overrun
  MaxDamage,    \* bound: how often noise damages a frame or keeps a parser inside one
  MaxRestarts   \* bound: restarts of the two ends together

Ends == {"esp", "mcu"}
Other(e) == CHOOSE o \in Ends : o # e

(***************************************************************************)
(* Kinds of frame, by what handleFrame does with them: one that is         *)
(* acknowledged by the bridge itself (Telemetry, ConfigPush), one that the *)
(* product's handler may acknowledge (Command, ClaimStart and the others), *)
(* an acknowledgement, an Error, and an odd one, which is refused for its  *)
(* version, its length or its kind.                                        *)
(***************************************************************************)
DataKinds == {"auto", "cmd"}
Kinds == DataKinds \cup {"ack", "err", "odd"}

ASSUME SlotAssumption == /\ Messages \subseteq Ends \X (DataKinds \cup {"odd"}) \X BOOLEAN
                         /\ SeqSpace \in Nat \ {0} /\ MaxRetries \in Nat \ {0}
                         /\ MaxSends \in Nat /\ MaxInFlight \in Nat
                         /\ MaxDamage \in Nat /\ MaxRestarts \in Nat

VARIABLES
  seqCounter,  \* end -> seqCounter_
  pending,     \* end -> pending_: the frame waiting for its acknowledgement
  parser,      \* end -> "sof": between frames, "mid": inside one
  line,        \* end -> frames on their way to it
  sent,        \* the frames the products have been asked to send so far, their names
  handled,     \* frame -> how often it has been passed to a handler
  acked,       \* end -> its frames that it has taken for acknowledged
  damage,      \* how often noise has struck
  restarts     \* end -> how often it has restarted

linkVars == <<seqCounter, pending, parser, line>>
pastVars == <<sent, handled, acked, restarts>>
vars == <<linkVars, pastVars, damage>>

(***************************************************************************)
(* A frame.  seq is all the protocol knows of it; name tells the frames    *)
(* apart here.  of is what an acknowledgement repeats: the sequence byte   *)
(* of the frame it is for.                                                 *)
(***************************************************************************)
NoFrame == 0
Names == 0 .. MaxSends
Frames == [kind : Kinds, ackReq : BOOLEAN, seq : 0 .. SeqSpace - 1, name : Names,
           of : 0 .. SeqSpace - 1]
Frame(k, a, s, n, o) ==
  [kind |-> k, ackReq |-> a, seq |-> s, name |-> n, of |-> o]

NoPending == [active |-> FALSE, frame |-> Frame("cmd", TRUE, 0, NoFrame, 0), retries |-> 0]

TypeOK ==
  /\ seqCounter \in [Ends -> 0 .. SeqSpace - 1]
  /\ pending \in [Ends -> [active : BOOLEAN, frame : Frames, retries : 0 .. MaxRetries - 1]]
  /\ parser \in [Ends -> {"sof", "mid"}]
  /\ line \in [Ends -> Seq([f : Frames, whole : BOOLEAN])]
  /\ sent \in Names
  /\ handled \in [1 .. MaxSends -> Nat]
  /\ acked \in [Ends -> SUBSET Names]
  /\ damage \in Nat /\ restarts \in [Ends -> Nat]

Init ==
  /\ seqCounter = [e \in Ends |-> 0] /\ pending = [e \in Ends |-> NoPending]
  /\ parser = [e \in Ends |-> "sof"] /\ line = [e \in Ends |-> <<>>]
  /\ sent = 0
  /\ handled = [n \in 1 .. MaxSends |-> 0]
  /\ acked = [e \in Ends |-> {}]
  /\ damage = 0 /\ restarts = [e \in Ends |-> 0]

----------------------------------------------------------------------------
(* Sending. *)

\* A frame joins the others in the receive buffer of the other end, or overruns it.
Joined(q, f, w) == IF Len(q) < MaxInFlight THEN Append(q, [f |-> f, whole |-> w]) ELSE q

NextSeq(e) == (seqCounter[e] + 1) % SeqSpace

\* transmit: the frame takes the next sequence number and goes out.
Transmits(e, f, w) ==
  /\ seqCounter' = [seqCounter EXCEPT ![e] = NextSeq(e)]
  /\ line' = [line EXCEPT ![Other(e)] = Joined(@, f, w)]

\* The same from within loop(), which has just taken a frame from its own buffer.
Answers(e, f) ==
  /\ seqCounter' = [seqCounter EXCEPT ![e] = NextSeq(e)]
  /\ line' = [line EXCEPT ![e] = Tail(@), ![Other(e)] = Joined(@, f, TRUE)]
TakesOnly(e) == /\ line' = [line EXCEPT ![e] = Tail(@)] /\ UNCHANGED seqCounter

\* Nobody reads the sequence byte of these two.
AckFrame(of) == Frame("ack", FALSE, 0, NoFrame, of)
ErrFrame == Frame("err", FALSE, 0, NoFrame, 0)

\* A frame that asks for an acknowledgement takes the slot, whatever was in it.
PendingAfter(e, f) ==
  IF f.ackReq THEN [active |-> TRUE, frame |-> f, retries |-> 0] ELSE pending[e]

\* One of the send methods.
Send(e, k, a) ==
  LET f == Frame(k, a, seqCounter[e], sent + 1, 0) IN
  /\ sent < MaxSends
  /\ sent' = sent + 1
  /\ \/ /\ Transmits(e, f, TRUE)
        /\ pending' = [pending EXCEPT ![e] = PendingAfter(e, f)]
     \/ /\ Transmits(e, f, FALSE)       \* written only in part: send returns false
        /\ UNCHANGED pending
  /\ UNCHANGED <<parser, handled, acked, damage, restarts>>

\* resendPendingIfNeeded, once UART_CMD_TIMEOUT_MS has passed.
LastTryLate(e) == pending[e].retries >= MaxRetries       \* A faulty variant of LastTry
LastTry(e) == pending[e].retries + 1 >= MaxRetries

Repeat(e) ==
  /\ pending[e].active /\ ~LastTry(e)
  /\ pending' = [pending EXCEPT ![e].retries = @ + 1]
  /\ line' = [line EXCEPT ![Other(e)] = Joined(@, pending[e].frame, TRUE)]
  /\ UNCHANGED <<seqCounter, parser, pastVars, damage>>

\* A faulty variant of GiveUp: it waits for one more retry than Repeat makes.
GiveUpLate(e) ==
  /\ pending[e].active /\ LastTryLate(e)
  /\ pending' = [pending EXCEPT ![e].active = FALSE]
  /\ Transmits(e, ErrFrame, TRUE)
  /\ UNCHANGED <<parser, sent, handled, acked, damage, restarts>>

\* The last try has timed out: the slot is free, and emitError tells both sides.
GiveUp(e) ==
  /\ pending[e].active /\ LastTry(e)
  /\ pending' = [pending EXCEPT ![e].active = FALSE]
  /\ Transmits(e, ErrFrame, TRUE)
  /\ UNCHANGED <<parser, sent, handled, acked, damage, restarts>>

----------------------------------------------------------------------------
(* Receiving: loop() feeds the parser, and a frame that is complete goes   *)
(* to handleFrame.                                                         *)

Arrived(e) == /\ line[e] # <<>> /\ Head(line[e]).whole /\ parser[e] = "sof"
Got(e) == Head(line[e]).f

Handling(e) == handled' = [handled EXCEPT ![Got(e).name] = @ + 1]

\* Telemetry and ConfigPush: the handler, then the acknowledgement that was asked for.
HandleAuto(e) ==
  /\ Arrived(e) /\ Got(e).kind = "auto" /\ Handling(e)
  /\ IF Got(e).ackReq THEN Answers(e, AckFrame(Got(e).seq)) ELSE TakesOnly(e)
  /\ UNCHANGED <<pending, parser, sent, acked, damage, restarts>>

\* Any other message: the product's handler acknowledges it or does not.
HandleCmd(e) ==
  /\ Arrived(e) /\ Got(e).kind = "cmd" /\ Handling(e)
  /\ Answers(e, AckFrame(Got(e).seq)) \/ TakesOnly(e)
  /\ UNCHANGED <<pending, parser, sent, acked, damage, restarts>>

\* handleAckFrame: the sequence byte alone says what is acknowledged.
MatchesAny(e, f) == pending[e].active                   \* A faulty variant of Matches
Matches(e, f) == pending[e].active /\ pending[e].frame.seq = f.of

HandleAck(e) ==
  /\ Arrived(e) /\ Got(e).kind = "ack" /\ TakesOnly(e)
  /\ IF Matches(e, Got(e))
       THEN /\ pending' = [pending EXCEPT ![e].active = FALSE]
            /\ acked' = [acked EXCEPT ![e] = @ \cup {pending[e].frame.name}]
       ELSE UNCHANGED <<pending, acked>>
  /\ UNCHANGED <<parser, sent, handled, damage, restarts>>

\* A faulty variant of HandleError: an Error is answered like any other error.
AnswerError(e) ==
  /\ Arrived(e) /\ Got(e).kind = "err" /\ Answers(e, ErrFrame)
  /\ UNCHANGED <<pending, parser, pastVars, damage>>

\* An Error of the other end goes to the product; emitError(remote) answers nothing.
HandleError(e) ==
  /\ Arrived(e) /\ Got(e).kind = "err" /\ TakesOnly(e)
  /\ UNCHANGED <<pending, parser, pastVars, damage>>

\* A frame that handleFrame or validateLength refuses is answered by an Error.
Refuse(e) ==
  /\ Arrived(e) /\ Got(e).kind = "odd" /\ Answers(e, ErrFrame)
  /\ UNCHANGED <<pending, parser, pastVars, damage>>

(***************************************************************************)
(* The bytes of a damaged frame, or of a whole one that arrives while the  *)
(* parser is inside another: they are skipped, or end a frame whose CRC or *)
(* length is wrong, which is answered by an Error.  After them the parser  *)
(* is between frames again, or inside one that has not ended: the damaged  *)
(* one was cut short, or a byte looked like a start.                       *)
(***************************************************************************)
Swallow(e) ==
  /\ line[e] # <<>> /\ (~Head(line[e]).whole \/ parser[e] = "mid")
  /\ \/ TakesOnly(e)
     \/ Answers(e, ErrFrame)
  /\ \/ parser' = [parser EXCEPT ![e] = "sof"] /\ UNCHANGED damage
     \/ /\ damage < MaxDamage /\ damage' = damage + 1
        /\ parser' = [parser EXCEPT ![e] = "mid"]
  /\ UNCHANGED <<pending, pastVars>>

Receive(e) ==
  \/ HandleAuto(e) \/ HandleCmd(e) \/ HandleAck(e)
  \/ HandleError(e) \/ Refuse(e) \/ Swallow(e)

----------------------------------------------------------------------------
(* The wire, and power. *)

\* Noise damages a frame: a byte is lost or changed.
Damage(e) ==
  /\ damage < MaxDamage /\ line[e] # <<>> /\ Head(line[e]).whole
  /\ damage' = damage + 1
  /\ line' = [line EXCEPT ![e][1].whole = FALSE]
  /\ UNCHANGED <<seqCounter, pending, parser, pastVars>>

\* begin: a restart empties the receive buffer and the slot, and numbers from 0 again.
Restart(e) ==
  /\ restarts["esp"] + restarts["mcu"] < MaxRestarts
  /\ restarts' = [restarts EXCEPT ![e] = @ + 1]
  /\ seqCounter' = [seqCounter EXCEPT ![e] = 0]
  /\ pending' = [pending EXCEPT ![e] = NoPending]
  /\ parser' = [parser EXCEPT ![e] = "sof"]
  /\ line' = [line EXCEPT ![e] = <<>>]
  /\ UNCHANGED <<sent, handled, acked, damage>>

Next ==
  \E e \in Ends :
    \/ \E k \in DataKinds \cup {"odd"}, a \in BOOLEAN : <<e, k, a>> \in Messages /\ Send(e, k, a)
    \/ Repeat(e) \/ GiveUp(e)
    \/ HandleAuto(e) \/ HandleCmd(e) \/ HandleAck(e)
    \/ HandleError(e) \/ Refuse(e) \/ Swallow(e)
    \/ Damage(e) \/ Restart(e)

(***************************************************************************)
(* loop() is called all the time, by the main loop or by waitForAck: bytes *)
(* that have arrived are parsed, and a timer that runs out is noticed.     *)
(***************************************************************************)
Loop(e) == Receive(e) \/ Repeat(e) \/ GiveUp(e)
Fairness == \A e \in Ends : WF_vars(Loop(e))

Spec == Init /\ [][Next]_vars /\ Fairness

----------------------------------------------------------------------------
(* Properties. *)

\* A frame that handleAckFrame takes for acknowledged has been handled by the other end,
\* as long as the sender has not restarted: the sequence byte tells old frames from new ones.
AckMeansHandled ==
  \A e \in Ends : restarts[e] = 0 => \A n \in acked[e] : handled[n] > 0

\* Nothing tells a repetition from a new frame, so a command whose acknowledgement is lost is
\* executed again; resendPendingIfNeeded bounds how often.
HandledAtMost ==
  \A n \in 1 .. MaxSends : handled[n] <= MaxRetries

\* Nothing stays in the slot of resendPendingIfNeeded once the product sends no more: it is
\* acknowledged, or given up and reported.
SlotFreed == \A e \in Ends : pending[e].active ~> ~pending[e].active

\* The Errors that emitError sends do not breed Errors: when no product sends, the line falls silent.
LineFallsSilent == <>[](\A e \in Ends : line[e] = <<>>)

\* waitForAck runs loop() until the slot is free, and then says "@return true if an ACK arrived
\* in time" (uart_bridge.h): whatever frees the slot is an acknowledgement of what was in it.
TrueMeansAcked ==
  [][\A e \in Ends : pending[e].active /\ ~pending'[e].active /\ restarts'[e] = restarts[e]
                       => pending[e].frame.name \in acked'[e]]_vars
=============================================================================
