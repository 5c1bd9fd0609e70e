------------------------------ MODULE ErrorBus ------------------------------
(***************************************************************************)
(* The bus of error events (src/core/error_bus.cpp, error_post.h) and its  *)
(* drain (error_process.cpp).  Events are posted from the main loop, from  *)
(* interrupts and from the other core, each in a critical section of its   *)
(* own; error_process_all polls them in the main loop and passes to the    *)
(* handler those its filters let through.  The handler may post as well.   *)
(***************************************************************************)
EXTENDS Naturals, Sequences

CONSTANTS
  ERRORBUS_SIZE,  \* slots of the ring
  Severities,     \* ErrSeverity, numbered from 0
  CtrlIds,        \* units the filter can tell apart (0 .. 7)
  MaxPosts        \* bound: calls of errorbus_post

ASSUME BusAssumption == ERRORBUS_SIZE \in Nat /\ ERRORBUS_SIZE >= 2

ASSUME BusFilterAssumption == 0 \in Severities /\ MaxPosts \in Nat

Slots == 0 .. ERRORBUS_SIZE - 1

\* An event, told apart from the others by its number.
Events == [n : 1 .. MaxPosts, severity : Severities, ctrl_id : CtrlIds]
NoEvent == [n |-> 0, severity |-> 0, ctrl_id |-> 0]

VARIABLES
  q,         \* q_: the ring
  head,      \* head_: where the next event goes
  tail,      \* tail_: the oldest event
  ev,        \* what the last poll took
  epoch,     \* 0 or 1: changes with every clear
  hasCb,     \* g_cb: a handler is registered
  minSev,    \* g_min_sev
  ctrlMask,  \* g_ctrl_mask, as the set of units that are let through
  draining,  \* error_process_all is running
  handed,    \* the events handed to the handler, in order
  posts      \* calls of errorbus_post

ringVars == <<q, head, tail, ev, epoch>>
filterVars == <<hasCb, minSev, ctrlMask>>
busVars == <<ringVars, filterVars, draining, handed, posts>>

BusTypeOK ==
  /\ q \in [Slots -> Events \cup {NoEvent}]
  /\ head \in Slots /\ tail \in Slots /\ ev \in Events \cup {NoEvent}
  /\ epoch \in {0, 1} /\ hasCb \in BOOLEAN /\ minSev \in Severities /\ ctrlMask \in SUBSET CtrlIds
  /\ draining \in BOOLEAN /\ handed \in Seq(Events) /\ posts \in 0 .. MaxPosts

BusInit ==
  /\ q = [s \in Slots |-> NoEvent] /\ head = 0 /\ tail = 0 /\ ev = NoEvent /\ epoch = 0
  /\ hasCb = FALSE /\ minSev = 0 /\ ctrlMask = CtrlIds
  /\ draining = FALSE /\ handed = <<>> /\ posts = 0

----------------------------------------------------------------------------
(* The ring. *)

IncPlain(x) == x + 1  \* A faulty variant of Inc
Inc(x) == (x + 1) % ERRORBUS_SIZE
Count == (head + ERRORBUS_SIZE - tail) % ERRORBUS_SIZE

FullNever == FALSE  \* A faulty variant of Full
Full == Inc(head) = tail

\* errorbus_post, through one of the wrappers of error_post.h: refused when the ring is full.
Post(e) ==
  /\ posts < MaxPosts /\ e.n = posts + 1 /\ posts' = posts + 1
  /\ IF Full THEN UNCHANGED <<q, head>>
             ELSE q' = [q EXCEPT ![head] = e] /\ head' = Inc(head)
  /\ UNCHANGED <<tail, ev, epoch, filterVars, draining, handed>>

\* errorbus_clear, and errorbus_init.
Clear ==
  /\ head' = 0 /\ tail' = 0 /\ epoch' = 1 - epoch
  /\ UNCHANGED <<q, ev, filterVars, draining, handed, posts>>

----------------------------------------------------------------------------
(* The drain. *)

\* error_process_all: without a handler it leaves the events where they are.
BeginProcess ==
  /\ ~draining /\ hasCb /\ draining' = TRUE
  /\ UNCHANGED <<ringVars, filterVars, handed, posts>>

Passes(e) == e.severity >= minSev /\ e.ctrl_id \in ctrlMask

\* A faulty variant of ProcessNext: a filtered event is skipped before the tail has moved.
ProcessNextSkips ==
  /\ draining /\ head # tail /\ ev' = q[tail]
  /\ IF Passes(q[tail]) THEN handed' = Append(handed, q[tail]) /\ tail' = Inc(tail)
                        ELSE UNCHANGED <<handed, tail>>
  /\ UNCHANGED <<q, head, epoch, filterVars, draining, posts>>

\* One round of its loop: errorbus_poll, the filters, the handler.
ProcessNext ==
  /\ draining /\ head # tail
  /\ ev' = q[tail] /\ tail' = Inc(tail)
  /\ handed' = IF Passes(q[tail]) THEN Append(handed, q[tail]) ELSE handed
  /\ UNCHANGED <<q, head, epoch, filterVars, draining, posts>>

EndProcess ==
  /\ draining /\ head = tail /\ draining' = FALSE
  /\ UNCHANGED <<ringVars, filterVars, handed, posts>>

\* The filters; the product sets them from the main loop.
SetFilter ==
  /\ \/ hasCb' = TRUE /\ UNCHANGED <<minSev, ctrlMask>>
     \/ \E s \in Severities : minSev' = s /\ UNCHANGED <<hasCb, ctrlMask>>
     \/ \E c \in CtrlIds : /\ ctrlMask' \in {ctrlMask \cup {c}, ctrlMask \ {c}}
                           /\ UNCHANGED <<hasCb, minSev>>
  /\ UNCHANGED <<ringVars, draining, handed, posts>>

BusNext ==
  \/ \E e \in Events : Post(e)
  \/ Clear \/ BeginProcess \/ ProcessNext \/ EndProcess \/ SetFilter

\* The main loop calls error_process_all again and again, and it does not block.
BusFairness == WF_busVars(BeginProcess) /\ WF_busVars(ProcessNext) /\ WF_busVars(EndProcess)

BusSpec == BusInit /\ [][BusNext]_busVars /\ BusFairness

----------------------------------------------------------------------------
(* Properties. *)

\* The events held, oldest first: what errorbus_poll will take.
Held == [i \in 1 .. Count |-> q[(tail + i - 1) % ERRORBUS_SIZE]]

Fifo == INSTANCE BoundedFifo WITH Capacity <- ERRORBUS_SIZE - 1, Value <- Events,
                                  queue <- Held, taken <- ev

\* The ring implements a queue of one event less than it has slots: errorbus_post loses none it
\* accepts, errorbus_poll takes them in the order of posting, no index runs over another, and
\* error_process_all hands each to the handler at most once, when it is taken.
RefinesFifo == Fifo!FifoInit(NoEvent) /\ [][Fifo!FifoNext]_<<Held, ev, handed, epoch>>

\* With a handler registered, error_process_all empties the bus, whatever its filters drop.
Drains == (hasCb /\ head # tail) ~> head = tail
=============================================================================
