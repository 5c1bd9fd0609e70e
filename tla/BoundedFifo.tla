---------------------------- MODULE BoundedFifo -----------------------------
(***************************************************************************)
(* What the error bus promises (src/core/error_bus.h): a queue of bounded  *)
(* length.  A post is accepted at the end or refused when the queue is     *)
(* full, a poll takes the oldest event, which the handler may get to see,  *)
(* a clear drops them all.                                                 *)
(***************************************************************************)
EXTENDS Naturals, Sequences

CONSTANTS Capacity, Value

VARIABLES
  queue,  \* the events held
  taken,  \* the one the last poll took
  handed, \* the events the handler has seen, in order
  epoch   \* 0 or 1: changes with every clear

FifoInit(nothing) == queue = <<>> /\ taken = nothing /\ handed = <<>> /\ epoch = 0

Put(e) == /\ Len(queue) < Capacity
          /\ queue' = Append(queue, e) /\ UNCHANGED <<taken, handed, epoch>>

Take == /\ queue # <<>>
        /\ taken' = Head(queue) /\ queue' = Tail(queue)
        /\ handed' \in {handed, Append(handed, Head(queue))} /\ UNCHANGED epoch

Drop == queue' = <<>> /\ epoch' = 1 - epoch /\ UNCHANGED <<taken, handed>>

FifoNext == (\E e \in Value : Put(e)) \/ Take \/ Drop
=============================================================================
