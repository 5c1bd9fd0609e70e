--------------------------- MODULE ServicesProofs ---------------------------
(***************************************************************************)
(* Proofs about the three services of MCServices, one part for each, and   *)
(* at the end about the three in one behaviour.                            *)
(***************************************************************************)
EXTENDS MCServices, Integers, TLAPS, SequenceTheorems

-----------------------------------------------------------------------------
(***************************************************************************)
(* Proofs about ErrorBus, for every size of the ring: it implements the    *)
(* bounded queue of BoundedFifo.  The refinement mapping reads the queue   *)
(* off the ring from the tail on; the lemmas say what a post, a poll and a *)
(* clear do to it, and the invariant that the slots read hold events.      *)
(***************************************************************************)
N == ERRORBUS_SIZE
Anything == Events \cup {NoEvent}
At(t, i) == (t + i - 1) % N
Between(h, t) == (h + N - t) % N

BusInv == BusTypeOK /\ Held \in Seq(Events)

-----------------------------------------------------------------------------
(* The indices of the ring. *)

LEMMA ModN ==
  /\ N \in Nat /\ N >= 2
  /\ \A x \in Nat : x < N => x % N = x /\ (x + N) % N = x
BY BusAssumption DEF N

LEMMA IncIs ==
  ASSUME NEW x \in Slots
  PROVE  Inc(x) = (IF x + 1 = N THEN 0 ELSE x + 1) /\ Inc(x) \in Slots
<1>1. N \in Nat /\ N >= 2 /\ (x + 1 < N => (x + 1) % N = x + 1) /\ (0 + N) % N = 0
  BY ModN DEF Slots, N
<1> QED
  BY <1>1 DEF Inc, Slots, N

LEMMA AtIs ==
  ASSUME NEW t \in Slots, NEW i \in 1 .. N
  PROVE  At(t, i) = (IF t + i <= N THEN t + i - 1 ELSE t + i - 1 - N) /\ At(t, i) \in Slots
<1>1. N \in Nat /\ t \in Nat /\ t < N
  BY ModN DEF Slots, N
<1>2. CASE t + i <= N
  <2>1. t + i - 1 \in Nat /\ t + i - 1 < N
    BY <1>1, <1>2
  <2> QED
    BY <1>1, <1>2, <2>1, ModN DEF At, Slots, N
<1>3. CASE ~(t + i <= N)
  <2>1. t + i - 1 - N \in Nat /\ t + i - 1 - N < N /\ t + i - 1 = (t + i - 1 - N) + N
    BY <1>1, <1>3
  <2> QED
    BY <1>1, <1>3, <2>1, ModN DEF At, Slots, N
<1> QED
  BY <1>2, <1>3

LEMMA BetweenIs ==
  ASSUME NEW h \in Slots, NEW t \in Slots
  PROVE  Between(h, t) = (IF h >= t THEN h - t ELSE h - t + N) /\ Between(h, t) \in 0 .. N - 1
<1>1. N \in Nat /\ h \in Nat /\ h < N /\ t \in Nat /\ t < N
  BY ModN DEF Slots, N
<1>2. CASE h >= t
  <2>1. h - t \in Nat /\ h - t < N /\ h + N - t = (h - t) + N
    BY <1>1, <1>2
  <2> QED
    BY <1>1, <1>2, <2>1, ModN DEF Between
<1>3. CASE ~(h >= t)
  <2>1. h - t + N \in Nat /\ h - t + N < N /\ h + N - t = h - t + N
    BY <1>1, <1>3
  <2> QED
    BY <1>1, <1>3, <2>1, ModN DEF Between
<1> QED
  BY <1>2, <1>3

-----------------------------------------------------------------------------
(* The queue that is read off the ring. *)

LEMMA HeldIs ==
  ASSUME BusTypeOK
  PROVE  /\ Count = Between(head, tail) /\ Count \in 0 .. N - 1
         /\ Held \in Seq(Anything) /\ Len(Held) = Count
         /\ \A i \in 1 .. Count : Held[i] = q[At(tail, i)]
<1>1. head \in Slots /\ tail \in Slots /\ q \in [Slots -> Anything]
  BY DEF BusTypeOK, Anything
<1>2. Count = Between(head, tail) /\ Count \in 0 .. N - 1
  BY <1>1, BetweenIs DEF Count, Between, N
<1>3. Count \in Nat /\ Held = [i \in 1 .. Count |-> q[At(tail, i)]]
  BY <1>2, ModN DEF Held, At, N
<1>4. \A i \in 1 .. Count : q[At(tail, i)] \in Anything
  BY <1>1, <1>2, AtIs, ModN
<1>5. Held \in [1 .. Count -> Anything]
  BY <1>3, <1>4
<1>6. Held \in Seq(Anything)
  BY <1>3, <1>5, SeqDef
<1> QED
  BY <1>2, <1>3, <1>5, <1>6, LenProperties

LEMMA HeldIsNext ==
  ASSUME BusTypeOK'
  PROVE  /\ Count' = Between(head', tail') /\ Count' \in 0 .. N - 1
         /\ Held' \in Seq(Anything) /\ Len(Held') = Count'
         /\ \A i \in 1 .. Count' : Held'[i] = q'[At(tail', i)]
<1>1. head' \in Slots /\ tail' \in Slots /\ q' \in [Slots -> Anything]
  BY DEF BusTypeOK, Anything
<1>2. Count' = Between(head', tail') /\ Count' \in 0 .. N - 1
  BY <1>1, BetweenIs DEF Count, Between, N
<1>3. Count' \in Nat /\ Held' = [i \in 1 .. Count' |-> q'[At(tail', i)]]
  BY <1>2, ModN DEF Held, At, N
<1>4. \A i \in 1 .. Count' : q'[At(tail', i)] \in Anything
  BY <1>1, <1>2, AtIs, ModN
<1>5. Held' \in [1 .. Count' -> Anything]
  BY <1>3, <1>4
<1>6. Held' \in Seq(Anything)
  BY <1>3, <1>5, SeqDef
<1> QED
  BY <1>2, <1>3, <1>5, <1>6, LenProperties

\* A post that is accepted goes to the end of the queue, which is then not full.
LEMMA PostAppends ==
  ASSUME BusTypeOK, NEW e \in Anything, ~Full, BusTypeOK',
         q' = [q EXCEPT ![head] = e], head' = Inc(head), tail' = tail
  PROVE  Held' = Append(Held, e) /\ Len(Held) < N - 1
<1>1. head \in Slots /\ tail \in Slots /\ q \in [Slots -> Anything] /\ N \in Nat /\ N >= 2
  BY ModN DEF BusTypeOK, Anything
<1>2. head \in 0 .. N - 1 /\ tail \in 0 .. N - 1
  BY <1>1 DEF Slots, N
<1>3. head' = (IF head + 1 = N THEN 0 ELSE head + 1) /\ head' # tail /\ head' \in Slots
  BY <1>1, IncIs DEF Full
<1>4. Count = (IF head >= tail THEN head - tail ELSE head - tail + N) /\ Count \in 0 .. N - 1
  BY <1>1, HeldIs, BetweenIs
<1>5. Count' = (IF head' >= tail THEN head' - tail ELSE head' - tail + N)
  BY <1>1, <1>3, HeldIsNext, BetweenIs
<1>6. Count' = Count + 1 /\ Count < N - 1
  BY <1>1, <1>2, <1>3, <1>4, <1>5
<1>7. ASSUME NEW i \in 1 .. Count PROVE At(tail, i) # head /\ At(tail, i) \in Slots
  <2>1. i \in 1 .. N
    BY <1>1, <1>4
  <2>2. At(tail, i) = (IF tail + i <= N THEN tail + i - 1 ELSE tail + i - 1 - N) /\ At(tail, i) \in Slots
    BY <1>1, <2>1, AtIs
  <2> QED
    BY <1>1, <1>2, <1>4, <2>1, <2>2
<1>8. At(tail, Count + 1) = head
  <2>1. Count + 1 \in 1 .. N
    BY <1>1, <1>4
  <2>2. At(tail, Count + 1) = (IF tail + (Count + 1) <= N THEN tail + (Count + 1) - 1
                                                         ELSE tail + (Count + 1) - 1 - N)
    BY <1>1, <2>1, AtIs
  <2> QED
    BY <1>1, <1>2, <1>4, <2>2
<1>9. /\ Held \in Seq(Anything) /\ Len(Held) = Count
      /\ \A i \in 1 .. Count : Held[i] = q[At(tail, i)]
      /\ Held' \in Seq(Anything) /\ Len(Held') = Count + 1
      /\ \A i \in 1 .. Count + 1 : Held'[i] = q'[At(tail, i)]
  BY <1>6, HeldIs, HeldIsNext
<1> DEFINE a == Append(Held, e)
<1>10. a \in Seq(Anything) /\ Len(a) = Count + 1 /\ a[Count + 1] = e
         /\ \A i \in 1 .. Count : a[i] = Held[i]
  <2> HIDE DEF Anything
  <2> QED
    BY <1>9, <1>4, AppendProperties
<1>11. ASSUME NEW i \in 1 .. Count + 1 PROVE Held'[i] = a[i]
  <2>1. CASE i = Count + 1
    BY <1>1, <1>8, <1>9, <1>10, <2>1
  <2>2. CASE i # Count + 1
    <3>1. i \in 1 .. Count
      BY <1>4, <2>2
    <3>2. q'[At(tail, i)] = q[At(tail, i)]
      BY <1>1, <1>7, <3>1
    <3> QED
      BY <1>9, <1>10, <3>1, <3>2
  <2> QED
    BY <2>1, <2>2
<1>12. Held' = a
  <2> HIDE DEF a, Anything
  <2> QED
    BY <1>9, <1>10, <1>11, SeqEqual
<1> QED
  BY <1>6, <1>9, <1>12

\* A poll takes the oldest event.
LEMMA PollTakes ==
  ASSUME BusTypeOK, head # tail, BusTypeOK', q' = q, head' = head, tail' = Inc(tail)
  PROVE  Held # <<>> /\ Head(Held) = q[tail] /\ Held' = Tail(Held)
<1>1. head \in Slots /\ tail \in Slots /\ q \in [Slots -> Anything] /\ N \in Nat /\ N >= 2
  BY ModN DEF BusTypeOK, Anything
<1>2. head \in 0 .. N - 1 /\ tail \in 0 .. N - 1
  BY <1>1 DEF Slots, N
<1>3. tail' = (IF tail + 1 = N THEN 0 ELSE tail + 1) /\ tail' \in Slots
  BY <1>1, IncIs
<1>4. Count = (IF head >= tail THEN head - tail ELSE head - tail + N) /\ Count \in 0 .. N - 1
  BY <1>1, HeldIs, BetweenIs
<1>5. Count' = (IF head >= tail' THEN head - tail' ELSE head - tail' + N)
  BY <1>1, <1>3, HeldIsNext, BetweenIs
<1>6. Count > 0 /\ Count' = Count - 1
  BY <1>1, <1>2, <1>3, <1>4, <1>5
<1>7. At(tail, 1) = tail
  BY <1>1, <1>2, AtIs
<1>8. ASSUME NEW i \in 1 .. Count - 1 PROVE At(tail', i) = At(tail, i + 1)
  <2>1. i \in 1 .. N /\ i + 1 \in 1 .. N
    BY <1>1, <1>4
  <2>2. At(tail', i) = IF tail' + i <= N THEN tail' + i - 1 ELSE tail' + i - 1 - N
    BY <1>3, <2>1, AtIs
  <2>3. At(tail, i + 1) = IF tail + (i + 1) <= N THEN tail + (i + 1) - 1 ELSE tail + (i + 1) - 1 - N
    BY <1>1, <2>1, AtIs
  <2> QED
    BY <1>1, <1>2, <1>3, <1>4, <2>1, <2>2, <2>3
<1>9. /\ Held \in Seq(Anything) /\ Len(Held) = Count
      /\ \A i \in 1 .. Count : Held[i] = q[At(tail, i)]
      /\ Held' \in Seq(Anything) /\ Len(Held') = Count - 1
      /\ \A i \in 1 .. Count - 1 : Held'[i] = q[At(tail', i)]
  BY <1>6, HeldIs, HeldIsNext
<1>10. Held # <<>> /\ Head(Held) = Held[1] /\ Held[1] = q[tail]
  BY <1>4, <1>6, <1>7, <1>9, EmptySeq
<1>11. Tail(Held) \in Seq(Anything) /\ Len(Tail(Held)) = Count - 1
         /\ \A i \in 1 .. Count - 1 : Tail(Held)[i] = Held[i + 1]
  <2> HIDE DEF Anything
  <2> QED
    BY <1>9, <1>10, HeadTailProperties
<1>12. ASSUME NEW i \in 1 .. Count - 1 PROVE Held'[i] = Tail(Held)[i]
  <2>1. i + 1 \in 1 .. Count
    BY <1>4
  <2> QED
    BY <1>8, <1>9, <1>11, <2>1
<1>13. Held' = Tail(Held)
  <2> HIDE DEF Anything
  <2> QED
    BY <1>9, <1>11, <1>12, SeqEqual
<1> QED
  BY <1>10, <1>13

\* The queue stays as it is while the ring and its indices do.
LEMMA HeldKept == ASSUME UNCHANGED <<q, head, tail>> PROVE Held' = Held /\ Count' = Count
BY DEF Held, Count

-----------------------------------------------------------------------------
(* The steps: each keeps the types, and is a step of the queue or none. *)

LEMMA HeldEvents ==
  ASSUME BusInv, head # tail
  PROVE  q[tail] \in Events
<1>1. head \in Slots /\ tail \in Slots /\ Held \in Seq(Events) /\ N \in Nat /\ N >= 2
  BY ModN DEF BusInv, BusTypeOK
<1>2. Count = (IF head >= tail THEN head - tail ELSE head - tail + N) /\ Count \in 0 .. N - 1
        /\ Len(Held) = Count /\ \A i \in 1 .. Count : Held[i] = q[At(tail, i)]
  BY <1>1, HeldIs, BetweenIs DEF BusInv
<1>3. 1 \in 1 .. Count
  BY <1>1, <1>2 DEF Slots, N
<1>4. At(tail, 1) = tail
  BY <1>1, AtIs DEF Slots, N
<1> QED
  BY <1>1, <1>2, <1>3, <1>4, ElementOfSeq

LEMMA BusInitOK == BusInit => BusInv /\ Fifo!FifoInit(NoEvent)
<1> SUFFICES ASSUME BusInit PROVE BusInv /\ Fifo!FifoInit(NoEvent)
  OBVIOUS
<1>1. 0 \in Slots /\ N \in Nat /\ N >= 2
  BY ModN DEF Slots, N
<1>2. BusTypeOK
  BY <1>1, BusFilterAssumption DEF BusInit, BusTypeOK
<1>3. Count = 0
  BY <1>1, <1>2, HeldIs, BetweenIs DEF BusInit
<1>4. Held = <<>>
  BY <1>2, <1>3, HeldIs, EmptySeq
<1> QED
  BY <1>2, <1>4 DEF BusInit, BusInv, Fifo!FifoInit

LEMMA PostOK ==
  ASSUME BusInv, NEW e \in Events, Post(e)
  PROVE  BusInv' /\ [Fifo!FifoNext]_<<Held, ev, handed, epoch>>
<1>1. BusTypeOK /\ Held \in Seq(Events) /\ e \in Anything /\ head \in Slots
  BY DEF BusInv, BusTypeOK, Anything
<1>2. BusTypeOK'
  BY <1>1, IncIs, BusFilterAssumption DEF Post, BusTypeOK, filterVars
<1>3. CASE Full
  <2>1. UNCHANGED <<q, head, tail, ev, handed, epoch>>
    BY <1>3 DEF Post
  <2> QED
    BY <1>1, <1>2, <2>1, HeldKept DEF BusInv
<1>4. CASE ~Full
  <2>1. q' = [q EXCEPT ![head] = e] /\ head' = Inc(head) /\ tail' = tail
          /\ UNCHANGED <<ev, handed, epoch>>
    BY <1>4 DEF Post
  <2>2. Held' = Append(Held, e) /\ Len(Held) < N - 1
    BY <1>1, <1>2, <1>4, <2>1, PostAppends
  <2>3. Held' \in Seq(Events)
    <3> HIDE DEF Events
    <3> QED
      BY <1>1, <2>2, AppendProperties
  <2>4. Fifo!Put(e)
    BY <2>1, <2>2 DEF Fifo!Put, N
  <2> QED
    BY <1>2, <2>3, <2>4 DEF BusInv, Fifo!FifoNext
<1> QED
  BY <1>3, <1>4

LEMMA ClearOK ==
  ASSUME BusInv, Clear
  PROVE  BusInv' /\ [Fifo!FifoNext]_<<Held, ev, handed, epoch>>
<1>1. 0 \in Slots /\ N \in Nat /\ N >= 2
  BY ModN DEF Slots, N
<1>2. BusTypeOK'
  BY <1>1 DEF BusInv, BusTypeOK, Clear, filterVars
<1>3. Count' = 0
  BY <1>1, <1>2, HeldIsNext, BetweenIs DEF Clear
<1>4. Held' = <<>>
  BY <1>2, <1>3, HeldIsNext, EmptySeq
<1>5. Fifo!Drop
  BY <1>4 DEF Clear, Fifo!Drop
<1> QED
  BY <1>2, <1>4, <1>5 DEF BusInv, Fifo!FifoNext

LEMMA ProcessNextOK ==
  ASSUME BusInv, ProcessNext
  PROVE  BusInv' /\ [Fifo!FifoNext]_<<Held, ev, handed, epoch>>
<1>1. BusTypeOK /\ Held \in Seq(Events) /\ head # tail /\ tail \in Slots /\ handed \in Seq(Events)
  BY DEF BusInv, BusTypeOK, ProcessNext
<1>2. q[tail] \in Events
  BY <1>1, HeldEvents
<1>3. /\ q' = q /\ head' = head /\ tail' = Inc(tail) /\ ev' = q[tail] /\ epoch' = epoch
      /\ handed' \in {handed, Append(handed, q[tail])}
  BY DEF ProcessNext
<1>4. handed' \in Seq(Events)
  <2> HIDE DEF Events
  <2> QED
    BY <1>1, <1>2, <1>3, AppendProperties
<1>5. BusTypeOK'
  <2>1. tail' \in Slots /\ ev' \in Events
    BY <1>1, <1>2, <1>3, IncIs
  <2> HIDE DEF Events
  <2> QED
    BY <1>1, <1>3, <1>4, <2>1 DEF BusTypeOK, ProcessNext, filterVars
<1>6. Held # <<>> /\ Head(Held) = q[tail] /\ Held' = Tail(Held)
  BY <1>1, <1>3, <1>5, PollTakes
<1>7. Held' \in Seq(Events)
  <2> HIDE DEF Events
  <2> QED
    BY <1>1, <1>6, HeadTailProperties
<1>8. Fifo!Take
  BY <1>3, <1>6 DEF Fifo!Take
<1> QED
  BY <1>5, <1>7, <1>8 DEF BusInv, Fifo!FifoNext

\* What leaves the ring alone is no step of the queue.
LEMMA StutterOK ==
  ASSUME BusInv, BeginProcess \/ EndProcess \/ SetFilter \/ UNCHANGED busVars
  PROVE  BusInv' /\ [Fifo!FifoNext]_<<Held, ev, handed, epoch>>
<1>1. UNCHANGED <<q, head, tail, ev, handed, epoch>>
  BY DEF BeginProcess, EndProcess, SetFilter, busVars, ringVars
<1>2. BusTypeOK'
  <2>1. UNCHANGED posts
    BY DEF BeginProcess, EndProcess, SetFilter, busVars
  <2>2. hasCb' \in BOOLEAN /\ minSev' \in Severities /\ ctrlMask' \in SUBSET CtrlIds
          /\ draining' \in BOOLEAN
    BY DEF BusInv, BusTypeOK, BeginProcess, EndProcess, SetFilter, busVars, filterVars
  <2> QED
    BY <1>1, <2>1, <2>2 DEF BusInv, BusTypeOK
<1> QED
  BY <1>1, <1>2, HeldKept DEF BusInv

-----------------------------------------------------------------------------
(* The theorems. *)

LEMMA StepOK ==
  ASSUME BusInv, [BusNext]_busVars
  PROVE  BusInv' /\ [Fifo!FifoNext]_<<Held, ev, handed, epoch>>
BY PostOK, ClearOK, ProcessNextOK, StutterOK DEF BusNext

\* The slots between the indices hold events that were posted, whatever the order of posts,
\* clears, drains and changes of the filters.
THEOREM BusInvariant == BusSpec => []BusInv
<1>1. BusInv /\ [BusNext]_busVars => BusInv'
  BY StepOK
<1> QED
  BY BusInitOK, <1>1, PTL DEF BusSpec

\* The ring is a queue of one event less than it has slots (errorbus_post, errorbus_poll,
\* errorbus_clear and the loop of error_process_all), for every size of the ring.
THEOREM BusImplementsFifo == BusSpec => RefinesFifo
<1>1. BusInv /\ [BusNext]_busVars => BusInv' /\ [Fifo!FifoNext]_<<Held, ev, handed, epoch>>
  BY StepOK
<1> QED
  BY BusInitOK, <1>1, PTL DEF BusSpec, RefinesFifo

-----------------------------------------------------------------------------
(***************************************************************************)
(* Proofs about WorkTime, for every length of a second, of the interval    *)
(* between two writes and of the wrap of millis(), as long as an interval  *)
(* and a pass of the main loop fit into the wrap.                          *)
(*                                                                         *)
(* The invariant counts in ticks what total() counts in seconds: the base  *)
(* and the session together, "Counted", are never ahead of the time worked *)
(* and, while NVS works, behind it by no more than the writes and the      *)
(* restarts explain.                                                       *)
(***************************************************************************)
Session == Since(now, sessionStart)
Counted == Second * baseSec + Session

Lost == Second * writes + boots * (PERSIST_INTERVAL + MaxPass)

Regular ==
  /\ baseSec = flash /\ sessionStart = lastPersist
  /\ Session < PERSIST_INTERVAL
  /\ worked <= Counted + Lost

WtInv ==
  /\ WtTypeOK
  /\ Counted <= worked
  /\ Second * flash <= worked
  /\ ~nvsFailed => Regular

-----------------------------------------------------------------------------
(* Arithmetic. *)

\* The difference of two readings of millis(), across its wrap.
LEMMA SinceIs ==
  ASSUME NEW t \in 0 .. Wrap - 1, NEW s \in 0 .. Wrap - 1
  PROVE  Since(t, s) = IF t >= s THEN t - s ELSE t + Wrap - s
<1>1. Wrap \in Nat \ {0}
  BY WtAssumption
<1>2. \A x \in Nat : x < Wrap => x % Wrap = x /\ (x + Wrap) % Wrap = x
  BY <1>1
<1>3. CASE t >= s
  <2>1. t - s \in Nat /\ t - s < Wrap /\ t + Wrap - s = (t - s) + Wrap
    BY <1>1, <1>3
  <2> QED
    BY <1>2, <1>3, <2>1 DEF Since
<1>4. CASE ~(t >= s)
  <2>1. t + Wrap - s \in Nat /\ t + Wrap - s < Wrap
    BY <1>1, <1>4
  <2> QED
    BY <1>2, <1>4, <2>1 DEF Since
<1> QED
  BY <1>3, <1>4

\* A reading d ticks later, across the wrap.
LEMMA LaterIs ==
  ASSUME NEW t \in 0 .. Wrap - 1, NEW d \in 0 .. Wrap
  PROVE  (t + d) % Wrap = IF t + d < Wrap THEN t + d ELSE t + d - Wrap
<1>1. Wrap \in Nat \ {0}
  BY WtAssumption
<1>2. \A x \in Nat : x < Wrap => x % Wrap = x /\ (x + Wrap) % Wrap = x
  BY <1>1
<1>3. CASE t + d < Wrap
  BY <1>1, <1>2, <1>3
<1>4. CASE ~(t + d < Wrap)
  <2>1. t + d - Wrap \in Nat /\ t + d - Wrap < Wrap /\ t + d = (t + d - Wrap) + Wrap
    BY <1>1, <1>4
  <2> QED
    BY <1>2, <1>4, <2>1
<1> QED
  BY <1>3, <1>4

\* The whole seconds of a session.
LEMMA Seconds ==
  ASSUME NEW x \in Nat
  PROVE  /\ x \div Second \in Nat
         /\ Second * (x \div Second) <= x
         /\ x < Second * (x \div Second) + Second
<1>1. Second \in Nat /\ Second > 0
  BY WtAssumption
<1> QED
  BY <1>1

LEMMA Spread ==
  ASSUME NEW x \in Nat, NEW y \in Nat
  PROVE  /\ Second * (x + y) = Second * x + Second * y
         /\ Second * x \in Nat
BY WtAssumption

-----------------------------------------------------------------------------
(* The steps. *)

LEMMA WtInitOK == WtInit => WtInv
<1>1. Wrap \in Nat \ {0} /\ Second * 0 = 0 /\ Since(0, 0) = 0
  BY WtAssumption, SinceIs
<1>2. 0 \in 0 .. Wrap - 1 /\ 0 \in 0 .. MaxRestarts
  BY <1>1, WtAssumption
<1> SUFFICES ASSUME WtInit PROVE WtInv
  OBVIOUS
<1>3. WtTypeOK
  BY <1>2 DEF WtInit, WtTypeOK
<1>4. 0 * (PERSIST_INTERVAL + MaxPass) = 0 /\ 0 < PERSIST_INTERVAL
  BY WtAssumption
<1>5. Session = 0 /\ Counted = 0 /\ Lost = 0
  BY <1>1, <1>4 DEF WtInit, Session, Counted, Lost
<1> QED
  BY <1>1, <1>3, <1>4, <1>5 DEF WtInit, WtInv, Regular

\* The total takes whole seconds of the session, and drops less than one.
LEMMA FoldedOK ==
  ASSUME NEW t \in 0 .. Wrap - 1, NEW w \in Nat, baseSec \in Nat, sessionStart \in 0 .. Wrap - 1,
         Second * baseSec + Since(t, sessionStart) <= w
  PROVE  /\ Total(t) \in Nat
         /\ Second * Total(t) <= w
         /\ Second * baseSec + Since(t, sessionStart) <= Second * Total(t) + Second
<1>1. Since(t, sessionStart) \in Nat
  BY SinceIs, WtAssumption
<1> DEFINE x == Since(t, sessionStart)
<1> DEFINE y == x \div Second
<1>2. y \in Nat /\ Second * y <= x /\ x < Second * y + Second
  BY <1>1, Seconds
<1>3. Total(t) = baseSec + y
  BY DEF Total
<1>4. Second * (baseSec + y) = Second * baseSec + Second * y
        /\ Second * baseSec \in Nat /\ Second * y \in Nat
  BY <1>2, Spread
<1> HIDE DEF x, y
<1>5. x \in Nat /\ Second * baseSec + x <= w /\ Second \in Nat
  BY <1>1, WtAssumption DEF x
<1>6. Second * Total(t) <= w /\ Second * baseSec + x <= Second * Total(t) + Second
  BY <1>2, <1>3, <1>4, <1>5
<1> QED
  BY <1>2, <1>3, <1>6 DEF x

\* A write makes that total the base of a new session, in flash and in RAM.
LEMMA PersistedOK ==
  ASSUME NEW t \in 0 .. Wrap - 1, NEW w \in Nat, baseSec \in Nat, sessionStart \in 0 .. Wrap - 1,
         Second * baseSec + Since(t, sessionStart) <= w, Persisted(t)
  PROVE  /\ flash' \in Nat /\ baseSec' = flash' /\ sessionStart' = t
         /\ Second * flash' <= w
         /\ Second * baseSec + Since(t, sessionStart) <= Second * flash' + Second
BY FoldedOK DEF Persisted

\* Time passes: the session grows by it, unless a session that could not be written wraps.
LEMMA SessionGrows ==
  ASSUME WtTypeOK, NEW d \in 1 .. MaxPass
  PROVE  LET t == (now + d) % Wrap
         IN /\ t \in 0 .. Wrap - 1
            /\ Since(t, sessionStart) \in Nat
            /\ Since(t, sessionStart) <= Session + d
            /\ Session < PERSIST_INTERVAL => Since(t, sessionStart) = Session + d
<1>1. now \in 0 .. Wrap - 1 /\ sessionStart \in 0 .. Wrap - 1 /\ Wrap \in Nat /\ d \in 0 .. Wrap
        /\ PERSIST_INTERVAL \in Nat /\ PERSIST_INTERVAL + d <= Wrap
  BY WtAssumption DEF WtTypeOK
<1> DEFINE t == (now + d) % Wrap
<1>2. t = IF now + d < Wrap THEN now + d ELSE now + d - Wrap
  BY <1>1, LaterIs
<1> HIDE DEF t
<1>3. t \in 0 .. Wrap - 1
  BY <1>1, <1>2
<1>4. Since(t, sessionStart) = IF t >= sessionStart THEN t - sessionStart ELSE t + Wrap - sessionStart
  BY <1>1, <1>3, SinceIs
<1>5. Session = IF now >= sessionStart THEN now - sessionStart ELSE now + Wrap - sessionStart
  BY <1>1, SinceIs DEF Session
<1>6. /\ Since(t, sessionStart) \in Nat
      /\ Since(t, sessionStart) <= Session + d
      /\ Session < PERSIST_INTERVAL => Since(t, sessionStart) = Session + d
  BY <1>1, <1>2, <1>3, <1>4, <1>5
<1> QED
  BY <1>3, <1>6 DEF t

\* The write of the total at time t, or one that fails, keeps the invariant.
LEMMA PersistOK ==
  ASSUME NEW t \in 0 .. Wrap - 1, NEW w \in Nat, WtTypeOK, Second * flash <= w,
         Second * baseSec + Since(t, sessionStart) <= w,
         ~nvsFailed => w <= Second * baseSec + Since(t, sessionStart) + Lost,
         Persist(t), now' = t, lastPersist' = t, worked' = w, boots' = boots
  PROVE  WtInv'
<1>1. Wrap \in Nat \ {0} /\ Since(t, t) = 0 /\ PERSIST_INTERVAL \in Nat \ {0}
        /\ Second \in Nat /\ MaxPass \in Nat
  BY WtAssumption, SinceIs
<1>2. Since(t, sessionStart) \in Nat /\ baseSec \in Nat /\ sessionStart \in 0 .. Wrap - 1
        /\ writes \in Nat /\ boots \in Nat /\ flash \in Nat
  BY SinceIs, WtAssumption DEF WtTypeOK
<1>3. CASE Persisted(t) /\ writes' = writes + 1 /\ nvsFailed' = nvsFailed
  <2>1. /\ flash' \in Nat /\ baseSec' = flash' /\ sessionStart' = t
        /\ Second * flash' <= w
        /\ Second * baseSec + Since(t, sessionStart) <= Second * flash' + Second
    BY <1>2, <1>3, PersistedOK
  <2>2. WtTypeOK'
    BY <1>3, <2>1 DEF WtTypeOK
  <2>3. Session' = 0 /\ Counted' = Second * flash'
    BY <1>1, <2>1, Spread DEF Session, Counted
  <2>4. Second * (writes + 1) = Second * writes + Second
          /\ Second * writes \in Nat /\ Second * baseSec \in Nat /\ Second * flash' \in Nat
    <3>1. Second * (writes + 1) = Second * writes + Second * 1 /\ Second * 1 = Second
      BY <1>1, <1>2, Spread
    <3> QED
      BY <1>2, <2>1, <3>1, Spread
  <2>5. boots * (PERSIST_INTERVAL + MaxPass) \in Nat
    BY <1>1, <1>2
  <2>6. Lost' = Lost + Second
    BY <1>1, <1>3, <2>4, <2>5 DEF Lost
  <2>7. Lost \in Nat
    BY <2>4, <2>5 DEF Lost
  <2>8. ~nvsFailed => w <= Counted' + Lost'
    <3> DEFINE a == Second * baseSec
    <3> DEFINE f == Second * flash'
    <3> DEFINE s == Since(t, sessionStart)
    <3>1. a \in Nat /\ f \in Nat /\ s \in Nat /\ a + s <= f + Second
            /\ (~nvsFailed => w <= a + s + Lost) /\ Counted' = f /\ Lost' = Lost + Second
      BY <1>2, <2>1, <2>3, <2>4, <2>6
    <3> HIDE DEF a, f, s
    <3> QED
      BY <1>1, <2>7, <3>1
  <2> QED
    <3>1. Counted' <= worked' /\ Second * flash' <= worked'
      BY <2>1, <2>3
    <3>2. Session' < PERSIST_INTERVAL
      BY <1>1, <2>3
    <3>3. ~nvsFailed' => worked' <= Counted' + Lost'
      BY <1>3, <2>8
    <3>4. baseSec' = flash' /\ sessionStart' = lastPersist'
      BY <2>1
    <3> QED
      BY <2>2, <3>1, <3>2, <3>3, <3>4 DEF WtInv, Regular
<1>4. CASE nvsFailed' = TRUE /\ UNCHANGED <<flash, baseSec, sessionStart, writes>>
  <2>1. WtTypeOK'
    BY <1>4 DEF WtTypeOK
  <2>2. Counted' = Second * baseSec + Since(t, sessionStart)
    BY <1>4 DEF Counted, Session
  <2> QED
    BY <1>4, <2>1, <2>2 DEF WtInv
<1>5. CASE nvsFailed' = TRUE /\ Unsaved(t) /\ writes' = writes
  <2>1. /\ baseSec' \in Nat /\ sessionStart' = t /\ flash' = flash
        /\ Second * baseSec' <= w
    BY <1>2, <1>5, FoldedOK DEF Unsaved
  <2>2. WtTypeOK'
    BY <1>5, <2>1 DEF WtTypeOK
  <2>3. Session' = 0 /\ Counted' = Second * baseSec'
    BY <1>1, <2>1, Spread DEF Session, Counted
  <2> QED
    BY <1>5, <2>1, <2>2, <2>3 DEF WtInv
<1> QED
  BY <1>3, <1>4, <1>5 DEF Persist

LEMMA PassOK ==
  ASSUME WtInv, NEW d \in 1 .. MaxPass, Pass(d)
  PROVE  WtInv'
<1> DEFINE t == (now + d) % Wrap
<1>1. /\ t \in 0 .. Wrap - 1
      /\ Since(t, sessionStart) \in Nat
      /\ Since(t, sessionStart) <= Session + d
      /\ Session < PERSIST_INTERVAL => Since(t, sessionStart) = Session + d
  BY SessionGrows DEF WtInv
<1>2. /\ worked' = worked + d /\ now' = t /\ boots' = boots
      /\ IF Since(t, lastPersist) < PERSIST_INTERVAL
           THEN UNCHANGED <<flash, baseSec, sessionStart, lastPersist, writes, nvsFailed>>
           ELSE Persist(t) /\ lastPersist' = t
  BY DEF Pass
<1> HIDE DEF t
<1>3. d \in Nat /\ worked \in Nat /\ baseSec \in Nat /\ flash \in Nat /\ writes \in Nat /\ boots \in Nat
        /\ Session \in Nat /\ Second \in Nat /\ PERSIST_INTERVAL \in Nat /\ MaxPass \in Nat
  BY WtAssumption, SinceIs DEF WtInv, WtTypeOK, Session
<1>4. Second * baseSec \in Nat /\ Second * flash \in Nat /\ Lost \in Nat
  <2>1. Second * writes \in Nat
    BY <1>3, Spread
  <2>2. boots * (PERSIST_INTERVAL + MaxPass) \in Nat
    BY <1>3
  <2> QED
    BY <1>3, <2>1, <2>2, Spread DEF Lost
<1>5. /\ Second * baseSec + Session <= worked
      /\ Second * flash <= worked
      /\ ~nvsFailed => /\ sessionStart = lastPersist /\ baseSec = flash
                       /\ Session < PERSIST_INTERVAL
                       /\ worked <= Second * baseSec + Session + Lost
  BY DEF WtInv, Regular, Counted
<1>6. /\ Second * baseSec + Since(t, sessionStart) <= worked + d
      /\ Second * flash <= worked + d
      /\ ~nvsFailed => worked + d <= Second * baseSec + Since(t, sessionStart) + Lost
  BY <1>1, <1>3, <1>4, <1>5
<1>7. CASE Since(t, lastPersist) < PERSIST_INTERVAL
  <2>1. UNCHANGED <<flash, baseSec, sessionStart, lastPersist, writes, nvsFailed>>
    BY <1>2, <1>7
  <2>2. WtTypeOK'
    BY <1>1, <1>2, <1>3, <2>1 DEF WtInv, WtTypeOK
  <2>3. Session' = Since(t, sessionStart) /\ Counted' = Second * baseSec + Since(t, sessionStart)
          /\ Lost' = Lost
    BY <1>2, <2>1 DEF Session, Counted, Lost
  <2> QED
    BY <1>2, <1>5, <1>6, <1>7, <2>1, <2>2, <2>3 DEF WtInv, Regular
<1>8. CASE ~(Since(t, lastPersist) < PERSIST_INTERVAL)
  BY <1>1, <1>2, <1>3, <1>6, <1>8, PersistOK DEF WtInv
<1> QED
  BY <1>7, <1>8

LEMMA FlushOK ==
  ASSUME WtInv, Flush
  PROVE  WtInv'
<1>1. now \in 0 .. Wrap - 1 /\ worked \in Nat /\ Since(now, sessionStart) = Session
  BY DEF WtInv, WtTypeOK, Session
<1> QED
  BY <1>1, PersistOK DEF WtInv, Regular, Counted, Flush

LEMMA RestartOK ==
  ASSUME WtInv, Restart
  PROVE  WtInv'
<1>1. Wrap \in Nat \ {0} /\ Since(0, 0) = 0 /\ PERSIST_INTERVAL \in Nat \ {0}
        /\ Second \in Nat /\ MaxPass \in Nat
  BY WtAssumption, SinceIs
<1>2. worked \in Nat /\ flash \in Nat /\ baseSec \in Nat /\ writes \in Nat /\ boots \in Nat
        /\ Session \in Nat
  BY WtAssumption, SinceIs DEF WtInv, WtTypeOK, Session
<1>3. WtTypeOK'
  <2>1. 0 \in 0 .. Wrap - 1 /\ 0 \in Nat
    BY <1>1
  <2>2. boots' \in 0 .. MaxRestarts
    BY <1>2, WtAssumption DEF Restart
  <2> QED
    BY <2>1, <2>2 DEF WtInv, WtTypeOK, Restart
<1>4. Session' = 0
  BY <1>1 DEF Restart, Session
<1>5. Second * 0 = 0 /\ Second * flash \in Nat /\ Second * writes \in Nat
  BY <1>1, <1>2, Spread
<1>6. Counted' <= worked' /\ Second * flash' <= worked'
  BY <1>2, <1>4, <1>5 DEF Restart, Counted, WtInv
<1>7. ASSUME ~nvsFailed' PROVE Regular'
  <2>1. ~nvsFailed /\ baseSec' = flash
    BY <1>7 DEF Restart
  <2>2. Regular
    BY <2>1 DEF WtInv
  <2> DEFINE b == PERSIST_INTERVAL + MaxPass
  <2>3. (boots + 1) * b = boots * b + b /\ boots * b \in Nat
    BY <1>1, <1>2
  <2>4. Lost' = Second * writes + (boots * b + b)
    BY <2>3 DEF Restart, Lost
  <2>5. Lost = Second * writes + boots * b
    BY DEF Lost
  <2> QED
    BY <1>1, <1>2, <1>4, <1>5, <2>1, <2>2, <2>3, <2>4, <2>5 DEF Regular, Counted, Restart
<1> QED
  BY <1>3, <1>6, <1>7 DEF WtInv

-----------------------------------------------------------------------------
(* The theorems. *)

\* The invariant holds across passes of the main loop, flushes, failed writes, restarts and wraps.
THEOREM WtInvariant == WtSpec => []WtInv
<1>1. ASSUME WtInv, [WtNext]_wtVars PROVE WtInv'
  <2>1. CASE UNCHANGED wtVars
    BY <1>1, <2>1 DEF wtVars, trackerVars, WtInv, WtTypeOK, Counted, Session, Regular, Lost
  <2> QED
    BY <1>1, <2>1, PassOK, FlushOK, RestartOK DEF WtNext
<1> QED
  BY WtInitOK, <1>1, PTL DEF WtSpec

\* total() tracks the time the device has worked from both sides: it never counts a second twice,
\* whatever fails, and while NVS works falls behind by less than a second for every write and an
\* interval and a pass for every restart.
THEOREM TotalTracksWork == WtSpec => []TracksWork
<1>1. ASSUME WtInv PROVE TracksWork
  <2>1. worked \in Nat /\ baseSec \in Nat /\ Session \in Nat /\ writes \in Nat /\ boots \in Nat
          /\ Second \in Nat /\ PERSIST_INTERVAL \in Nat /\ MaxPass \in Nat
    BY <1>1, WtAssumption, SinceIs DEF WtInv, WtTypeOK, Session
  <2> DEFINE y == Session \div Second
  <2>2. y \in Nat /\ Second * y <= Session /\ Session < Second * y + Second
    BY <2>1, Seconds
  <2>3. Total(now) = baseSec + y
    BY DEF Total, Session
  <2> HIDE DEF y
  <2>4. Second * Total(now) = Second * baseSec + Second * y
          /\ Second * baseSec \in Nat /\ Second * y \in Nat
    BY <2>1, <2>2, <2>3, Spread
  <2>5. Second * (writes + 1) = Second * writes + Second * 1 /\ Second * 1 = Second
          /\ Second * writes \in Nat
    BY <2>1, Spread
  <2>6. boots * (PERSIST_INTERVAL + MaxPass) \in Nat
    BY <2>1
  <2>7. NeverAhead
    BY <1>1, <2>1, <2>2, <2>4 DEF NeverAhead, WtInv, Counted
  <2>8. ASSUME ~nvsFailed
        PROVE  worked < Second * Total(now) + Second * (writes + 1)
                          + boots * (PERSIST_INTERVAL + MaxPass)
    <3>1. worked <= Second * baseSec + Session
                      + (Second * writes + boots * (PERSIST_INTERVAL + MaxPass))
      BY <1>1, <2>8 DEF WtInv, Regular, Counted, Lost
    <3> QED
      BY <2>1, <2>2, <2>4, <2>5, <2>6, <3>1
  <2> QED
    BY <2>7, <2>8 DEF TracksWork, KeepsUp
<1> QED
  BY <1>1, WtInvariant, PTL

-----------------------------------------------------------------------------
(***************************************************************************)
(* Proofs about ConfigTransfer, for every length of a document, size of    *)
(* the buffer and number of documents smaller than the number of transfer  *)
(* ids.                                                                    *)
(*                                                                         *)
(* The invariant: until the sender restarts, an id names one document, a   *)
(* chunk on the wire is a unit of the document its id names, and the       *)
(* buffer of a transfer holds the beginning of its document.  None of this *)
(* depends on the order of the chunks or on which of them arrive.          *)
(***************************************************************************)
Docs == 1 .. Len(lengths)

ChunkSet == [id : 0 .. IdSpace - 1, total : 0 .. MaxLength, index : 0 .. MaxLength - 1,
             unit : Units, last : BOOLEAN]

Transfers == [transferId : 0 .. IdSpace - 1, totalSize : 0 .. MaxLength,
              nextChunk : 0 .. MaxLength, active : BOOLEAN]

Genuine(c) ==
  /\ c.id \in Docs /\ c.index < lengths[c.id] /\ c.unit = <<c.id, c.index>>
  /\ c.last <=> c.index + 1 = lengths[c.id]

Beginning(d, n) == [i \in 1 .. n |-> <<d, i - 1>>]

SendingOK == sending # NoDoc => sending.doc \in 1 .. MaxDocs /\ sending.next < sending.length

IdsAreDocs ==
  /\ counter = Len(lengths)
  /\ sending # NoDoc => /\ sending.id = sending.doc /\ sending.doc \in Docs
                        /\ sending.length = lengths[sending.doc]

WireGenuine == \A i \in 1 .. Len(wire) : Genuine(wire[i])

BufferBegins ==
  rx.active => /\ rx.transferId \in Docs /\ rx.nextChunk = Len(buffer)
               /\ buffer = Beginning(rx.transferId, Len(buffer))

PublishedWhole == published # <<>> => \E d \in Docs : published = Document(d)

CfgInv ==
  /\ CfgTypeOK /\ SendingOK
  /\ reboots = 0 => IdsAreDocs /\ WireGenuine /\ BufferBegins /\ PublishedWhole

-----------------------------------------------------------------------------
(* Sequences. *)

\* The beginning of a document and its next unit are a longer beginning.
LEMMA BeginningGrows ==
  ASSUME NEW d \in 1 .. MaxDocs, NEW n \in Nat, n < MaxLength
  PROVE  Append(Beginning(d, n), <<d, n>>) = Beginning(d, n + 1)
<1>1. MaxLength \in Nat
  BY CfgAssumption
<1>2. Beginning(d, n) \in [1 .. n -> Units] /\ Beginning(d, n + 1) \in [1 .. n + 1 -> Units]
  BY <1>1 DEF Beginning, Units
<1>3. Beginning(d, n) \in Seq(Units) /\ Beginning(d, n + 1) \in Seq(Units) /\ <<d, n>> \in Units
  BY <1>1, <1>2, n + 1 \in Nat, SeqDef DEF Units
<1>4. Len(Beginning(d, n)) = n /\ Len(Beginning(d, n + 1)) = n + 1
  BY <1>2, <1>3, LenProperties
<1> DEFINE a == Append(Beginning(d, n), <<d, n>>)
<1>5. /\ a \in Seq(Units) /\ Len(a) = n + 1 /\ a[n + 1] = <<d, n>>
      /\ \A i \in 1 .. n : a[i] = Beginning(d, n)[i]
  <2> HIDE DEF Units, Beginning
  <2> QED
    BY <1>3, <1>4, AppendProperties
<1>6. ASSUME NEW i \in 1 .. n + 1 PROVE a[i] = Beginning(d, n + 1)[i]
  <2>1. CASE i = n + 1
    BY <1>5, <2>1 DEF Beginning
  <2>2. CASE i # n + 1
    <3>1. i \in 1 .. n
      BY <2>2
    <3> QED
      BY <1>5, <3>1 DEF Beginning
  <2> QED
    BY <2>1, <2>2
<1> QED
  <2> HIDE DEF Units, a, Beginning
  <2> QED
    BY <1>3, <1>4, <1>5, <1>6, SeqEqual DEF a

-----------------------------------------------------------------------------
(* The steps. *)

LEMMA CfgInitOK == CfgInit => CfgInv
<1> SUFFICES ASSUME CfgInit PROVE CfgInv
  OBVIOUS
<1>1. 0 \in 0 .. IdSpace - 1 /\ 0 \in 0 .. MaxLength /\ 0 \in 0 .. MaxDocs /\ 0 \in Nat
  BY CfgAssumption
<1>2. /\ <<>> \in Seq(1 .. MaxLength) /\ <<>> \in Seq(ChunkSet) /\ <<>> \in Seq(Units)
      /\ Len(<<>>) = 0
  BY EmptySeq
<1>3. 0 <= MaxDocs /\ 0 <= CONFIG_BUFFER_SIZE
  BY CfgAssumption
<1>4. CfgTypeOK
  BY <1>1, <1>2, <1>3 DEF CfgInit, CfgTypeOK, NoDoc, NoTransfer, ChunkSet
<1> QED
  BY <1>2, <1>4 DEF CfgInit, CfgInv, SendingOK, IdsAreDocs, WireGenuine, BufferBegins,
                    PublishedWhole, NoTransfer

\* A new document leaves the others as they are.
LEMMA DocsGrow ==
  ASSUME lengths \in Seq(1 .. MaxLength), NEW n \in 1 .. MaxLength, lengths' = Append(lengths, n)
  PROVE  /\ lengths' \in Seq(1 .. MaxLength) /\ Len(lengths') = Len(lengths) + 1
         /\ Len(lengths) \in Nat
         /\ \A d \in Docs : d \in Docs' /\ lengths'[d] = lengths[d] /\ Document(d)' = Document(d)
         /\ Len(lengths) + 1 \in Docs' /\ lengths'[Len(lengths) + 1] = n
<1>1. /\ lengths' \in Seq(1 .. MaxLength) /\ Len(lengths') = Len(lengths) + 1
      /\ lengths'[Len(lengths) + 1] = n
      /\ \A d \in 1 .. Len(lengths) : lengths'[d] = lengths[d]
  BY AppendProperties
<1>2. Len(lengths) \in Nat
  BY LenProperties
<1> QED
  BY <1>1, <1>2 DEF Docs, Document

LEMMA StartSendOK ==
  ASSUME CfgInv, NEW n \in 1 .. MaxLength, StartSend(n)
  PROVE  CfgInv'
<1> DEFINE id == (counter + 1) % IdSpace
<1> DEFINE d == Len(lengths) + 1
<1>1. /\ sending = NoDoc /\ Len(lengths) < MaxDocs
      /\ counter' = id /\ lengths' = Append(lengths, n)
      /\ sending' = [doc |-> d, length |-> n, id |-> id, next |-> 0]
      /\ UNCHANGED <<wire, rx, buffer, published, reboots>>
  BY DEF StartSend
<1>2. CfgTypeOK
  BY DEF CfgInv
<1>3. /\ lengths' \in Seq(1 .. MaxLength) /\ Len(lengths') = d /\ Len(lengths) \in Nat
      /\ \A e \in Docs : e \in Docs' /\ lengths'[e] = lengths[e] /\ Document(e)' = Document(e)
      /\ d \in Docs' /\ lengths'[d] = n
  BY <1>1, <1>2, DocsGrow DEF CfgTypeOK
<1>4. IdSpace \in Nat /\ IdSpace > 0 /\ MaxDocs \in Nat /\ MaxDocs < IdSpace /\ counter \in Nat
        /\ MaxLength \in Nat
  BY <1>2, CfgAssumption DEF CfgTypeOK
<1>5. id \in 0 .. IdSpace - 1 /\ (counter + 1 < IdSpace => id = counter + 1)
  BY <1>4
<1> HIDE DEF id
<1>6. d \in 1 .. MaxDocs
  BY <1>1, <1>3, <1>4
<1> HIDE DEF d
<1>7. sending'.doc = d /\ sending'.length = n /\ sending'.id = id /\ sending'.next = 0
  BY <1>1
<1>8. CfgTypeOK'
  <2>1. sending' \in [doc : 0 .. MaxDocs, length : 0 .. MaxLength, id : 0 .. IdSpace - 1,
                      next : 0 .. MaxLength]
    BY <1>1, <1>4, <1>5, <1>6
  <2> QED
    BY <1>1, <1>2, <1>3, <1>5, <1>6, <2>1 DEF CfgTypeOK
<1>9. SendingOK'
  BY <1>6, <1>7 DEF SendingOK
<1>10. ASSUME reboots' = 0 PROVE IdsAreDocs' /\ WireGenuine' /\ BufferBegins' /\ PublishedWhole'
  <2>1. IdsAreDocs /\ WireGenuine /\ BufferBegins /\ PublishedWhole
    BY <1>1, <1>10 DEF CfgInv
  <2>2. counter + 1 = d /\ id = d
    BY <1>3, <1>4, <1>5, <1>6, <2>1 DEF IdsAreDocs, d
  <2>3. IdsAreDocs'
    BY <1>1, <1>3, <1>7, <2>2 DEF IdsAreDocs
  <2>4. WireGenuine'
    BY <1>1, <1>3, <2>1 DEF WireGenuine, Genuine
  <2>5. BufferBegins'
    BY <1>1, <1>3, <2>1 DEF BufferBegins
  <2>6. PublishedWhole'
    BY <1>1, <1>3, <2>1 DEF PublishedWhole
  <2> QED
    BY <2>3, <2>4, <2>5, <2>6
<1> QED
  BY <1>8, <1>9, <1>10 DEF CfgInv

\* The chunk is a unit of the document in send.
LEMMA ChunkOK ==
  ASSUME CfgTypeOK, SendingOK, sending # NoDoc
  PROVE  Chunk \in ChunkSet /\ (IdsAreDocs => Genuine(Chunk))
<1>1. /\ sending \in [doc : 0 .. MaxDocs, length : 0 .. MaxLength, id : 0 .. IdSpace - 1,
                      next : 0 .. MaxLength]
      /\ sending.doc \in 1 .. MaxDocs /\ sending.next < sending.length
  BY DEF CfgTypeOK, SendingOK
<1>2. MaxLength \in Nat
  BY CfgAssumption
<1>3. sending.next \in 0 .. MaxLength - 1 /\ sending.length \in 0 .. MaxLength
        /\ sending.id \in 0 .. IdSpace - 1
  BY <1>1, <1>2
<1>4. <<sending.doc, sending.next>> \in Units
  BY <1>1, <1>3 DEF Units
<1>5. Chunk \in ChunkSet
  BY <1>2, <1>3, <1>4 DEF Chunk, ChunkSet
<1>6. IdsAreDocs => Genuine(Chunk)
  BY <1>1, <1>3 DEF IdsAreDocs, Genuine, Chunk
<1> QED
  BY <1>5, <1>6

LEMMA SendChunkOK ==
  ASSUME CfgInv, SendChunk
  PROVE  CfgInv'
<1>1. CfgTypeOK /\ SendingOK /\ sending # NoDoc
        /\ UNCHANGED <<counter, lengths, rx, buffer, published, reboots>>
  BY DEF CfgInv, SendChunk
<1>2. Chunk \in ChunkSet /\ (IdsAreDocs => Genuine(Chunk))
  BY <1>1, ChunkOK
<1>3. wire \in Seq(ChunkSet)
  BY <1>1 DEF CfgTypeOK, ChunkSet
<1>4. wire' \in {wire, Append(wire, Chunk)}
  BY DEF SendChunk
<1>5. wire' \in Seq(ChunkSet) /\ (IdsAreDocs /\ WireGenuine => WireGenuine')
  <2>1. CASE wire' = wire
    BY <1>1, <1>3, <2>1 DEF WireGenuine, Genuine, Docs
  <2>2. CASE wire' = Append(wire, Chunk)
    <3> DEFINE c == Chunk
    <3>1. /\ wire' \in Seq(ChunkSet) /\ Len(wire') = Len(wire) + 1 /\ Len(wire) \in Nat
          /\ wire'[Len(wire) + 1] = c /\ \A i \in 1 .. Len(wire) : wire'[i] = wire[i]
      <4> HIDE DEF ChunkSet, c
      <4> QED
        BY <1>2, <1>3, <2>2, AppendProperties, LenProperties DEF c
    <3> HIDE DEF c
    <3>2. ASSUME IdsAreDocs, WireGenuine, NEW i \in 1 .. Len(wire') PROVE Genuine(wire'[i])
      <4>1. CASE i = Len(wire) + 1
        BY <1>2, <3>1, <3>2, <4>1 DEF c
      <4>2. CASE i # Len(wire) + 1
        <5>1. i \in 1 .. Len(wire)
          BY <3>1, <4>2
        <5> QED
          BY <3>1, <3>2, <5>1 DEF WireGenuine
      <4> QED
        BY <4>1, <4>2
    <3>3. ASSUME IdsAreDocs, WireGenuine PROVE WireGenuine'
      BY <1>1, <3>2, <3>3 DEF WireGenuine, Genuine, Docs
    <3> QED
      BY <3>1, <3>3
  <2> QED
    BY <1>4, <2>1, <2>2
<1>6. sending' \in {NoDoc, [sending EXCEPT !.next = @ + 1]}
        /\ (sending' # NoDoc => sending.next + 1 # sending.length)
  BY DEF SendChunk, Chunk
<1>7. /\ sending' \in [doc : 0 .. MaxDocs, length : 0 .. MaxLength, id : 0 .. IdSpace - 1,
                       next : 0 .. MaxLength]
      /\ SendingOK' /\ (IdsAreDocs => IdsAreDocs')
  <2>1. CASE sending' = NoDoc
    BY <1>1, <2>1, CfgAssumption DEF NoDoc, SendingOK, IdsAreDocs
  <2>2. CASE sending' # NoDoc
    <3>1. /\ sending \in [doc : 0 .. MaxDocs, length : 0 .. MaxLength, id : 0 .. IdSpace - 1,
                          next : 0 .. MaxLength]
          /\ sending.doc \in 1 .. MaxDocs /\ sending.next < sending.length
          /\ sending' = [sending EXCEPT !.next = @ + 1] /\ sending.next + 1 # sending.length
      BY <1>1, <1>6, <2>2 DEF CfgTypeOK, SendingOK
    <3>2. sending'.next = sending.next + 1 /\ sending'.doc = sending.doc
            /\ sending'.length = sending.length /\ sending'.id = sending.id
      BY <3>1
    <3>3. sending.next + 1 < sending.length /\ sending.next + 1 \in 0 .. MaxLength
      BY <3>1, CfgAssumption
    <3> QED
      BY <1>1, <3>1, <3>2, <3>3 DEF SendingOK, IdsAreDocs, Docs
  <2> QED
    BY <2>1, <2>2
<1>8. CfgTypeOK'
  BY <1>1, <1>5, <1>7 DEF CfgTypeOK, ChunkSet
<1>9. ASSUME reboots' = 0 PROVE IdsAreDocs' /\ WireGenuine' /\ BufferBegins' /\ PublishedWhole'
  BY <1>1, <1>5, <1>7, <1>9 DEF CfgInv, BufferBegins, PublishedWhole, Docs, Document
<1> QED
  BY <1>7, <1>8, <1>9 DEF CfgInv

LEMMA RestartSenderOK ==
  ASSUME CfgInv, RestartSender
  PROVE  CfgInv'
<1>1. CfgTypeOK'
  BY CfgAssumption DEF CfgInv, CfgTypeOK, RestartSender, NoDoc
<1>2. reboots' # 0
  BY DEF CfgInv, CfgTypeOK, RestartSender
<1> QED
  BY <1>1, <1>2 DEF CfgInv, SendingOK, RestartSender

\* A transfer that takes its next unit holds a longer beginning, or the whole document.
LEMMA TakeUnitOK ==
  ASSUME CfgTypeOK, NEW c \in ChunkSet, NEW b \in Seq(Units), Len(b) + 1 <= CONFIG_BUFFER_SIZE,
         NEW r \in Transfers, c.index = r.nextChunk, TakeUnit(r, b, c)
  PROVE  /\ rx' \in Transfers
         /\ buffer' \in Seq(Units) /\ Len(buffer') <= CONFIG_BUFFER_SIZE
         /\ published' \in Seq(Units)
<1>1. CONFIG_BUFFER_SIZE \in Nat /\ MaxLength \in Nat /\ Len(<<>>) = 0 /\ <<>> \in Seq(Units)
        /\ published \in Seq(Units)
  BY CfgAssumption, EmptySeq DEF CfgTypeOK
<1>2. c.unit \in Units /\ c.index \in 0 .. MaxLength - 1
  BY DEF ChunkSet
<1> DEFINE whole == Append(b, c.unit)
<1>3. whole \in Seq(Units) /\ Len(whole) = Len(b) + 1
  <2> HIDE DEF Units
  <2> QED
    BY <1>2, AppendProperties
<1> HIDE DEF whole
<1>4. CASE ~c.last
  <2>1. rx' = [r EXCEPT !.nextChunk = @ + 1] /\ buffer' = whole /\ published' = published
    BY <1>4 DEF TakeUnit, whole
  <2>2. r.nextChunk + 1 \in 0 .. MaxLength
    BY <1>1, <1>2
  <2> QED
    BY <1>1, <1>3, <2>1, <2>2 DEF Transfers
<1>5. CASE c.last
  <2>1. rx' = NoTransfer /\ buffer' = <<>> /\ published' \in {published, whole}
    BY <1>5 DEF TakeUnit, Reset, whole
  <2>2. 0 \in 0 .. IdSpace - 1 /\ 0 \in 0 .. MaxLength
    BY CfgAssumption
  <2> QED
    BY <1>1, <1>3, <2>1, <2>2 DEF NoTransfer, Transfers
<1> QED
  BY <1>4, <1>5

LEMMA TakeUnitWhole ==
  ASSUME CfgTypeOK, NEW c \in ChunkSet, Genuine(c), NEW b \in Seq(Units),
         NEW r \in Transfers, r.active, c.id = r.transferId, c.index = r.nextChunk, r.nextChunk = Len(b),
         b = Beginning(r.transferId, Len(b)), PublishedWhole, TakeUnit(r, b, c), lengths' = lengths
  PROVE  BufferBegins' /\ PublishedWhole'
<1> DEFINE d == r.transferId
<1> DEFINE n == Len(b)
<1> DEFINE whole == Append(b, c.unit)
<1>1. n \in Nat /\ n < MaxLength /\ d \in 1 .. MaxDocs /\ d \in Docs /\ n < lengths[d]
        /\ (c.last <=> n + 1 = lengths[d]) /\ c.unit = <<d, n>>
  <2>1. Len(lengths) <= MaxDocs /\ Len(lengths) \in Nat /\ MaxDocs \in Nat /\ MaxLength \in Nat
    BY CfgAssumption, LenProperties DEF CfgTypeOK
  <2>2. n \in Nat
    BY LenProperties
  <2> QED
    BY <2>1, <2>2 DEF Genuine, Docs, ChunkSet
<1>2. whole = Beginning(d, n + 1)
  <2>1. b = Beginning(d, n)
    OBVIOUS
  <2> HIDE DEF d, n
  <2> QED
    BY <1>1, <2>1, BeginningGrows
<1>3. Len(whole) = n + 1
  <2>1. c.unit \in Units
    BY DEF ChunkSet
  <2> HIDE DEF Units
  <2> QED
    BY <2>1, AppendProperties
<1> HIDE DEF d, n, whole
<1>4. CASE ~c.last
  <2>1. rx' = [r EXCEPT !.nextChunk = @ + 1] /\ buffer' = whole /\ published' = published
    BY <1>4 DEF TakeUnit, whole
  <2>2. rx'.transferId = d /\ rx'.nextChunk = n + 1
    BY <2>1 DEF d, n, Transfers
  <2> QED
    BY <1>1, <1>2, <1>3, <2>1, <2>2 DEF BufferBegins, PublishedWhole, Docs, Document
<1>5. CASE c.last
  <2>1. rx' = NoTransfer /\ buffer' = <<>> /\ published' \in {published, whole}
    BY <1>5 DEF TakeUnit, Reset, whole
  <2>2. BufferBegins'
    BY <2>1 DEF BufferBegins, NoTransfer
  <2>3. whole = Document(d)
    BY <1>1, <1>2, <1>5 DEF Document, Beginning
  <2>4. PublishedWhole'
    BY <1>1, <2>1, <2>3 DEF PublishedWhole, Docs, Document
  <2> QED
    BY <2>2, <2>4
<1> QED
  BY <1>4, <1>5
LEMMA ReceiveChunkOK ==
  ASSUME CfgInv, ReceiveChunk
  PROVE  CfgInv'
<1> DEFINE c == Head(wire)
<1> DEFINE first == c.index = 0
<1> DEFINE r == IF first THEN [transferId |-> c.id, totalSize |-> c.total, nextChunk |-> 0,
                               active |-> TRUE] ELSE rx
<1> DEFINE b == IF first THEN <<>> ELSE buffer
<1>1. /\ wire # <<>> /\ wire' = Tail(wire)
      /\ UNCHANGED <<counter, lengths, sending, reboots>>
      /\ \/ Reset /\ UNCHANGED published
         \/ UNCHANGED <<rx, buffer, published>>
         \/ /\ Belongs(r, c) /\ c.index = r.nextChunk /\ FitsBuffer(b) /\ TakeUnit(r, b, c)
  BY DEF ReceiveChunk
<1>2. CfgTypeOK /\ SendingOK /\ wire \in Seq(ChunkSet) /\ rx \in Transfers /\ buffer \in Seq(Units)
  BY DEF CfgInv, CfgTypeOK, ChunkSet, Transfers
<1>3. c \in ChunkSet /\ wire' \in Seq(ChunkSet) /\ Len(wire) \in Nat /\ Len(wire) > 0
        /\ Len(wire') = Len(wire) - 1 /\ c = wire[1]
        /\ \A i \in 1 .. Len(wire') : wire'[i] = wire[i + 1]
  <2> HIDE DEF ChunkSet
  <2> QED
    BY <1>1, <1>2, HeadTailProperties, LenProperties, EmptySeq
<1> HIDE DEF c
<1>4. r \in Transfers /\ b \in Seq(Units)
  BY <1>2, <1>3, EmptySeq, CfgAssumption DEF Transfers, ChunkSet
<1>5. ASSUME Belongs(r, c) /\ c.index = r.nextChunk /\ FitsBuffer(b) /\ TakeUnit(r, b, c)
      PROVE  CfgTypeOK' /\ (reboots' = 0 => BufferBegins' /\ PublishedWhole')
  <2> HIDE DEF r, b
  <2>1. Len(b) + 1 <= CONFIG_BUFFER_SIZE /\ r.active /\ c.id = r.transferId
    BY <1>5 DEF FitsBuffer, Belongs
  <2>2. /\ rx' \in Transfers /\ buffer' \in Seq(Units) /\ Len(buffer') <= CONFIG_BUFFER_SIZE
        /\ published' \in Seq(Units)
    BY <1>2, <1>3, <1>4, <1>5, <2>1, TakeUnitOK
  <2>3. CfgTypeOK'
    BY <1>1, <1>2, <1>3, <2>2 DEF CfgTypeOK, ChunkSet, Transfers
  <2>4. ASSUME reboots' = 0 PROVE BufferBegins' /\ PublishedWhole'
    <3>1. IdsAreDocs /\ WireGenuine /\ BufferBegins /\ PublishedWhole
      BY <1>1, <2>4 DEF CfgInv
    <3>2. Genuine(c)
      BY <1>3, <3>1 DEF WireGenuine
    <3>3. r.nextChunk = Len(b) /\ b = Beginning(r.transferId, Len(b))
      <4>1. CASE first
        <5>1. Len(b) = 0 /\ b = <<>> /\ r.nextChunk = 0
          BY <4>1 DEF b, r
        <5> QED
          BY <5>1 DEF Beginning
      <4>2. CASE ~first
        BY <2>1, <3>1, <4>2 DEF b, r, BufferBegins
      <4> QED
        BY <4>1, <4>2
    <3> QED
      BY <1>1, <1>2, <1>3, <1>4, <1>5, <2>1, <3>1, <3>2, <3>3, TakeUnitWhole
  <2> QED
    BY <2>3, <2>4
<1>6. ASSUME Reset /\ UNCHANGED published
      PROVE  CfgTypeOK' /\ (reboots' = 0 => BufferBegins' /\ PublishedWhole')
  <2>1. rx' = NoTransfer /\ buffer' = <<>> /\ Len(buffer') = 0 /\ buffer' \in Seq(Units)
    BY <1>6, EmptySeq DEF Reset
  <2>2. CfgTypeOK'
    <3>1. 0 \in 0 .. IdSpace - 1 /\ 0 \in 0 .. MaxLength /\ 0 <= CONFIG_BUFFER_SIZE
      BY CfgAssumption
    <3> QED
      BY <1>1, <1>2, <1>3, <1>6, <2>1, <3>1 DEF CfgTypeOK, ChunkSet, NoTransfer
  <2>3. ASSUME reboots' = 0 PROVE BufferBegins' /\ PublishedWhole'
    BY <1>1, <1>6, <2>1, <2>3 DEF CfgInv, BufferBegins, NoTransfer, PublishedWhole, Docs, Document
  <2> QED
    BY <2>2, <2>3
<1>7. ASSUME UNCHANGED <<rx, buffer, published>>
      PROVE  CfgTypeOK' /\ (reboots' = 0 => BufferBegins' /\ PublishedWhole')
  <2>1. CfgTypeOK'
    BY <1>1, <1>2, <1>3, <1>7 DEF CfgTypeOK, ChunkSet
  <2>2. ASSUME reboots' = 0 PROVE BufferBegins' /\ PublishedWhole'
    BY <1>1, <1>7, <2>2 DEF CfgInv, BufferBegins, PublishedWhole, Docs, Document
  <2> QED
    BY <2>1, <2>2
<1>8. CfgTypeOK' /\ (reboots' = 0 => BufferBegins' /\ PublishedWhole')
  BY <1>1, <1>5, <1>6, <1>7
<1>9. SendingOK'
  BY <1>1, <1>2 DEF SendingOK
<1>10. ASSUME reboots' = 0 PROVE IdsAreDocs' /\ WireGenuine'
  <2>1. IdsAreDocs /\ WireGenuine
    BY <1>1, <1>10 DEF CfgInv
  <2>2. IdsAreDocs'
    BY <1>1, <2>1 DEF IdsAreDocs, Docs
  <2>3. ASSUME NEW i \in 1 .. Len(wire') PROVE Genuine(wire'[i])
    <3>1. i + 1 \in 1 .. Len(wire) /\ wire'[i] = wire[i + 1]
      BY <1>3
    <3> QED
      BY <2>1, <3>1 DEF WireGenuine
  <2>4. WireGenuine'
    BY <1>1, <2>3 DEF WireGenuine, Genuine, Docs
  <2> QED
    BY <2>2, <2>4
<1> QED
  BY <1>8, <1>9, <1>10 DEF CfgInv

-----------------------------------------------------------------------------
(* The theorems. *)

\* Until the sender restarts an id names one document, and what the receiver holds of a transfer
\* is the beginning of its document (ConfigSender, ConfigReceiver).
THEOREM CfgInvariant == CfgSpec => []CfgInv
<1>1. ASSUME CfgInv, [CfgNext]_cfgVars PROVE CfgInv'
  <2>1. CASE UNCHANGED cfgVars
    BY <1>1, <2>1 DEF cfgVars, CfgInv, CfgTypeOK, SendingOK, IdsAreDocs, WireGenuine, Genuine,
                      BufferBegins, PublishedWhole, Docs, Document
  <2> QED
    BY <1>1, <2>1, StartSendOK, SendChunkOK, RestartSenderOK, ReceiveChunkOK DEF CfgNext
<1> QED
  BY CfgInitOK, <1>1, PTL DEF CfgSpec

\* What getJson hands out is a whole document in order, whichever chunks were lost, refused or too
\* many, as long as no more documents are sent than there are transfer ids and the sender has not
\* restarted.
THEOREM WholeDocumentTaken == CfgSpec => []WholeDocument
<1>1. CfgInv => WholeDocument
  BY DEF CfgInv, PublishedWhole, WholeDocument, Docs
<1> QED
  BY <1>1, CfgInvariant, PTL

-----------------------------------------------------------------------------
(***************************************************************************)
(* The three services in one behaviour: a step of one is a stutter of the  *)
(* others, so each of them behaves as it does alone.                       *)
(***************************************************************************)

\* A behaviour of the composition is a behaviour of every service.
LEMMA ServicesApart == MCSpec => BusSpec /\ WtSpec /\ CfgSpec
<1>1. MCInit => BusInit /\ WtInit /\ CfgInit
  BY DEF MCInit
<1>2. [MCNext]_<<busVars, wtVars, cfgVars, focus>> =>
        [BusNext]_busVars /\ [WtNext]_wtVars /\ [CfgNext]_cfgVars
  BY DEF MCNext
<1> QED
  BY <1>1, <1>2, PTL DEF MCSpec, BusSpec, WtSpec, CfgSpec

\* Every variable of the three keeps its type: the indices stay in the ring, the counters
\* of seconds and transfers in their width, the frames in the shape the receiver expects.
THEOREM ServicesTypes == MCSpec => []ServicesTypeOK
<1>1. BusInv => BusTypeOK
  BY DEF BusInv
<1>2. WtInv => WtTypeOK
  BY DEF WtInv
<1>3. CfgInv => CfgTypeOK
  BY DEF CfgInv
<1> QED
  BY <1>1, <1>2, <1>3, ServicesApart, BusInvariant, WtInvariant, CfgInvariant, PTL
  DEF ServicesTypeOK

\* The guarantees of the three hold in the composition that is model-checked.
THEOREM ServicesTogether == MCSpec => RefinesFifo /\ []TracksWork /\ []WholeDocument
BY ServicesApart, BusImplementsFifo, TotalTracksWork, WholeDocumentTaken, PTL

=============================================================================
