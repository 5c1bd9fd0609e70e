-------------------------- MODULE UartBridgeProofs ---------------------------
(***************************************************************************)
(* Proofs about UartBridge, for every set of messages and every bound.     *)
(*                                                                         *)
(* That a message is handled MaxRetries times at most rests on a count:    *)
(* what has been handled of it, the copies of its frame on the two lines   *)
(* and the tries that are left to the slot that holds it never exceed      *)
(* MaxRetries together.                                                    *)
(***************************************************************************)
EXTENDS UartBridge, Integers, TLAPS, FiniteSetTheorems, SequenceTheorems

Cells == [f : Frames, whole : BOOLEAN]
Slots == [active : BOOLEAN, frame : Frames, retries : 0 .. MaxRetries - 1]

\* The places of a line that hold a frame named n, and their number.
Places(q, n) == {i \in 1 .. Len(q) : q[i].f.name = n}
Copies(q, n) == Cardinality(Places(q, n))

\* What one frame adds to that number.
Adds(f, n) == IF f.name = n THEN 1 ELSE 0

\* The tries a slot still has for the message n.
Left(p, n) == IF p.active /\ p.frame.name = n THEN MaxRetries - 1 - p.retries ELSE 0

CopiesOn(l, n) == Copies(l["esp"], n) + Copies(l["mcu"], n)
LeftIn(p, n) == Left(p["esp"], n) + Left(p["mcu"], n)

\* What has been handled of a message and what may still be.
Weight(n) == handled[n] + CopiesOn(line, n) + LeftIn(pending, n)

Counted == \A n \in 1 .. MaxSends : Weight(n) <= MaxRetries

\* Nothing is known yet of a message that has not been sent.
Untouched == \A n \in 1 .. MaxSends : n > sent => Weight(n) = 0

Inv == TypeOK /\ Counted /\ Untouched

-----------------------------------------------------------------------------
(* Counting the frames of a line. *)

LEMMA PlacesFinite ==
  ASSUME NEW q \in Seq(Cells), NEW n
  PROVE  IsFiniteSet(Places(q, n)) /\ Copies(q, n) \in Nat
<1>1. Len(q) \in Nat
  BY LenProperties
<1>2. IsFiniteSet(1 .. Len(q)) /\ Places(q, n) \in SUBSET (1 .. Len(q))
  BY <1>1, FS_Interval DEF Places
<1>3. IsFiniteSet(Places(q, n))
  BY <1>2, FS_Subset
<1> QED
  BY <1>3, FS_CardinalityType DEF Copies

LEMMA NoCopies == ASSUME NEW n PROVE Copies(<<>>, n) = 0
<1>1. Places(<<>>, n) = {}
  BY DEF Places
<1> QED
  BY <1>1, FS_EmptySet DEF Copies

LEMMA AppendCopies ==
  ASSUME NEW q \in Seq(Cells), NEW c \in Cells, NEW n
  PROVE  Append(q, c) \in Seq(Cells)
           /\ Copies(Append(q, c), n) = Copies(q, n) + (IF c.f.name = n THEN 1 ELSE 0)
<1>1. /\ Append(q, c) \in Seq(Cells) /\ Len(Append(q, c)) = Len(q) + 1 /\ Len(q) \in Nat
      /\ \A i \in 1 .. Len(q) : Append(q, c)[i] = q[i]
      /\ Append(q, c)[Len(q) + 1] = c
  <2> HIDE DEF Cells
  <2> QED
    BY AppendProperties, LenProperties
<1>2. Len(q) + 1 \notin Places(q, n) /\ IsFiniteSet(Places(q, n)) /\ Copies(q, n) \in Nat
  <2>1. Len(q) + 1 \notin Places(q, n)
    BY <1>1 DEF Places
  <2> QED
    BY <2>1, PlacesFinite
<1>3. CASE c.f.name = n
  <2>1. Places(Append(q, c), n) = Places(q, n) \cup {Len(q) + 1}
    BY <1>1, <1>3 DEF Places
  <2>2. Cardinality(Places(q, n) \cup {Len(q) + 1}) = Cardinality(Places(q, n)) + 1
    BY <1>2, FS_AddElement
  <2> QED
    BY <1>1, <1>3, <2>1, <2>2 DEF Copies
<1>4. CASE c.f.name # n
  <2>1. Places(Append(q, c), n) = Places(q, n)
    BY <1>1, <1>4 DEF Places
  <2> QED
    BY <1>1, <1>2, <1>4, <2>1 DEF Copies
<1> QED
  BY <1>3, <1>4

LEMMA TailCopies ==
  ASSUME NEW q \in Seq(Cells), q # <<>>, NEW n
  PROVE  /\ Tail(q) \in Seq(Cells) /\ Head(q) \in Cells
         /\ Copies(q, n) = Copies(Tail(q), n) + (IF Head(q).f.name = n THEN 1 ELSE 0)
<1> DEFINE t == Tail(q)
<1> DEFINE T == Places(t, n)
<1> DEFINE R == Places(q, n) \ {1}
<1>1. /\ t \in Seq(Cells) /\ Len(t) = Len(q) - 1 /\ Len(q) \in Nat /\ Len(q) > 0
      /\ \A i \in 1 .. Len(t) : t[i] = q[i + 1]
      /\ Head(q) \in Cells /\ Head(q) = q[1]
  <2> HIDE DEF Cells
  <2> QED
    BY HeadTailProperties, LenProperties, EmptySeq
<1>2. IsFiniteSet(T) /\ IsFiniteSet(Places(q, n)) /\ Cardinality(T) \in Nat
        /\ Cardinality(Places(q, n)) \in Nat
  BY <1>1, PlacesFinite DEF Copies
<1>3. Cardinality(R) = Cardinality(T)
  <2> DEFINE g == [i \in T |-> i + 1]
  <2>1. g \in [T -> R]
    BY <1>1 DEF Places
  <2>2. \A i, j \in T : g[i] = g[j] => i = j
    BY <1>1 DEF Places
  <2>3. \A k \in R : \E i \in T : g[i] = k
    <3>1. ASSUME NEW k \in R PROVE k - 1 \in T /\ g[k - 1] = k
      BY <1>1 DEF Places
    <3> QED
      BY <3>1
  <2> HIDE DEF g, T, R
  <2>4. g \in Bijection(T, R)
    BY <2>1, <2>2, <2>3 DEF Bijection, Injection, Surjection, IsInjective
  <2>5. ExistsBijection(T, R)
    BY <2>4 DEF ExistsBijection
  <2> QED
    BY <1>2, <2>5, FS_Bijection
<1>4. Cardinality(R) = IF 1 \in Places(q, n) THEN Cardinality(Places(q, n)) - 1
                                             ELSE Cardinality(Places(q, n))
  BY <1>2, FS_RemoveElement
<1>5. 1 \in Places(q, n) <=> Head(q).f.name = n
  BY <1>1 DEF Places
<1> QED
  BY <1>1, <1>2, <1>3, <1>4, <1>5 DEF Copies

\* A frame that joins a line adds a copy of itself at most.
LEMMA JoinedCopies ==
  ASSUME NEW q \in Seq(Cells), NEW f \in Frames, NEW w \in BOOLEAN, NEW n
  PROVE  /\ Joined(q, f, w) \in Seq(Cells)
         /\ Copies(Joined(q, f, w), n) \in Nat
         /\ Copies(Joined(q, f, w), n) <= Copies(q, n) + (IF f.name = n THEN 1 ELSE 0)
<1> DEFINE c == [f |-> f, whole |-> w]
<1>1. c \in Cells /\ c.f = f
  BY DEF Cells
<1> HIDE DEF c
<1>2. Append(q, c) \in Seq(Cells)
        /\ Copies(Append(q, c), n) = Copies(q, n) + (IF f.name = n THEN 1 ELSE 0)
  BY <1>1, AppendCopies
<1>3. Copies(q, n) \in Nat /\ Copies(Append(q, c), n) \in Nat
  BY <1>2, PlacesFinite
<1>4. Joined(q, f, w) \in {q, Append(q, c)}
  BY DEF Joined, c
<1>5. CASE Joined(q, f, w) = q
  BY <1>3, <1>5
<1>6. CASE Joined(q, f, w) = Append(q, c)
  BY <1>2, <1>3, <1>6
<1> QED
  BY <1>4, <1>5, <1>6

-----------------------------------------------------------------------------
(* Both ends together. *)

LEMMA Bounds ==
  /\ SeqSpace \in Nat /\ SeqSpace > 0 /\ MaxRetries \in Nat /\ MaxRetries > 0 /\ MaxSends \in Nat
  /\ 0 \in 0 .. SeqSpace - 1 /\ 0 \in Names
BY SlotAssumption DEF Names

LEMMA EndsAre ==
  ASSUME NEW e \in Ends
  PROVE  Other(e) \in Ends /\ Other(e) # e /\ \A x \in Ends : x = e \/ x = Other(e)
<1>1. \E o \in Ends : o # e
  BY DEF Ends
<1>2. Other(e) \in Ends /\ Other(e) # e
  BY <1>1 DEF Other
<1> QED
  BY <1>2 DEF Ends

LEMMA SumCopies ==
  ASSUME NEW l \in [Ends -> Seq(Cells)], NEW e \in Ends, NEW n
  PROVE  /\ CopiesOn(l, n) = Copies(l[e], n) + Copies(l[Other(e)], n)
         /\ Copies(l[e], n) \in Nat /\ Copies(l[Other(e)], n) \in Nat
<1>1. Copies(l["esp"], n) \in Nat /\ Copies(l["mcu"], n) \in Nat
  BY PlacesFinite DEF Ends
<1>2. (e = "esp" /\ Other(e) = "mcu") \/ (e = "mcu" /\ Other(e) = "esp")
  BY EndsAre DEF Ends
<1> QED
  BY <1>1, <1>2 DEF CopiesOn

LEMMA LeftNat ==
  ASSUME NEW p \in Slots, NEW n
  PROVE  Left(p, n) \in Nat /\ Left(p, n) <= MaxRetries - 1
BY Bounds DEF Left, Slots

LEMMA SumLeft ==
  ASSUME NEW p \in [Ends -> Slots], NEW e \in Ends, NEW n
  PROVE  /\ LeftIn(p, n) = Left(p[e], n) + Left(p[Other(e)], n)
         /\ Left(p[e], n) \in Nat /\ Left(p[Other(e)], n) \in Nat
<1>1. Left(p["esp"], n) \in Nat /\ Left(p["mcu"], n) \in Nat
  BY LeftNat DEF Ends
<1>2. (e = "esp" /\ Other(e) = "mcu") \/ (e = "mcu" /\ Other(e) = "esp")
  BY EndsAre DEF Ends
<1> QED
  BY <1>1, <1>2 DEF LeftIn

LEMMA LeftInNat == ASSUME NEW p \in [Ends -> Slots], NEW n PROVE LeftIn(p, n) \in Nat
<1>1. p["esp"] \in Slots /\ p["mcu"] \in Slots
  BY DEF Ends
<1>2. Left(p["esp"], n) \in Nat /\ Left(p["mcu"], n) \in Nat
  BY <1>1, LeftNat
<1> QED
  BY <1>2 DEF LeftIn

LEMMA WeightNat ==
  ASSUME NEW h \in [1 .. MaxSends -> Nat], NEW l \in [Ends -> Seq(Cells)],
         NEW p \in [Ends -> Slots], NEW n \in 1 .. MaxSends
  PROVE  h[n] \in Nat /\ CopiesOn(l, n) \in Nat /\ LeftIn(p, n) \in Nat
<1>1. "esp" \in Ends /\ h[n] \in Nat
  BY DEF Ends
<1>2. CopiesOn(l, n) \in Nat
  BY <1>1, SumCopies
<1>3. LeftIn(p, n) \in Nat
  BY LeftInNat
<1> QED
  BY <1>1, <1>2, <1>3

\* A change of one slot.
LEMMA SlotChange ==
  ASSUME NEW old \in [Ends -> Slots], NEW new \in [Ends -> Slots], NEW e \in Ends,
         new[Other(e)] = old[Other(e)], NEW n
  PROVE  LeftIn(old, n) + Left(new[e], n) = LeftIn(new, n) + Left(old[e], n)
<1>1. LeftIn(new, n) = Left(new[e], n) + Left(old[Other(e)], n)
  BY SumLeft
<1>2. LeftIn(old, n) = Left(old[e], n) + Left(old[Other(e)], n)
        /\ Left(old[e], n) \in Nat /\ Left(old[Other(e)], n) \in Nat /\ Left(new[e], n) \in Nat
  BY SumLeft, LeftNat
<1> QED
  BY <1>1, <1>2

\* A frame sent to the other end.
LEMMA SentOn ==
  ASSUME NEW l \in [Ends -> Seq(Cells)], NEW e \in Ends, NEW f \in Frames, NEW w \in BOOLEAN,
         NEW n, NEW m, m = [l EXCEPT ![Other(e)] = Joined(l[Other(e)], f, w)]
  PROVE  m \in [Ends -> Seq(Cells)] /\ CopiesOn(m, n) <= CopiesOn(l, n) + Adds(f, n)
<1> DEFINE k == Adds(f, n)
<1>1. Other(e) \in Ends /\ Other(e) # e /\ l[Other(e)] \in Seq(Cells)
  BY EndsAre
<1>2. Joined(l[Other(e)], f, w) \in Seq(Cells)
        /\ Copies(Joined(l[Other(e)], f, w), n) <= Copies(l[Other(e)], n) + k
        /\ Copies(Joined(l[Other(e)], f, w), n) \in Nat
  BY <1>1, JoinedCopies DEF Adds
<1>3. m \in [Ends -> Seq(Cells)] /\ m[e] = l[e] /\ m[Other(e)] = Joined(l[Other(e)], f, w)
  BY <1>1, <1>2
<1>4. CopiesOn(m, n) = Copies(l[e], n) + Copies(Joined(l[Other(e)], f, w), n)
  BY <1>3, SumCopies
<1>5. CopiesOn(l, n) = Copies(l[e], n) + Copies(l[Other(e)], n)
        /\ Copies(l[e], n) \in Nat /\ Copies(l[Other(e)], n) \in Nat
  BY SumCopies
<1>6. k \in Nat
  BY DEF Adds
<1> HIDE DEF k
<1>7. CopiesOn(m, n) <= CopiesOn(l, n) + k
  BY <1>2, <1>4, <1>5, <1>6
<1> QED
  BY <1>3, <1>7 DEF k

\* A frame taken off the own line.
LEMMA TakenOff ==
  ASSUME NEW l \in [Ends -> Seq(Cells)], NEW e \in Ends, l[e] # <<>>, NEW n,
         NEW m, m = [l EXCEPT ![e] = Tail(l[e])]
  PROVE  /\ m \in [Ends -> Seq(Cells)] /\ Head(l[e]) \in Cells
         /\ CopiesOn(l, n) = CopiesOn(m, n) + Adds(Head(l[e]).f, n)
<1> DEFINE k == Adds(Head(l[e]).f, n)
<1>1. Other(e) \in Ends /\ Other(e) # e /\ l[e] \in Seq(Cells)
  BY EndsAre
<1>2. Tail(l[e]) \in Seq(Cells) /\ Head(l[e]) \in Cells
        /\ Copies(l[e], n) = Copies(Tail(l[e]), n) + k
  BY <1>1, TailCopies DEF Adds
<1>3. m \in [Ends -> Seq(Cells)] /\ m[e] = Tail(l[e]) /\ m[Other(e)] = l[Other(e)]
  BY <1>1, <1>2
<1>4. CopiesOn(m, n) = Copies(Tail(l[e]), n) + Copies(l[Other(e)], n)
        /\ Copies(Tail(l[e]), n) \in Nat /\ Copies(l[Other(e)], n) \in Nat
  BY <1>3, SumCopies
<1>5. CopiesOn(l, n) = Copies(l[e], n) + Copies(l[Other(e)], n)
  BY SumCopies
<1>6. k \in Nat
  BY DEF Adds
<1> HIDE DEF k
<1>7. CopiesOn(l, n) = CopiesOn(m, n) + k
  BY <1>2, <1>4, <1>5, <1>6
<1> QED
  BY <1>2, <1>3, <1>7 DEF k

\* The frames a bridge makes up itself have no name.
LEMMA OwnFrames ==
  /\ \A x \in 0 .. SeqSpace - 1 : AckFrame(x) \in Frames /\ AckFrame(x).name = 0
  /\ ErrFrame \in Frames /\ ErrFrame.name = 0
BY Bounds DEF AckFrame, ErrFrame, Frame, Frames, Kinds, DataKinds, NoFrame
-----------------------------------------------------------------------------
(* The steps. *)

LEMMA TypeParts ==
  TypeOK <=> /\ seqCounter \in [Ends -> 0 .. SeqSpace - 1] /\ pending \in [Ends -> Slots]
             /\ parser \in [Ends -> {"sof", "mid"}] /\ line \in [Ends -> Seq(Cells)]
             /\ sent \in Names /\ handled \in [1 .. MaxSends -> Nat]
             /\ acked \in [Ends -> SUBSET Names] /\ damage \in Nat /\ restarts \in [Ends -> Nat]
BY DEF TypeOK, Slots, Cells

LEMMA TypePartsNext ==
  TypeOK' <=> /\ seqCounter' \in [Ends -> 0 .. SeqSpace - 1] /\ pending' \in [Ends -> Slots]
              /\ parser' \in [Ends -> {"sof", "mid"}] /\ line' \in [Ends -> Seq(Cells)]
              /\ sent' \in Names /\ handled' \in [1 .. MaxSends -> Nat]
              /\ acked' \in [Ends -> SUBSET Names] /\ damage' \in Nat /\ restarts' \in [Ends -> Nat]
BY DEF TypeOK, Slots, Cells

\* What a weight is made of.
Parts(n) ==
  /\ handled[n] \in Nat /\ CopiesOn(line, n) \in Nat /\ LeftIn(pending, n) \in Nat
  /\ Weight(n) = handled[n] + CopiesOn(line, n) + LeftIn(pending, n)

LEMMA WeightParts ==
  ASSUME TypeOK, TypeOK', NEW n \in 1 .. MaxSends
  PROVE  Parts(n) /\ Parts(n)'
<1>1. handled[n] \in Nat /\ CopiesOn(line, n) \in Nat /\ LeftIn(pending, n) \in Nat
  <2>1. handled \in [1 .. MaxSends -> Nat] /\ line \in [Ends -> Seq(Cells)]
          /\ pending \in [Ends -> Slots]
    BY TypeParts
  <2> QED
    BY <2>1, WeightNat
<1>2. handled'[n] \in Nat /\ CopiesOn(line', n) \in Nat /\ LeftIn(pending', n) \in Nat
  <2>1. handled' \in [1 .. MaxSends -> Nat] /\ line' \in [Ends -> Seq(Cells)]
          /\ pending' \in [Ends -> Slots]
    BY TypePartsNext
  <2> QED
    BY <2>1, WeightNat
<1> QED
  BY <1>1, <1>2 DEF Weight, Parts

\* A step that sends no message and lets no weight grow keeps the count.
LEMMA Settles ==
  ASSUME Inv, TypeOK', sent' = sent, \A n \in 1 .. MaxSends : Weight(n)' <= Weight(n)
  PROVE  Inv'
<1>1. ASSUME NEW n \in 1 .. MaxSends PROVE Weight(n)' \in Nat /\ Weight(n) \in Nat
  BY WeightParts DEF Inv, Parts
<1>2. Counted'
  <2>1. ASSUME NEW n \in 1 .. MaxSends PROVE Weight(n)' <= MaxRetries
    <3>1. Weight(n) <= MaxRetries /\ Weight(n)' <= Weight(n)
      BY DEF Inv, Counted
    <3> QED
      BY <1>1, <3>1, Bounds
  <2> QED
    BY <2>1 DEF Counted
<1>3. Untouched'
  <2>1. ASSUME NEW n \in 1 .. MaxSends, n > sent PROVE Weight(n)' = 0
    <3>1. Weight(n) = 0 /\ Weight(n)' <= Weight(n)
      BY <2>1 DEF Inv, Untouched
    <3> QED
      BY <1>1, <3>1
  <2> QED
    BY <2>1 DEF Untouched
<1> QED
  BY <1>2, <1>3 DEF Inv

\* A frame comes off the line, with an answer or without one.
LEMMA ReceivedOK ==
  ASSUME TypeOK, NEW e \in Ends, line[e] # <<>>, NEW f \in Frames, f.name = 0,
         TakesOnly(e) \/ Answers(e, f)
  PROVE  /\ line' \in [Ends -> Seq(Cells)] /\ seqCounter' \in [Ends -> 0 .. SeqSpace - 1]
         /\ Got(e) \in Frames
         /\ \A n \in 1 .. MaxSends :
              CopiesOn(line', n) + Adds(Got(e), n) <= CopiesOn(line, n)
<1>0. PICK m : m = [line EXCEPT ![e] = Tail(line[e])]
  OBVIOUS
<1>1. line \in [Ends -> Seq(Cells)] /\ seqCounter \in [Ends -> 0 .. SeqSpace - 1]
        /\ pending \in [Ends -> Slots] /\ handled \in [1 .. MaxSends -> Nat]
  BY TypeParts
<1>2. Head(line[e]) \in Cells /\ m \in [Ends -> Seq(Cells)]
  BY <1>0, <1>1, TakenOff
<1>3. Got(e) \in Frames
  BY <1>2 DEF Got, Cells
<1>4. \A n \in 1 .. MaxSends :
         CopiesOn(line, n) = CopiesOn(m, n) + Adds(Got(e), n)
  <2>0. line \in [Ends -> Seq(Cells)]
    BY <1>1
  <2>1. ASSUME NEW n \in 1 .. MaxSends
        PROVE  CopiesOn(line, n) = CopiesOn(m, n) + Adds(Head(line[e]).f, n)
    BY <1>0, <2>0, TakenOff, Zenon
  <2> QED
    BY <2>1 DEF Got
<1>5. \A n \in 1 .. MaxSends : CopiesOn(m, n) \in Nat
  BY <1>1, <1>2, WeightNat
<1>6. ASSUME NEW n PROVE Adds(Got(e), n) \in Nat
  BY DEF Adds
<1>7. CASE TakesOnly(e)
  <2>1. line' = m /\ seqCounter' = seqCounter
    BY <1>0, <1>7 DEF TakesOnly
  <2>2. ASSUME NEW n \in 1 .. MaxSends
        PROVE  CopiesOn(line', n) + Adds(Got(e), n) <= CopiesOn(line, n)
    BY <1>4, <1>5, <1>6, <2>1
  <2> QED
    BY <1>1, <1>2, <1>3, <2>1, <2>2
<1>8. CASE Answers(e, f)
  <2>1. line' = [m EXCEPT ![Other(e)] = Joined(@, f, TRUE)]
    BY <1>0, <1>1, <1>8, EndsAre DEF Answers
  <2>2. seqCounter' \in [Ends -> 0 .. SeqSpace - 1]
    <3>1. NextSeq(e) \in 0 .. SeqSpace - 1
      BY <1>1, Bounds DEF NextSeq
    <3> QED
      BY <1>1, <1>8, <3>1 DEF Answers
  <2>3. line' \in [Ends -> Seq(Cells)]
    BY <1>2, <2>1, SentOn, Zenon
  <2>4. ASSUME NEW n \in 1 .. MaxSends
        PROVE  CopiesOn(line', n) + Adds(Got(e), n) <= CopiesOn(line, n)
    <3>1. CopiesOn(line', n) <= CopiesOn(m, n) + Adds(f, n)
      BY <1>2, <2>1, SentOn, Zenon
    <3>2. CopiesOn(line', n) \in Nat
      BY <1>1, <2>3, WeightNat
    <3>3. Adds(f, n) = 0
      BY DEF Adds
    <3>4. CopiesOn(line', n) <= CopiesOn(m, n)
      BY <1>5, <3>1, <3>2, <3>3
    <3> QED
      BY <1>4, <1>5, <1>6, <3>2, <3>4
  <2> QED
    BY <1>3, <2>2, <2>3, <2>4
<1> QED
  BY <1>7, <1>8
LEMMA InitOK == Init => Inv
<1> SUFFICES ASSUME Init PROVE Inv
  OBVIOUS
<1>1. NoPending \in Slots /\ NoPending.active = FALSE
  BY Bounds DEF NoPending, Slots, Frames, Frame, Kinds, DataKinds, NoFrame
<1>2. <<>> \in Seq(Cells)
  BY EmptySeq
<1>3. TypeOK
  <2>1. seqCounter \in [Ends -> 0 .. SeqSpace - 1] /\ sent \in Names
          /\ handled \in [1 .. MaxSends -> Nat] /\ restarts \in [Ends -> Nat] /\ damage \in Nat
    BY Bounds DEF Init
  <2>2. pending \in [Ends -> Slots] /\ parser \in [Ends -> {"sof", "mid"}]
          /\ line \in [Ends -> Seq(Cells)] /\ acked \in [Ends -> SUBSET Names]
    BY <1>1, <1>2 DEF Init
  <2> QED
    BY <2>1, <2>2, TypeParts
<1>4. ASSUME NEW n \in 1 .. MaxSends PROVE Weight(n) = 0
  <2>1. line["esp"] = <<>> /\ line["mcu"] = <<>> /\ pending["esp"] = NoPending
          /\ pending["mcu"] = NoPending /\ handled[n] = 0
    BY DEF Init, Ends
  <2>2. CopiesOn(line, n) = 0
    BY <2>1, NoCopies DEF CopiesOn
  <2>3. LeftIn(pending, n) = 0
    BY <1>1, <2>1 DEF LeftIn, Left
  <2> QED
    BY <2>1, <2>2, <2>3 DEF Weight
<1> QED
  BY <1>3, <1>4, Bounds DEF Inv, Counted, Untouched

\* A frame that is not passed to a handler: its copy is gone.
LEMMA DroppedOK ==
  ASSUME Inv, NEW e \in Ends, line[e] # <<>>, NEW f \in Frames, f.name = 0,
         TakesOnly(e) \/ Answers(e, f), parser' \in [Ends -> {"sof", "mid"}], damage' \in Nat,
         UNCHANGED <<pending, pastVars>>
  PROVE  Inv'
<1>1. TypeOK /\ pending' = pending /\ sent' = sent /\ handled' = handled /\ acked' = acked
        /\ restarts' = restarts
  BY DEF Inv, pastVars
<1>2. /\ line' \in [Ends -> Seq(Cells)] /\ seqCounter' \in [Ends -> 0 .. SeqSpace - 1]
      /\ \A n \in 1 .. MaxSends : CopiesOn(line', n) + Adds(Got(e), n) <= CopiesOn(line, n)
  BY <1>1, ReceivedOK
<1>3. TypeOK'
  BY <1>1, <1>2, TypeParts, TypePartsNext
<1>4. ASSUME NEW n \in 1 .. MaxSends PROVE Weight(n)' <= Weight(n)
  <2>1. Adds(Got(e), n) \in Nat
    BY DEF Adds
  <2>2. LeftIn(pending', n) = LeftIn(pending, n) /\ handled'[n] = handled[n]
    BY <1>1
  <2>3. CopiesOn(line', n) + Adds(Got(e), n) <= CopiesOn(line, n)
    BY <1>2
  <2>9. Parts(n) /\ Parts(n)'
    BY <1>1, <1>3, WeightParts
  <2> QED
    BY <2>1, <2>2, <2>3, <2>9 DEF Parts
<1> QED
  BY <1>1, <1>3, <1>4, Settles

\* A frame that is passed to a handler: one copy less, one handling more.
LEMMA HandledOK ==
  ASSUME Inv, NEW e \in Ends, line[e] # <<>>, NEW f \in Frames, f.name = 0,
         TakesOnly(e) \/ Answers(e, f), Handling(e),
         UNCHANGED <<pending, parser, sent, acked, damage, restarts>>
  PROVE  Inv'
<1>1. TypeOK /\ pending' = pending /\ handled \in [1 .. MaxSends -> Nat]
  BY TypeParts DEF Inv
<1>2. /\ line' \in [Ends -> Seq(Cells)] /\ seqCounter' \in [Ends -> 0 .. SeqSpace - 1]
      /\ \A n \in 1 .. MaxSends : CopiesOn(line', n) + Adds(Got(e), n) <= CopiesOn(line, n)
  BY <1>1, ReceivedOK
<1>3. handled' = [handled EXCEPT ![Got(e).name] = @ + 1]
  BY DEF Handling
<1>4. handled' \in [1 .. MaxSends -> Nat]
  <2>1. CASE Got(e).name \in 1 .. MaxSends
    <3>1. handled[Got(e).name] + 1 \in Nat
      BY <1>1, <2>1
    <3> QED
      BY <1>1, <1>3, <3>1
  <2>2. CASE Got(e).name \notin 1 .. MaxSends
    BY <1>1, <1>3, <2>2
  <2> QED
    BY <2>1, <2>2
<1>5. TypeOK'
  BY <1>1, <1>2, <1>4, TypeParts, TypePartsNext
<1>6. ASSUME NEW n \in 1 .. MaxSends PROVE Weight(n)' <= Weight(n)
  <2>1. Adds(Got(e), n) \in Nat /\ handled'[n] = handled[n] + Adds(Got(e), n)
    BY <1>1, <1>3 DEF Adds
  <2>2. LeftIn(pending', n) = LeftIn(pending, n)
    BY <1>1
  <2>3. CopiesOn(line', n) + Adds(Got(e), n) <= CopiesOn(line, n)
    BY <1>2
  <2>9. Parts(n) /\ Parts(n)'
    BY <1>1, <1>5, WeightParts
  <2> QED
    BY <2>1, <2>2, <2>3, <2>9 DEF Parts
<1> QED
  BY <1>5, <1>6, Settles

LEMMA GotFrame == ASSUME Inv, NEW e \in Ends, line[e] # <<>> PROVE Got(e) \in Frames
<1>1. line \in [Ends -> Seq(Cells)]
  BY TypeParts DEF Inv
<1>2. Head(line[e]) \in Cells
  BY <1>1, TakenOff
<1> QED
  BY <1>2 DEF Got, Cells

\* A slot that is freed has no tries left.
LEMMA SlotFreedLeft ==
  ASSUME NEW old \in [Ends -> Slots], NEW new \in [Ends -> Slots], NEW e \in Ends,
         new[Other(e)] = old[Other(e)], NEW n, Left(new[e], n) = 0
  PROVE  LeftIn(new, n) <= LeftIn(old, n)
<1>1. LeftIn(old, n) + Left(new[e], n) = LeftIn(new, n) + Left(old[e], n)
  BY SlotChange
<1>2. Left(old[e], n) \in Nat /\ LeftIn(old, n) \in Nat /\ LeftIn(new, n) \in Nat
  BY LeftNat, LeftInNat
<1> QED
  BY <1>1, <1>2

\* A frame goes out.
LEMMA TransmittedOK ==
  ASSUME TypeOK, NEW e \in Ends, NEW f \in Frames, NEW w \in BOOLEAN, Transmits(e, f, w)
  PROVE  /\ line' \in [Ends -> Seq(Cells)] /\ seqCounter' \in [Ends -> 0 .. SeqSpace - 1]
         /\ \A n : CopiesOn(line', n) <= CopiesOn(line, n) + Adds(f, n)
<1>1. line \in [Ends -> Seq(Cells)] /\ seqCounter \in [Ends -> 0 .. SeqSpace - 1]
  BY TypeParts
<1>2. line' = [line EXCEPT ![Other(e)] = Joined(line[Other(e)], f, w)]
  BY DEF Transmits
<1>3. seqCounter' \in [Ends -> 0 .. SeqSpace - 1]
  <2>1. NextSeq(e) \in 0 .. SeqSpace - 1
    BY <1>1, Bounds DEF NextSeq
  <2> QED
    BY <1>1, <2>1 DEF Transmits
<1> QED
  BY <1>1, <1>2, <1>3, SentOn, Zenon

LEMMA HandleAutoOK == ASSUME Inv, NEW e \in Ends, HandleAuto(e) PROVE Inv'
<1>1. /\ line[e] # <<>> /\ Handling(e)
      /\ UNCHANGED <<pending, parser, sent, acked, damage, restarts>>
      /\ TakesOnly(e) \/ Answers(e, AckFrame(Got(e).seq))
  BY DEF HandleAuto, Arrived
<1>2. AckFrame(Got(e).seq) \in Frames /\ AckFrame(Got(e).seq).name = 0
  BY <1>1, GotFrame, OwnFrames DEF Frames
<1> QED
  BY <1>1, <1>2, HandledOK

LEMMA HandleCmdOK == ASSUME Inv, NEW e \in Ends, HandleCmd(e) PROVE Inv'
<1>1. /\ line[e] # <<>> /\ Handling(e)
      /\ UNCHANGED <<pending, parser, sent, acked, damage, restarts>>
      /\ TakesOnly(e) \/ Answers(e, AckFrame(Got(e).seq))
  BY DEF HandleCmd, Arrived
<1>2. AckFrame(Got(e).seq) \in Frames /\ AckFrame(Got(e).seq).name = 0
  BY <1>1, GotFrame, OwnFrames DEF Frames
<1> QED
  BY <1>1, <1>2, HandledOK

LEMMA HandleErrorOK == ASSUME Inv, NEW e \in Ends, HandleError(e) PROVE Inv'
<1>1. /\ line[e] # <<>> /\ TakesOnly(e) /\ UNCHANGED <<pending, pastVars>>
      /\ parser' \in [Ends -> {"sof", "mid"}] /\ damage' \in Nat
  BY TypeParts DEF HandleError, Arrived, Inv
<1> QED
  BY <1>1, OwnFrames, DroppedOK

LEMMA RefuseOK == ASSUME Inv, NEW e \in Ends, Refuse(e) PROVE Inv'
<1>1. /\ line[e] # <<>> /\ Answers(e, ErrFrame) /\ UNCHANGED <<pending, pastVars>>
      /\ parser' \in [Ends -> {"sof", "mid"}] /\ damage' \in Nat
  BY TypeParts DEF Refuse, Arrived, Inv
<1> QED
  BY <1>1, OwnFrames, DroppedOK

LEMMA SwallowOK == ASSUME Inv, NEW e \in Ends, Swallow(e) PROVE Inv'
<1>1. parser \in [Ends -> {"sof", "mid"}] /\ damage \in Nat
  BY TypeParts DEF Inv
<1>2. /\ line[e] # <<>> /\ UNCHANGED <<pending, pastVars>>
      /\ TakesOnly(e) \/ Answers(e, ErrFrame)
      /\ parser' \in [Ends -> {"sof", "mid"}] /\ damage' \in Nat
  BY <1>1 DEF Swallow
<1> QED
  BY <1>2, OwnFrames, DroppedOK

LEMMA HandleAckOK == ASSUME Inv, NEW e \in Ends, HandleAck(e) PROVE Inv'
<1>1. CASE ~Matches(e, Got(e))
  <2>1. /\ line[e] # <<>> /\ TakesOnly(e) /\ UNCHANGED <<pending, pastVars>>
        /\ parser' \in [Ends -> {"sof", "mid"}] /\ damage' \in Nat
    BY <1>1, TypeParts DEF HandleAck, Arrived, Inv, pastVars
  <2> QED
    BY <2>1, OwnFrames, DroppedOK
<1>2. CASE Matches(e, Got(e))
  <2> DEFINE p == [pending[e] EXCEPT !.active = FALSE]
  <2>1. TypeOK /\ pending \in [Ends -> Slots] /\ acked \in [Ends -> SUBSET Names]
    BY TypeParts DEF Inv
  <2>2. /\ line[e] # <<>> /\ TakesOnly(e) /\ UNCHANGED <<parser, sent, handled, damage, restarts>>
        /\ pending' = [pending EXCEPT ![e] = p]
        /\ acked' = [acked EXCEPT ![e] = @ \cup {pending[e].frame.name}]
    BY <1>2 DEF HandleAck, Arrived
  <2>3. p \in Slots /\ \A n : Left(p, n) = 0
    BY <2>1 DEF Slots, Left
  <2> HIDE DEF p
  <2>4. /\ line' \in [Ends -> Seq(Cells)] /\ seqCounter' \in [Ends -> 0 .. SeqSpace - 1]
        /\ \A n \in 1 .. MaxSends : CopiesOn(line', n) + Adds(Got(e), n) <= CopiesOn(line, n)
    BY <2>1, <2>2, OwnFrames, ReceivedOK
  <2>5. acked' \in [Ends -> SUBSET Names]
    <3>1. pending[e].frame.name \in Names
      BY <2>1 DEF Slots, Frames
    <3> QED
      BY <2>1, <2>2, <3>1
  <2>6. pending' \in [Ends -> Slots] /\ pending'[e] = p /\ pending'[Other(e)] = pending[Other(e)]
    BY <2>1, <2>2, <2>3, EndsAre
  <2>7. TypeOK'
    BY <2>1, <2>2, <2>4, <2>5, <2>6, TypeParts, TypePartsNext
  <2>8. ASSUME NEW n \in 1 .. MaxSends PROVE Weight(n)' <= Weight(n)
    <3>1. Adds(Got(e), n) \in Nat /\ handled'[n] = handled[n]
      BY <2>2 DEF Adds
    <3>2. LeftIn(pending', n) <= LeftIn(pending, n)
      BY <2>1, <2>3, <2>6, SlotFreedLeft
    <3>3. CopiesOn(line', n) + Adds(Got(e), n) <= CopiesOn(line, n)
      BY <2>4
    <3>9. Parts(n) /\ Parts(n)'
      BY <2>1, <2>7, WeightParts
    <3> QED
      BY <3>1, <3>2, <3>3, <3>9 DEF Parts
  <2> QED
    BY <2>2, <2>7, <2>8, Settles
<1> QED
  BY <1>1, <1>2

LEMMA GiveUpOK == ASSUME Inv, NEW e \in Ends, GiveUp(e) PROVE Inv'
<1> DEFINE p == [pending[e] EXCEPT !.active = FALSE]
<1>1. TypeOK /\ pending \in [Ends -> Slots]
  BY TypeParts DEF Inv
<1>2. /\ Transmits(e, ErrFrame, TRUE) /\ UNCHANGED <<parser, sent, handled, acked, damage, restarts>>
      /\ pending' = [pending EXCEPT ![e] = p]
  BY DEF GiveUp
<1>3. p \in Slots /\ \A n : Left(p, n) = 0
  BY <1>1 DEF Slots, Left
<1> HIDE DEF p
<1>4. /\ line' \in [Ends -> Seq(Cells)] /\ seqCounter' \in [Ends -> 0 .. SeqSpace - 1]
      /\ \A n \in 1 .. MaxSends : CopiesOn(line', n) <= CopiesOn(line, n) + Adds(ErrFrame, n)
  BY <1>1, <1>2, OwnFrames, TransmittedOK
<1>5. pending' \in [Ends -> Slots] /\ pending'[e] = p /\ pending'[Other(e)] = pending[Other(e)]
  BY <1>1, <1>2, <1>3, EndsAre
<1>6. TypeOK'
  BY <1>1, <1>2, <1>4, <1>5, TypeParts, TypePartsNext
<1>7. ASSUME NEW n \in 1 .. MaxSends PROVE Weight(n)' <= Weight(n)
  <2>1. Adds(ErrFrame, n) = 0 /\ handled'[n] = handled[n]
    BY <1>2, OwnFrames DEF Adds
  <2>2. LeftIn(pending', n) <= LeftIn(pending, n)
    BY <1>1, <1>3, <1>5, SlotFreedLeft
  <2>3. CopiesOn(line', n) <= CopiesOn(line, n) + Adds(ErrFrame, n)
    BY <1>4
  <2>9. Parts(n) /\ Parts(n)'
    BY <1>1, <1>6, WeightParts
  <2> QED
    BY <2>1, <2>2, <2>3, <2>9 DEF Parts
<1> QED
  BY <1>2, <1>6, <1>7, Settles

\* A repetition puts one copy more on the line and takes one try from the slot.
LEMMA RepeatOK == ASSUME Inv, NEW e \in Ends, Repeat(e) PROVE Inv'
<1> DEFINE p == [pending[e] EXCEPT !.retries = @ + 1]
<1> DEFINE f == pending[e].frame
<1>1. TypeOK /\ pending \in [Ends -> Slots] /\ line \in [Ends -> Seq(Cells)]
        /\ seqCounter \in [Ends -> 0 .. SeqSpace - 1]
  BY TypeParts DEF Inv
<1>2. /\ pending[e].active /\ ~(pending[e].retries + 1 >= MaxRetries)
      /\ seqCounter' = seqCounter /\ parser' = parser /\ damage' = damage
      /\ sent' = sent /\ handled' = handled /\ acked' = acked /\ restarts' = restarts
      /\ pending' = [pending EXCEPT ![e] = p]
      /\ line' = [line EXCEPT ![Other(e)] = Joined(line[Other(e)], f, TRUE)]
  BY <1>1, EndsAre DEF Repeat, LastTry, pastVars
<1>3. f \in Frames /\ pending[e].retries \in 0 .. MaxRetries - 1
  BY <1>1 DEF Slots
<1>4. p \in Slots
  <2>1. pending[e] \in Slots /\ pending[e].retries + 1 \in 0 .. MaxRetries - 1
    BY <1>1, <1>2, <1>3, Bounds
  <2> QED
    BY <2>1 DEF Slots
<1>5. ASSUME NEW n PROVE Left(pending[e], n) = Left(p, n) + Adds(f, n)
  BY <1>1, <1>2, <1>3, Bounds DEF Slots, Left, Adds
<1> HIDE DEF p, f
<1>6. line' \in [Ends -> Seq(Cells)]
        /\ \A n : CopiesOn(line', n) <= CopiesOn(line, n) + Adds(f, n)
  BY <1>1, <1>2, <1>3, SentOn, Zenon
<1>7. pending' \in [Ends -> Slots] /\ pending'[e] = p /\ pending'[Other(e)] = pending[Other(e)]
  BY <1>1, <1>2, <1>4, EndsAre
<1>8. TypeOK'
  BY <1>1, <1>2, <1>6, <1>7, TypeParts, TypePartsNext
<1>9. ASSUME NEW n \in 1 .. MaxSends PROVE Weight(n)' <= Weight(n)
  <2>1. LeftIn(pending, n) + Left(p, n) = LeftIn(pending', n) + Left(pending[e], n)
    <3>1. LeftIn(pending, n) + Left(pending'[e], n) = LeftIn(pending', n) + Left(pending[e], n)
      BY <1>1, <1>7, SlotChange
    <3> QED
      BY <1>7, <3>1
  <2>2. Left(pending[e], n) \in Nat /\ Left(p, n) \in Nat /\ Adds(f, n) \in Nat
    BY <1>1, <1>4, LeftNat DEF Adds
  <2>3. CopiesOn(line', n) <= CopiesOn(line, n) + Adds(f, n) /\ handled'[n] = handled[n]
    BY <1>2, <1>6
  <2>4. Left(pending[e], n) = Left(p, n) + Adds(f, n)
    BY <1>5
  <2>5. LeftIn(pending', n) + Adds(f, n) = LeftIn(pending, n)
    <3>1. LeftIn(pending, n) \in Nat /\ LeftIn(pending', n) \in Nat
      BY <1>1, <1>7, LeftInNat
    <3> QED
      BY <2>1, <2>2, <2>4, <3>1
  <2>9. Parts(n) /\ Parts(n)'
    BY <1>1, <1>8, WeightParts
  <2> QED
    BY <2>2, <2>3, <2>5, <2>9 DEF Parts
<1> QED
  BY <1>2, <1>8, <1>9, Settles

\* A message that is sent is new: nothing has been counted for it, and now there is one copy of
\* it on the line at most and MaxRetries - 1 tries in the slot.
LEMMA SendOK ==
  ASSUME Inv, NEW e \in Ends, NEW k \in DataKinds \cup {"odd"}, NEW a \in BOOLEAN, Send(e, k, a)
  PROVE  Inv'
<1> DEFINE f == Frame(k, a, seqCounter[e], sent + 1, 0)
<1>1. TypeOK /\ pending \in [Ends -> Slots] /\ seqCounter \in [Ends -> 0 .. SeqSpace - 1]
        /\ sent \in Names
  BY TypeParts DEF Inv
<1>2. /\ sent < MaxSends /\ sent' = sent + 1
      /\ parser' = parser /\ handled' = handled /\ acked' = acked /\ damage' = damage
      /\ restarts' = restarts
      /\ \E w \in BOOLEAN : Transmits(e, f, w)
      /\ pending' = [pending EXCEPT ![e] = PendingAfter(e, f)] \/ pending' = pending
  BY DEF Send
<1>3. sent + 1 \in 1 .. MaxSends /\ sent + 1 \in Names
  BY <1>1, <1>2, Bounds DEF Names
<1>4. f \in Frames /\ f.name = sent + 1 /\ f.ackReq = a
  <2>1. seqCounter[e] \in 0 .. SeqSpace - 1
    BY <1>1
  <2> QED
    BY <1>3, <2>1, Bounds DEF Frame, Frames, Kinds
<1> HIDE DEF f
<1>5. line' \in [Ends -> Seq(Cells)] /\ seqCounter' \in [Ends -> 0 .. SeqSpace - 1]
        /\ \A n : CopiesOn(line', n) <= CopiesOn(line, n) + Adds(f, n)
  BY <1>1, <1>2, <1>4, TransmittedOK
<1>6. PICK p \in {pending[e], [active |-> TRUE, frame |-> f, retries |-> 0]} :
        pending' = [pending EXCEPT ![e] = p]
  <2>1. CASE pending' = pending
    <3>1. pending' = [pending EXCEPT ![e] = pending[e]]
      BY <1>1, <2>1
    <3> QED
      BY <3>1
  <2>2. CASE pending' = [pending EXCEPT ![e] = PendingAfter(e, f)]
    <3>1. PendingAfter(e, f) \in {pending[e], [active |-> TRUE, frame |-> f, retries |-> 0]}
      BY DEF PendingAfter
    <3> QED
      BY <2>2, <3>1
  <2> QED
    BY <1>2, <2>1, <2>2
<1>7. p \in Slots
  <2>1. pending[e] \in Slots
    BY <1>1
  <2>2. [active |-> TRUE, frame |-> f, retries |-> 0] \in Slots
    BY <1>4, Bounds DEF Slots
  <2> QED
    BY <2>1, <2>2
<1>8. pending' \in [Ends -> Slots] /\ pending'[e] = p /\ pending'[Other(e)] = pending[Other(e)]
  BY <1>1, <1>6, <1>7, EndsAre
<1>9. TypeOK'
  BY <1>1, <1>2, <1>3, <1>5, <1>8, TypeParts, TypePartsNext
<1>10. ASSUME NEW n \in 1 .. MaxSends
       PROVE  /\ LeftIn(pending, n) + Left(p, n) = LeftIn(pending', n) + Left(pending[e], n)
              /\ Left(p, n) \in Nat /\ Left(p, n) <= MaxRetries - 1 /\ Left(pending[e], n) \in Nat
  <2>1. LeftIn(pending, n) + Left(pending'[e], n) = LeftIn(pending', n) + Left(pending[e], n)
    BY <1>1, <1>8, SlotChange
  <2> QED
    BY <1>1, <1>7, <1>8, <2>1, LeftNat
<1>11. ASSUME NEW n \in 1 .. MaxSends, n # sent + 1
       PROVE  Weight(n)' <= Weight(n)
  <2>1. Adds(f, n) = 0
    BY <1>4, <1>11 DEF Adds
  <2>2. Left(p, n) <= Left(pending[e], n)
    <3>1. CASE p = pending[e]
      BY <1>10, <3>1
    <3>2. CASE p # pending[e]
      <4>1. Left(p, n) = 0
        BY <1>4, <1>6, <1>11, <3>2 DEF Left
      <4> QED
        BY <1>10, <4>1
    <3> QED
      BY <3>1, <3>2
  <2>3. CopiesOn(line', n) <= CopiesOn(line, n) + Adds(f, n) /\ handled'[n] = handled[n]
    BY <1>2, <1>5
  <2>9. Parts(n) /\ Parts(n)'
    BY <1>1, <1>9, WeightParts
  <2> QED
    BY <1>10, <2>1, <2>2, <2>3, <2>9 DEF Parts
<1>12. ASSUME NEW n \in 1 .. MaxSends, n = sent + 1 PROVE Weight(n)' <= MaxRetries
  <2>1. n > sent
    BY <1>1, <1>12 DEF Names
  <2>2. Weight(n) = 0
    BY <2>1 DEF Inv, Untouched
  <2>3. Adds(f, n) \in 0 .. 1
    BY DEF Adds
  <2>4. handled[n] = 0 /\ CopiesOn(line, n) = 0 /\ LeftIn(pending, n) = 0
    <3>1. Parts(n)
      BY <1>1, <1>9, WeightParts
    <3> QED
      BY <2>2, <3>1 DEF Parts
  <2>5. CopiesOn(line', n) <= CopiesOn(line, n) + Adds(f, n) /\ handled'[n] = handled[n]
    BY <1>2, <1>5
  <2>9. Parts(n) /\ Parts(n)'
    BY <1>1, <1>9, WeightParts
  <2> QED
    BY <1>10, <2>3, <2>4, <2>5, Bounds, <2>9 DEF Parts
<1>13. ASSUME NEW n \in 1 .. MaxSends PROVE Weight(n) \in Nat /\ Weight(n)' \in Nat
  BY <1>1, <1>9, WeightParts DEF Parts
<1>14. Counted'
  <2>1. ASSUME NEW n \in 1 .. MaxSends PROVE Weight(n)' <= MaxRetries
    <3>1. CASE n = sent + 1
      BY <1>12, <3>1
    <3>2. CASE n # sent + 1
      <4>1. Weight(n)' <= Weight(n) /\ Weight(n) <= MaxRetries
        BY <1>11, <3>2 DEF Inv, Counted
      <4> QED
        BY <1>13, <4>1, Bounds
    <3> QED
      BY <3>1, <3>2
  <2> QED
    BY <2>1 DEF Counted
<1>15. Untouched'
  <2>1. ASSUME NEW n \in 1 .. MaxSends, n > sent' PROVE Weight(n)' = 0
    <3>1. n > sent /\ n # sent + 1
      BY <1>1, <1>2, <2>1 DEF Names
    <3>2. Weight(n)' <= Weight(n) /\ Weight(n) = 0
      BY <1>11, <3>1 DEF Inv, Untouched
    <3> QED
      BY <1>13, <3>2
  <2> QED
    BY <2>1 DEF Untouched
<1> QED
  BY <1>9, <1>14, <1>15 DEF Inv

\* Noise changes no name.
LEMMA DamagedCopies ==
  ASSUME NEW q \in Seq(Cells), q # <<>>, NEW r, r = [q EXCEPT ![1].whole = FALSE], NEW n
  PROVE  r \in Seq(Cells) /\ Copies(r, n) = Copies(q, n)
<1>1. Len(q) \in Nat /\ Len(q) > 0 /\ q \in [1 .. Len(q) -> Cells]
  BY LenProperties, EmptySeq
<1>2. [q[1] EXCEPT !.whole = FALSE] \in Cells /\ [q[1] EXCEPT !.whole = FALSE].f = q[1].f
  <2>1. q[1] \in Cells
    BY <1>1
  <2> QED
    BY <2>1 DEF Cells
<1>3. r \in [1 .. Len(q) -> Cells] /\ \A i \in 1 .. Len(q) : r[i].f = q[i].f
  <2> HIDE DEF Cells
  <2>1. r = [q EXCEPT ![1] = [q[1] EXCEPT !.whole = FALSE]]
    BY <1>1
  <2> QED
    BY <1>1, <1>2, <2>1
<1>4. r \in Seq(Cells) /\ Len(r) = Len(q)
  <2> HIDE DEF Cells
  <2>1. r = [q EXCEPT ![1] = [q[1] EXCEPT !.whole = FALSE]]
    BY <1>1
  <2> QED
    BY <1>1, <1>2, <2>1, ExceptSeq
<1>5. Places(r, n) = Places(q, n)
  BY <1>3, <1>4 DEF Places
<1> QED
  BY <1>4, <1>5 DEF Copies

LEMMA DamageOK == ASSUME Inv, NEW e \in Ends, Damage(e) PROVE Inv'
<1>1. TypeOK /\ line \in [Ends -> Seq(Cells)] /\ damage \in Nat
  BY TypeParts DEF Inv
<1> DEFINE r == [line[e] EXCEPT ![1].whole = FALSE]
<1>2. /\ line[e] # <<>> /\ damage' = damage + 1 /\ line' = [line EXCEPT ![e] = r]
      /\ seqCounter' = seqCounter /\ pending' = pending /\ parser' = parser
      /\ sent' = sent /\ handled' = handled /\ acked' = acked /\ restarts' = restarts
  BY <1>1 DEF Damage, pastVars
<1>3. line[e] \in Seq(Cells)
  BY <1>1
<1>4. r \in Seq(Cells) /\ \A n : Copies(r, n) = Copies(line[e], n)
  <2>1. ASSUME NEW n PROVE r \in Seq(Cells) /\ Copies(r, n) = Copies(line[e], n)
    BY <1>2, <1>3, DamagedCopies
  <2> QED
    BY <2>1
<1> HIDE DEF r
<1>5. line' \in [Ends -> Seq(Cells)] /\ line'[e] = r /\ line'[Other(e)] = line[Other(e)]
  BY <1>1, <1>2, <1>4, EndsAre
<1>6. TypeOK'
  BY <1>1, <1>2, <1>5, TypeParts, TypePartsNext
<1>7. ASSUME NEW n \in 1 .. MaxSends PROVE Weight(n)' <= Weight(n)
  <2>1. CopiesOn(line', n) = Copies(line'[e], n) + Copies(line'[Other(e)], n)
    BY <1>5, SumCopies
  <2>2. CopiesOn(line, n) = Copies(line[e], n) + Copies(line[Other(e)], n)
    BY <1>1, SumCopies
  <2>3. CopiesOn(line', n) = CopiesOn(line, n)
    BY <1>4, <1>5, <2>1, <2>2
  <2>4. handled'[n] = handled[n] /\ LeftIn(pending', n) = LeftIn(pending, n)
    BY <1>2
  <2>9. Parts(n) /\ Parts(n)'
    BY <1>1, <1>6, WeightParts
  <2> QED
    BY <2>3, <2>4, <2>9 DEF Parts
<1> QED
  BY <1>2, <1>6, <1>7, Settles

\* A restart forgets the buffer and the slot: what they held is not handled any more.
LEMMA RestartOK == ASSUME Inv, NEW e \in Ends, Restart(e) PROVE Inv'
<1>1. TypeOK /\ line \in [Ends -> Seq(Cells)] /\ pending \in [Ends -> Slots]
        /\ seqCounter \in [Ends -> 0 .. SeqSpace - 1] /\ parser \in [Ends -> {"sof", "mid"}]
        /\ restarts \in [Ends -> Nat]
  BY TypeParts DEF Inv
<1>2. /\ restarts' = [restarts EXCEPT ![e] = @ + 1] /\ seqCounter' = [seqCounter EXCEPT ![e] = 0]
      /\ pending' = [pending EXCEPT ![e] = NoPending] /\ parser' = [parser EXCEPT ![e] = "sof"]
      /\ line' = [line EXCEPT ![e] = <<>>]
      /\ sent' = sent /\ handled' = handled /\ acked' = acked /\ damage' = damage
  BY DEF Restart
<1>3. NoPending \in Slots /\ \A n : Left(NoPending, n) = 0
  BY Bounds DEF NoPending, Slots, Frames, Frame, Kinds, DataKinds, NoFrame, Left
<1>4. <<>> \in Seq(Cells)
  BY EmptySeq
<1>5. /\ line' \in [Ends -> Seq(Cells)] /\ line'[e] = <<>> /\ line'[Other(e)] = line[Other(e)]
      /\ pending' \in [Ends -> Slots] /\ pending'[e] = NoPending
      /\ pending'[Other(e)] = pending[Other(e)]
  BY <1>1, <1>2, <1>3, <1>4, EndsAre
<1>6. seqCounter' \in [Ends -> 0 .. SeqSpace - 1] /\ parser' \in [Ends -> {"sof", "mid"}]
        /\ restarts' \in [Ends -> Nat]
  BY <1>1, <1>2, Bounds
<1>7. TypeOK'
  BY <1>1, <1>2, <1>5, <1>6, TypeParts, TypePartsNext
<1>8. ASSUME NEW n \in 1 .. MaxSends PROVE Weight(n)' <= Weight(n)
  <2>1. CopiesOn(line', n) = Copies(line'[e], n) + Copies(line'[Other(e)], n)
    BY <1>5, SumCopies
  <2>2. CopiesOn(line, n) = Copies(line[e], n) + Copies(line[Other(e)], n)
          /\ Copies(line[e], n) \in Nat /\ Copies(line[Other(e)], n) \in Nat
    BY <1>1, SumCopies
  <2>3. CopiesOn(line', n) <= CopiesOn(line, n)
    BY <1>5, <2>1, <2>2, NoCopies
  <2>4. LeftIn(pending', n) <= LeftIn(pending, n)
    BY <1>1, <1>3, <1>5, SlotFreedLeft
  <2>5. handled'[n] = handled[n]
    BY <1>2
  <2>9. Parts(n) /\ Parts(n)'
    BY <1>1, <1>7, WeightParts
  <2> QED
    BY <2>3, <2>4, <2>5, <2>9 DEF Parts
<1> QED
  BY <1>2, <1>7, <1>8, Settles

LEMMA StutterOK == ASSUME Inv, UNCHANGED vars PROVE Inv'
<1>1. TypeOK /\ pending' = pending /\ line' = line /\ handled' = handled /\ sent' = sent
        /\ seqCounter' = seqCounter /\ parser' = parser /\ acked' = acked /\ damage' = damage
        /\ restarts' = restarts
  BY DEF Inv, vars, linkVars, pastVars
<1>2. TypeOK'
  BY <1>1, TypeParts, TypePartsNext
<1>3. ASSUME NEW n \in 1 .. MaxSends PROVE Weight(n)' <= Weight(n)
  <2>1. Parts(n) /\ Parts(n)'
    BY <1>1, <1>2, WeightParts
  <2>2. handled'[n] = handled[n] /\ CopiesOn(line', n) = CopiesOn(line, n)
          /\ LeftIn(pending', n) = LeftIn(pending, n)
    BY <1>1
  <2> QED
    BY <2>1, <2>2 DEF Parts
<1> QED
  BY <1>1, <1>2, <1>3, Settles

LEMMA NextOK == ASSUME Inv, [Next]_vars PROVE Inv'
<1>1. CASE UNCHANGED vars
  BY <1>1, StutterOK
<1>2. CASE Next
  <2>1. PICK e \in Ends :
          \/ \E k \in DataKinds \cup {"odd"}, a \in BOOLEAN : <<e, k, a>> \in Messages /\ Send(e, k, a)
          \/ Repeat(e) \/ GiveUp(e)
          \/ HandleAuto(e) \/ HandleCmd(e) \/ HandleAck(e)
          \/ HandleError(e) \/ Refuse(e) \/ Swallow(e)
          \/ Damage(e) \/ Restart(e)
    BY <1>2 DEF Next
  <2> QED
    BY <2>1, SendOK, RepeatOK, GiveUpOK, HandleAutoOK, HandleCmdOK, HandleAckOK, HandleErrorOK,
       RefuseOK, SwallowOK, DamageOK, RestartOK
<1> QED
  BY <1>1, <1>2

-----------------------------------------------------------------------------
(* The theorems. *)

\* The count is an inductive invariant of the two bridges: handlings, copies on the lines and
\* tries left in a slot of resendPendingIfNeeded never exceed UART_MAX_RETRIES.
THEOREM UartInvariant == Spec => []Inv
<1>1. Init => Inv
  BY InitOK
<1>2. Inv /\ [Next]_vars => Inv'
  BY NextOK
<1> QED
  BY <1>1, <1>2, PTL DEF Spec

\* The counters of the protocol keep their width and the slot its bound: retries_ stays below
\* UART_MAX_RETRIES.
THEOREM UartTypeOK == Spec => []TypeOK
<1>1. Inv => TypeOK
  BY DEF Inv
<1> QED
  BY <1>1, UartInvariant, PTL

\* However frames, acknowledgements and restarts interleave, a message is passed to a handler
\* UART_MAX_RETRIES times at most, although handleFrame cannot tell a repetition from a new frame.
THEOREM BoundedExecution == Spec => []HandledAtMost
<1>1. Inv => HandledAtMost
  <2> SUFFICES ASSUME Inv, NEW n \in 1 .. MaxSends PROVE handled[n] <= MaxRetries
    BY DEF HandledAtMost
  <2>1. /\ handled \in [1 .. MaxSends -> Nat] /\ line \in [Ends -> Seq(Cells)]
        /\ pending \in [Ends -> Slots]
    BY TypeParts DEF Inv
  <2>2. handled[n] \in Nat /\ CopiesOn(line, n) \in Nat /\ LeftIn(pending, n) \in Nat
    BY <2>1, WeightNat
  <2>3. handled[n] + CopiesOn(line, n) + LeftIn(pending, n) <= MaxRetries
    BY DEF Inv, Counted, Weight
  <2> QED
    BY <2>2, <2>3, Bounds
<1> QED
  BY <1>1, UartInvariant, PTL

-----------------------------------------------------------------------------
(* The sequence byte, and what it says of an acknowledgement.              *)
(*                                                                         *)
(* The byte tells old frames from new ones only while no frame takes a     *)
(* number that an older one still carries.  256 numbers, two small buffers *)
(* and a slot of three tries keep it so; NoReuse states it of the steps    *)
(* that send, and everything below follows from it alone.                  *)

FramesOn(q) == {q[i].f : i \in 1 .. Len(q)}

\* The number s still means an older frame of the end e: in its slot, in an acknowledgement on
\* its way to it, or in a message on its way from it.
Carried(e, s) ==
  \/ pending[e].active /\ pending[e].frame.seq = s
  \/ \E f \in FramesOn(line[e]) : f.kind = "ack" /\ f.of = s
  \/ \E f \in FramesOn(line[Other(e)]) : f.kind \in DataKinds /\ f.seq = s

Sends(e) == \E k \in DataKinds \cup {"odd"}, a \in BOOLEAN : Send(e, k, a)

NoReuse == \A e \in Ends : Sends(e) /\ restarts[e] = 0 => ~Carried(e, seqCounter[e])

\* A message on a line, in a slot or acknowledged is one that a product can have sent.
Named ==
  /\ \A e \in Ends : \A f \in FramesOn(line[e]) : f.kind \in DataKinds => f.name \in 1 .. MaxSends
  /\ \A e \in Ends : pending[e].active =>
       pending[e].frame.name \in 1 .. MaxSends /\ pending[e].frame.kind \in DataKinds \cup {"odd"}
  /\ \A e \in Ends : acked[e] \subseteq 1 .. MaxSends

\* An acknowledgement with the number that the slot holds is for the message in the slot, and
\* a message on its way with that number is that message.
Honest(e) ==
  pending[e].active =>
    /\ \A f \in FramesOn(line[e]) :
         f.kind = "ack" /\ f.of = pending[e].frame.seq => handled[pending[e].frame.name] > 0
    /\ \A f \in FramesOn(line[Other(e)]) :
         f.kind \in DataKinds /\ f.seq = pending[e].frame.seq => f.name = pending[e].frame.name

AckInv == Named /\ (\A e \in Ends : restarts[e] = 0 => Honest(e)) /\ AckMeansHandled

LEMMA FramesOfTail ==
  ASSUME NEW q \in Seq(Cells), q # <<>>
  PROVE  FramesOn(Tail(q)) \subseteq FramesOn(q) /\ Head(q).f \in FramesOn(q)
<1>1. /\ Len(Tail(q)) = Len(q) - 1 /\ Len(q) \in Nat /\ Len(q) > 0
      /\ \A i \in 1 .. Len(Tail(q)) : Tail(q)[i] = q[i + 1]
      /\ Head(q) = q[1]
  <2> HIDE DEF Cells
  <2> QED
    BY HeadTailProperties, LenProperties, EmptySeq
<1>2. 1 \in 1 .. Len(q)
  BY <1>1
<1>3. ASSUME NEW i \in 1 .. Len(Tail(q)) PROVE Tail(q)[i].f \in FramesOn(q)
  <2>1. i + 1 \in 1 .. Len(q) /\ Tail(q)[i] = q[i + 1]
    BY <1>1
  <2> QED
    BY <2>1 DEF FramesOn
<1> QED
  BY <1>1, <1>2, <1>3 DEF FramesOn

LEMMA FramesOfJoined ==
  ASSUME NEW q \in Seq(Cells), NEW f \in Frames, NEW w \in BOOLEAN
  PROVE  FramesOn(Joined(q, f, w)) \subseteq FramesOn(q) \cup {f}
<1> DEFINE c == [f |-> f, whole |-> w]
<1>1. c \in Cells /\ c.f = f
  BY DEF Cells
<1> HIDE DEF c
<1>2. /\ Len(Append(q, c)) = Len(q) + 1 /\ Len(q) \in Nat
      /\ \A i \in 1 .. Len(q) : Append(q, c)[i] = q[i]
      /\ Append(q, c)[Len(q) + 1] = c
  <2> HIDE DEF Cells
  <2> QED
    BY <1>1, AppendProperties, LenProperties
<1>3. ASSUME NEW i \in 1 .. Len(Append(q, c)) PROVE Append(q, c)[i].f \in FramesOn(q) \cup {f}
  <2>1. CASE i \in 1 .. Len(q)
    BY <1>2, <2>1 DEF FramesOn
  <2>2. CASE i = Len(q) + 1
    BY <1>1, <1>2, <2>2
  <2> QED
    BY <1>2, <2>1, <2>2
<1>4. FramesOn(Append(q, c)) \subseteq FramesOn(q) \cup {f}
  BY <1>3 DEF FramesOn
<1>5. Joined(q, f, w) \in {q, Append(q, c)}
  BY DEF Joined, c
<1> QED
  BY <1>4, <1>5

LEMMA FramesOfDamaged ==
  ASSUME NEW q \in Seq(Cells), q # <<>>, NEW r, r = [q EXCEPT ![1].whole = FALSE]
  PROVE  FramesOn(r) = FramesOn(q)
<1>1. Len(q) \in Nat /\ Len(q) > 0 /\ q \in [1 .. Len(q) -> Cells]
  BY LenProperties, EmptySeq
<1>2. r = [q EXCEPT ![1] = [q[1] EXCEPT !.whole = FALSE]]
  BY <1>1
<1>3. q[1] \in Cells
  BY <1>1
<1>4. [q[1] EXCEPT !.whole = FALSE] \in Cells /\ [q[1] EXCEPT !.whole = FALSE].f = q[1].f
  BY <1>3 DEF Cells
<1>5. Len(r) = Len(q) /\ \A i \in 1 .. Len(q) : r[i].f = q[i].f
  <2> HIDE DEF Cells
  <2>1. Len(r) = Len(q)
    BY <1>1, <1>2, <1>4, ExceptSeq
  <2>2. \A i \in 1 .. Len(q) : r[i].f = q[i].f
    BY <1>1, <1>2, <1>4
  <2> QED
    BY <2>1, <2>2
<1> QED
  BY <1>5 DEF FramesOn

\* What a frame off the own line and an answer to it leave on the lines.
LEMMA FramesLeft ==
  ASSUME TypeOK, NEW e \in Ends, line[e] # <<>>, NEW f \in Frames, TakesOnly(e) \/ Answers(e, f)
  PROVE  /\ FramesOn(line'[e]) \subseteq FramesOn(line[e])
         /\ FramesOn(line'[Other(e)]) \subseteq FramesOn(line[Other(e)]) \cup {f}
         /\ Got(e) \in FramesOn(line[e])
<1>1. line \in [Ends -> Seq(Cells)] /\ line[e] \in Seq(Cells) /\ line[Other(e)] \in Seq(Cells)
        /\ Other(e) \in Ends /\ Other(e) # e
  BY TypeParts, EndsAre
<1>2. FramesOn(Tail(line[e])) \subseteq FramesOn(line[e]) /\ Got(e) \in FramesOn(line[e])
  BY <1>1, FramesOfTail DEF Got
<1>3. CASE TakesOnly(e)
  <2>1. line'[e] = Tail(line[e]) /\ line'[Other(e)] = line[Other(e)]
    BY <1>1, <1>3 DEF TakesOnly
  <2> QED
    BY <1>2, <2>1
<1>4. CASE Answers(e, f)
  <2>1. line'[e] = Tail(line[e]) /\ line'[Other(e)] = Joined(line[Other(e)], f, TRUE)
    BY <1>1, <1>4 DEF Answers
  <2>2. FramesOn(Joined(line[Other(e)], f, TRUE)) \subseteq FramesOn(line[Other(e)]) \cup {f}
    BY <1>1, FramesOfJoined
  <2> QED
    BY <1>2, <2>1, <2>2
<1> QED
  BY <1>3, <1>4

LEMMA FramesSent ==
  ASSUME TypeOK, NEW e \in Ends, NEW f \in Frames, NEW w \in BOOLEAN,
         line' = [line EXCEPT ![Other(e)] = Joined(@, f, w)]
  PROVE  /\ line'[e] = line[e]
         /\ FramesOn(line'[Other(e)]) \subseteq FramesOn(line[Other(e)]) \cup {f}
<1>1. line \in [Ends -> Seq(Cells)] /\ line[Other(e)] \in Seq(Cells)
        /\ Other(e) \in Ends /\ Other(e) # e
  BY TypeParts, EndsAre
<1>2. line'[e] = line[e] /\ line'[Other(e)] = Joined(line[Other(e)], f, w)
  BY <1>1
<1> QED
  BY <1>1, <1>2, FramesOfJoined

\* A slot that a step does not fill anew keeps its message.
SlotKept(x) == pending[x].active' => pending[x].active /\ pending[x].frame' = pending[x].frame

\* What may appear on the line to x in a step that sends no new message: an Error, a repetition
\* of what the slot of the other end holds, and an acknowledgement that is honest.
MayAppear(x, f) ==
  \/ f \in FramesOn(line[x])
  \/ f.kind = "err"
  \/ pending[Other(x)].active /\ f = pending[Other(x)].frame
  \/ /\ f.kind = "ack"
     /\ restarts[x] = 0 /\ pending[x].active /\ f.of = pending[x].frame.seq
          => (handled[pending[x].frame.name])' > 0

LEMMA OtherOther == ASSUME NEW e \in Ends PROVE Other(e) \in Ends /\ Other(Other(e)) = e
BY EndsAre

\* A step that fills no slot anew keeps what the sequence byte means.
LEMMA Keeps ==
  ASSUME AckInv, TypeOK, TypeOK',
         \A x \in Ends : SlotKept(x),
         \A x \in Ends : \A f \in FramesOn(line'[x]) : MayAppear(x, f),
         \A n \in 1 .. MaxSends : handled[n] <= handled'[n],
         \A x \in Ends : restarts'[x] = 0 => restarts[x] = 0,
         \A x \in Ends : \A n \in acked'[x] :
           n \in acked[x] \/ (n \in 1 .. MaxSends /\ (restarts[x] = 0 => handled[n] > 0))
  PROVE  AckInv'
<1>1. handled \in [1 .. MaxSends -> Nat] /\ handled' \in [1 .. MaxSends -> Nat]
  BY TypeParts, TypePartsNext
<1>2. ASSUME NEW n \in 1 .. MaxSends, handled[n] > 0 PROVE handled'[n] > 0
  <2>1. handled[n] \in Nat /\ handled'[n] \in Nat /\ handled[n] <= handled'[n]
    BY <1>1
  <2> QED
    BY <1>2, <2>1
<1>3. Named'
  <2>1. ASSUME NEW x \in Ends, NEW f \in FramesOn(line'[x]), f.kind \in DataKinds
        PROVE  f.name \in 1 .. MaxSends
    <3>1. f \in FramesOn(line[x]) \/ (pending[Other(x)].active /\ f = pending[Other(x)].frame)
      BY <2>1 DEF MayAppear, DataKinds
    <3> QED
      BY <2>1, <3>1, OtherOther DEF AckInv, Named
  <2>2. ASSUME NEW x \in Ends, pending'[x].active
        PROVE  /\ pending'[x].frame.name \in 1 .. MaxSends
               /\ pending'[x].frame.kind \in DataKinds \cup {"odd"}
    BY <2>2 DEF SlotKept, AckInv, Named
  <2>3. ASSUME NEW x \in Ends, NEW n \in acked'[x] PROVE n \in 1 .. MaxSends
    BY DEF AckInv, Named
  <2> QED
    BY <2>1, <2>2, <2>3 DEF Named
<1>4. ASSUME NEW x \in Ends, restarts'[x] = 0, pending'[x].active
      PROVE  Honest(x)'
  <2>1. /\ restarts[x] = 0 /\ pending[x].active /\ pending'[x].frame = pending[x].frame
        /\ pending[x].frame.name \in 1 .. MaxSends /\ Honest(x)
    BY <1>4 DEF SlotKept, AckInv, Named
  <2>2. ASSUME NEW f \in FramesOn(line'[x]), f.kind = "ack", f.of = pending[x].frame.seq
        PROVE  handled'[pending[x].frame.name] > 0
    <3>1. MayAppear(x, f)
      OBVIOUS
    <3>2. CASE f \in FramesOn(line[x])
      BY <1>2, <1>4, <2>1, <2>2, <3>2 DEF Honest
    <3>3. ~(pending[Other(x)].active /\ f = pending[Other(x)].frame)
      BY <2>2, OtherOther DEF AckInv, Named, DataKinds
    <3> QED
      BY <2>1, <2>2, <3>1, <3>2, <3>3 DEF MayAppear
  <2>3. ASSUME NEW f \in FramesOn(line'[Other(x)]), f.kind \in DataKinds,
               f.seq = pending[x].frame.seq
        PROVE  f.name = pending[x].frame.name
    <3>1. MayAppear(Other(x), f) /\ Other(Other(x)) = x
      BY OtherOther
    <3>2. f \in FramesOn(line[Other(x)]) \/ f = pending[x].frame
      BY <2>3, <3>1 DEF MayAppear, DataKinds
    <3> QED
      BY <1>4, <2>1, <2>3, <3>2 DEF Honest
  <2> QED
    BY <2>1, <2>2, <2>3 DEF Honest
<1>5. AckMeansHandled'
  <2>1. ASSUME NEW x \in Ends, restarts'[x] = 0, NEW n \in acked'[x] PROVE handled'[n] > 0
    <3>1. n \in 1 .. MaxSends /\ handled[n] > 0
      BY <2>1 DEF AckInv, Named, AckMeansHandled
    <3> QED
      BY <1>2, <3>1
  <2> QED
    BY <2>1 DEF AckMeansHandled
<1>6. \A x \in Ends : restarts'[x] = 0 => Honest(x)'
  BY <1>4 DEF Honest
<1> QED
  BY <1>3, <1>5, <1>6 DEF AckInv

\* Lines on which nothing but Errors appears.
OnlyErrors ==
  \A x \in Ends : \A f \in FramesOn(line'[x]) : f \in FramesOn(line[x]) \/ f.kind = "err"

LEMMA ErrorsOnly ==
  ASSUME TypeOK, NEW e \in Ends, line[e] # <<>>, TakesOnly(e) \/ Answers(e, ErrFrame)
  PROVE  OnlyErrors
<1>1. ErrFrame \in Frames /\ ErrFrame.kind = "err"
  BY OwnFrames DEF ErrFrame, Frame
<1>2. /\ FramesOn(line'[e]) \subseteq FramesOn(line[e])
      /\ FramesOn(line'[Other(e)]) \subseteq FramesOn(line[Other(e)]) \cup {ErrFrame}
  BY <1>1, FramesLeft
<1>3. ASSUME NEW x \in Ends, NEW f \in FramesOn(line'[x])
      PROVE  f \in FramesOn(line[x]) \/ f.kind = "err"
  <2>1. x = e \/ x = Other(e)
    BY EndsAre
  <2>2. CASE x = e
    BY <1>2, <2>2
  <2>3. CASE x = Other(e)
    BY <1>1, <1>2, <2>3
  <2> QED
    BY <2>1, <2>2, <2>3
<1> QED
  BY <1>3 DEF OnlyErrors

\* A step that only adds Errors to the lines and leaves the slots and the past alone.
LEMMA QuietKeeps ==
  ASSUME AckInv, TypeOK, TypeOK', OnlyErrors, UNCHANGED <<pending, pastVars>>
  PROVE  AckInv'
<1>1. /\ pending' = pending /\ handled' = handled /\ acked' = acked /\ restarts' = restarts
      /\ handled \in [1 .. MaxSends -> Nat]
  BY TypeParts DEF pastVars
<1>2. \A n \in 1 .. MaxSends : handled[n] <= handled'[n]
  BY <1>1
<1>3. \A x \in Ends : SlotKept(x)
  BY <1>1 DEF SlotKept
<1>4. \A x \in Ends : \A f \in FramesOn(line'[x]) : MayAppear(x, f)
  BY DEF MayAppear, OnlyErrors
<1> QED
  BY <1>1, <1>2, <1>3, <1>4, Keeps

LEMMA HandleAckKeeps ==
  ASSUME AckInv, TypeOK, TypeOK', NEW e \in Ends, HandleAck(e) PROVE AckInv'
<1>1. /\ handled' = handled /\ restarts' = restarts /\ line[e] # <<>> /\ TakesOnly(e)
      /\ handled \in [1 .. MaxSends -> Nat] /\ pending \in [Ends -> Slots]
      /\ acked \in [Ends -> SUBSET Names]
  BY TypeParts DEF HandleAck, Arrived
<1>2. OnlyErrors /\ Got(e) \in FramesOn(line[e])
  BY <1>1, ErrorsOnly, FramesLeft, OwnFrames
<1>3. \A x \in Ends : \A f \in FramesOn(line'[x]) : MayAppear(x, f)
  BY <1>2 DEF MayAppear, OnlyErrors
<1>4. \A n \in 1 .. MaxSends : handled[n] <= handled'[n]
  BY <1>1
<1>5. CASE Matches(e, Got(e))
  <2>1. /\ pending' = [pending EXCEPT ![e].active = FALSE]
        /\ acked' = [acked EXCEPT ![e] = @ \cup {pending[e].frame.name}]
    BY <1>5 DEF HandleAck
  <2>2. \A x \in Ends : SlotKept(x)
    BY <1>1, <2>1 DEF SlotKept, Slots
  <2>3. /\ pending[e].frame.name \in 1 .. MaxSends
        /\ restarts[e] = 0 => handled[pending[e].frame.name] > 0
    BY <1>2, <1>5 DEF AckInv, Named, Honest, Matches, HandleAck
  <2>4. ASSUME NEW x \in Ends, NEW n \in acked'[x]
        PROVE  n \in acked[x] \/ (n \in 1 .. MaxSends /\ (restarts[x] = 0 => handled[n] > 0))
    <3>1. CASE x = e
      BY <1>1, <2>1, <2>3, <3>1
    <3>2. CASE x # e
      BY <1>1, <2>1, <3>2
    <3> QED
      BY <3>1, <3>2
  <2> QED
    BY <1>1, <1>3, <1>4, <2>2, <2>4, Keeps
<1>6. CASE ~Matches(e, Got(e))
  <2>1. pending' = pending /\ acked' = acked
    BY <1>6 DEF HandleAck
  <2>2. \A x \in Ends : SlotKept(x)
    BY <2>1 DEF SlotKept
  <2> QED
    BY <1>1, <1>3, <1>4, <2>1, <2>2, Keeps
<1> QED
  BY <1>5, <1>6

\* A message is handled before it is acknowledged: if its number is that of the slot of the
\* sender, it is the message in the slot, and it has just been handled.
LEMMA HandledKeeps ==
  ASSUME AckInv, TypeOK, TypeOK', NEW e \in Ends, line[e] # <<>>, Got(e).kind \in DataKinds,
         Handling(e), TakesOnly(e) \/ Answers(e, AckFrame(Got(e).seq)),
         UNCHANGED <<pending, acked, restarts>>
  PROVE  AckInv'
<1> DEFINE g == AckFrame(Got(e).seq)
<1>1. handled \in [1 .. MaxSends -> Nat] /\ handled' \in [1 .. MaxSends -> Nat]
        /\ line \in [Ends -> Seq(Cells)]
  BY TypeParts, TypePartsNext
<1>2. Got(e) \in Frames
  <2>1. Head(line[e]) \in Cells
    BY <1>1, TakenOff
  <2> QED
    BY <2>1 DEF Got, Cells
<1>3. g \in Frames /\ g.kind = "ack" /\ g.of = Got(e).seq
  BY <1>2, OwnFrames DEF Frames, AckFrame, Frame
<1> HIDE DEF g
<1>4. TakesOnly(e) \/ Answers(e, g)
  BY DEF g
<1>5. /\ FramesOn(line'[e]) \subseteq FramesOn(line[e])
      /\ FramesOn(line'[Other(e)]) \subseteq FramesOn(line[Other(e)]) \cup {g}
      /\ Got(e) \in FramesOn(line[e])
  BY <1>3, <1>4, FramesLeft
<1>6. Got(e).name \in 1 .. MaxSends
  BY <1>5 DEF AckInv, Named
<1>7. \A n \in 1 .. MaxSends : handled[n] <= handled'[n]
  BY <1>1 DEF Handling
<1>8. handled'[Got(e).name] > 0
  <2>1. handled'[Got(e).name] = handled[Got(e).name] + 1 /\ handled[Got(e).name] \in Nat
    BY <1>1, <1>6 DEF Handling
  <2> QED
    BY <2>1
<1>9. MayAppear(Other(e), g)
  <2>1. ASSUME restarts[Other(e)] = 0, pending[Other(e)].active,
               g.of = pending[Other(e)].frame.seq
        PROVE  handled'[pending[Other(e)].frame.name] > 0
    <3>1. Honest(Other(e)) /\ Other(Other(e)) = e
      BY <2>1, OtherOther DEF AckInv
    <3>2. Got(e).name = pending[Other(e)].frame.name
      BY <1>3, <1>5, <2>1, <3>1 DEF Honest
    <3> QED
      BY <1>8, <3>2
  <2> QED
    BY <1>3, <2>1 DEF MayAppear
<1>10. \A x \in Ends : \A f \in FramesOn(line'[x]) : MayAppear(x, f)
  <2>1. ASSUME NEW f \in FramesOn(line'[e]) PROVE MayAppear(e, f)
    BY <1>5 DEF MayAppear
  <2>2. ASSUME NEW f \in FramesOn(line'[Other(e)]) PROVE MayAppear(Other(e), f)
    <3>1. CASE f \in FramesOn(line[Other(e)])
      BY <3>1 DEF MayAppear
    <3>2. CASE f = g
      BY <1>9, <3>2
    <3> QED
      BY <1>5, <3>1, <3>2
  <2> QED
    BY <2>1, <2>2, EndsAre
<1>11. \A x \in Ends : SlotKept(x)
  BY DEF SlotKept
<1> QED
  BY <1>7, <1>10, <1>11, Keeps

LEMMA GiveUpKeeps == ASSUME AckInv, TypeOK, TypeOK', NEW e \in Ends, GiveUp(e) PROVE AckInv'
<1>1. /\ handled' = handled /\ acked' = acked /\ restarts' = restarts
      /\ pending' = [pending EXCEPT ![e].active = FALSE]
      /\ line' = [line EXCEPT ![Other(e)] = Joined(@, ErrFrame, TRUE)]
      /\ handled \in [1 .. MaxSends -> Nat] /\ pending \in [Ends -> Slots]
  BY TypeParts DEF GiveUp, Transmits
<1>2. ErrFrame \in Frames /\ ErrFrame.kind = "err"
  BY OwnFrames DEF ErrFrame, Frame
<1>3. /\ line'[e] = line[e]
      /\ FramesOn(line'[Other(e)]) \subseteq FramesOn(line[Other(e)]) \cup {ErrFrame}
  BY <1>1, <1>2, FramesSent
<1>4. \A x \in Ends : \A f \in FramesOn(line'[x]) : MayAppear(x, f)
  BY <1>2, <1>3, EndsAre DEF MayAppear
<1>5. \A x \in Ends : SlotKept(x)
  BY <1>1 DEF SlotKept, Slots
<1>6. \A n \in 1 .. MaxSends : handled[n] <= handled'[n]
  BY <1>1
<1> QED
  BY <1>1, <1>4, <1>5, <1>6, Keeps

LEMMA RepeatKeeps == ASSUME AckInv, TypeOK, TypeOK', NEW e \in Ends, Repeat(e) PROVE AckInv'
<1> DEFINE g == pending[e].frame
<1>1. /\ handled' = handled /\ acked' = acked /\ restarts' = restarts
      /\ pending[e].active /\ pending' = [pending EXCEPT ![e].retries = @ + 1]
      /\ line' = [line EXCEPT ![Other(e)] = Joined(@, g, TRUE)]
      /\ handled \in [1 .. MaxSends -> Nat] /\ pending \in [Ends -> Slots]
  BY TypeParts DEF Repeat, pastVars
<1>2. g \in Frames
  BY <1>1 DEF Slots
<1>3. /\ line'[e] = line[e]
      /\ FramesOn(line'[Other(e)]) \subseteq FramesOn(line[Other(e)]) \cup {g}
  BY <1>1, <1>2, FramesSent
<1>4. MayAppear(Other(e), g)
  BY <1>1, OtherOther DEF MayAppear
<1> HIDE DEF g
<1>5. \A x \in Ends : \A f \in FramesOn(line'[x]) : MayAppear(x, f)
  <2>1. ASSUME NEW f \in FramesOn(line'[e]) PROVE MayAppear(e, f)
    BY <1>3 DEF MayAppear
  <2>2. ASSUME NEW f \in FramesOn(line'[Other(e)]) PROVE MayAppear(Other(e), f)
    <3>1. CASE f \in FramesOn(line[Other(e)])
      BY <3>1 DEF MayAppear
    <3>2. CASE f = g
      BY <1>4, <3>2
    <3> QED
      BY <1>3, <3>1, <3>2
  <2> QED
    BY <2>1, <2>2, EndsAre
<1>6. \A x \in Ends : SlotKept(x)
  BY <1>1 DEF SlotKept, Slots
<1>7. \A n \in 1 .. MaxSends : handled[n] <= handled'[n]
  BY <1>1
<1> QED
  BY <1>1, <1>5, <1>6, <1>7, Keeps

LEMMA DamageKeeps == ASSUME AckInv, TypeOK, TypeOK', NEW e \in Ends, Damage(e) PROVE AckInv'
<1>1. line \in [Ends -> Seq(Cells)] /\ line[e] # <<>> /\ UNCHANGED <<pending, pastVars>>
        /\ line' = [line EXCEPT ![e][1].whole = FALSE]
  BY TypeParts DEF Damage
<1> DEFINE r == [line[e] EXCEPT ![1].whole = FALSE]
<1>2. FramesOn(r) = FramesOn(line[e])
  BY <1>1, FramesOfDamaged
<1>3. line' = [line EXCEPT ![e] = r]
  BY <1>1
<1> HIDE DEF r
<1>4. line'[e] = r /\ line'[Other(e)] = line[Other(e)]
  BY <1>1, <1>3, EndsAre
<1>5. OnlyErrors
  BY <1>2, <1>4, EndsAre DEF OnlyErrors
<1> QED
  BY <1>1, <1>5, QuietKeeps

LEMMA RestartKeeps == ASSUME AckInv, TypeOK, TypeOK', NEW e \in Ends, Restart(e) PROVE AckInv'
<1>1. /\ handled' = handled /\ acked' = acked /\ restarts' = [restarts EXCEPT ![e] = @ + 1]
      /\ pending' = [pending EXCEPT ![e] = NoPending] /\ line' = [line EXCEPT ![e] = <<>>]
      /\ handled \in [1 .. MaxSends -> Nat] /\ pending \in [Ends -> Slots]
      /\ line \in [Ends -> Seq(Cells)] /\ restarts \in [Ends -> Nat]
  BY TypeParts DEF Restart
<1>2. FramesOn(<<>>) = {}
  BY DEF FramesOn
<1>3. \A x \in Ends : \A f \in FramesOn(line'[x]) : MayAppear(x, f)
  BY <1>1, <1>2 DEF MayAppear
<1>4. \A x \in Ends : SlotKept(x)
  BY <1>1 DEF SlotKept, NoPending
<1>5. \A n \in 1 .. MaxSends : handled[n] <= handled'[n]
  <2>1. handled' = handled /\ handled \in [1 .. MaxSends -> Nat]
    BY <1>1
  <2>2. ASSUME NEW n \in 1 .. MaxSends PROVE handled[n] \in Nat /\ handled'[n] = handled[n]
    BY <2>1
  <2>3. ASSUME NEW n \in 1 .. MaxSends PROVE handled[n] <= handled'[n]
    BY <2>2
  <2> QED
    BY <2>3
<1>6. \A x \in Ends : restarts'[x] = 0 => restarts[x] = 0
  BY <1>1
<1>7. \A x \in Ends : \A n \in acked'[x] :
        n \in acked[x] \/ (n \in 1 .. MaxSends /\ (restarts[x] = 0 => handled[n] > 0))
  BY <1>1
<1> QED
  BY <1>3, <1>4, <1>5, <1>6, <1>7, Keeps

\* A new message takes a number that nothing carries: what is on the lines and in the slot with
\* that number afterwards is the message itself.
LEMMA SendKeeps ==
  ASSUME AckInv, TypeOK, TypeOK', NoReuse, NEW e \in Ends, NEW k \in DataKinds \cup {"odd"},
         NEW a \in BOOLEAN, Send(e, k, a)
  PROVE  AckInv'
<1> DEFINE f == Frame(k, a, seqCounter[e], sent + 1, 0)
<1>1. /\ pending \in [Ends -> Slots] /\ seqCounter \in [Ends -> 0 .. SeqSpace - 1]
      /\ sent \in Names /\ handled \in [1 .. MaxSends -> Nat] /\ line \in [Ends -> Seq(Cells)]
  BY TypeParts
<1>2. /\ sent < MaxSends /\ handled' = handled /\ acked' = acked /\ restarts' = restarts
      /\ \E w \in BOOLEAN : line' = [line EXCEPT ![Other(e)] = Joined(@, f, w)]
      /\ pending' = [pending EXCEPT ![e] = PendingAfter(e, f)] \/ pending' = pending
  BY DEF Send, Transmits
<1>3. sent + 1 \in 1 .. MaxSends /\ sent + 1 \in Names
  BY <1>1, <1>2, Bounds DEF Names
<1>4. f \in Frames /\ f.name = sent + 1 /\ f.kind = k /\ f.seq = seqCounter[e]
  <2>1. seqCounter[e] \in 0 .. SeqSpace - 1
    BY <1>1
  <2> QED
    BY <1>3, <2>1, Bounds DEF Frame, Frames, Kinds
<1>5. restarts[e] = 0 => ~Carried(e, f.seq)
  BY <1>4 DEF NoReuse, Sends
<1> HIDE DEF f
<1>6. /\ line'[e] = line[e]
      /\ FramesOn(line'[Other(e)]) \subseteq FramesOn(line[Other(e)]) \cup {f}
  BY <1>2, <1>4, FramesSent
<1>7. /\ pending'[Other(e)] = pending[Other(e)]
      /\ pending'[e] = pending[e] \/ (pending'[e].active /\ pending'[e].frame = f)
  <2>1. PendingAfter(e, f) = pending[e]
          \/ (PendingAfter(e, f).active /\ PendingAfter(e, f).frame = f)
    BY DEF PendingAfter
  <2> QED
    BY <1>1, <1>2, <2>1, EndsAre
<1>8. Named'
  <2>1. ASSUME NEW x \in Ends, NEW g \in FramesOn(line'[x]), g.kind \in DataKinds
        PROVE  g.name \in 1 .. MaxSends
    <3>1. g \in FramesOn(line[x]) \/ g = f
      BY <1>6, EndsAre
    <3> QED
      BY <1>3, <1>4, <2>1, <3>1 DEF AckInv, Named
  <2>2. ASSUME NEW x \in Ends, pending'[x].active
        PROVE  /\ pending'[x].frame.name \in 1 .. MaxSends
               /\ pending'[x].frame.kind \in DataKinds \cup {"odd"}
    <3>1. pending'[x] = pending[x] \/ pending'[x].frame = f
      BY <1>7, EndsAre
    <3> QED
      BY <1>3, <1>4, <2>2, <3>1 DEF AckInv, Named
  <2>3. \A x \in Ends : acked'[x] \subseteq 1 .. MaxSends
    BY <1>2 DEF AckInv, Named
  <2> QED
    BY <2>1, <2>2, <2>3 DEF Named
<1>9. ASSUME restarts'[e] = 0, pending'[e].active PROVE Honest(e)'
  <2>1. ~Carried(e, f.seq) /\ Honest(e)
    BY <1>2, <1>5, <1>9 DEF AckInv
  <2>2. CASE pending'[e] = pending[e]
    <3>1. pending[e].active /\ pending[e].frame.seq # f.seq
      BY <1>9, <2>1, <2>2 DEF Carried
    <3>2. ASSUME NEW g \in FramesOn(line'[e]), g.kind = "ack", g.of = pending[e].frame.seq
          PROVE  handled'[pending[e].frame.name] > 0
      BY <1>2, <1>6, <2>1, <3>1, <3>2 DEF Honest
    <3>3. ASSUME NEW g \in FramesOn(line'[Other(e)]), g.kind \in DataKinds,
                 g.seq = pending[e].frame.seq
          PROVE  g.name = pending[e].frame.name
      BY <1>6, <2>1, <3>1, <3>3 DEF Honest
    <3> QED
      BY <2>2, <3>2, <3>3 DEF Honest
  <2>3. CASE pending'[e].frame = f
    <3>1. ASSUME NEW g \in FramesOn(line'[e]), g.kind = "ack", g.of = f.seq PROVE FALSE
      BY <1>6, <2>1, <3>1 DEF Carried
    <3>2. ASSUME NEW g \in FramesOn(line'[Other(e)]), g.kind \in DataKinds, g.seq = f.seq
          PROVE  g.name = f.name
      BY <1>6, <2>1, <3>2 DEF Carried
    <3> QED
      BY <2>3, <3>1, <3>2 DEF Honest
  <2> QED
    BY <1>7, <2>2, <2>3
<1>10. ASSUME restarts'[Other(e)] = 0, pending'[Other(e)].active PROVE Honest(Other(e))'
  <2>1. Other(e) \in Ends /\ Other(Other(e)) = e
    BY OtherOther
  <2>2. Honest(Other(e)) /\ pending[Other(e)].active
    BY <1>2, <1>7, <1>10, <2>1 DEF AckInv
  <2>3. ASSUME NEW g \in FramesOn(line'[Other(e)]), g.kind = "ack",
               g.of = pending[Other(e)].frame.seq
        PROVE  handled'[pending[Other(e)].frame.name] > 0
    <3>1. g # f
      BY <1>4, <2>3 DEF DataKinds
    <3> QED
      BY <1>2, <1>6, <2>2, <2>3, <3>1 DEF Honest
  <2>4. ASSUME NEW g \in FramesOn(line'[e]), g.kind \in DataKinds,
               g.seq = pending[Other(e)].frame.seq
        PROVE  g.name = pending[Other(e)].frame.name
    BY <1>6, <2>1, <2>2, <2>4 DEF Honest
  <2> QED
    BY <1>7, <2>1, <2>3, <2>4 DEF Honest
<1>11. \A x \in Ends : restarts'[x] = 0 => Honest(x)'
  <2>1. ASSUME NEW x \in Ends, restarts'[x] = 0 PROVE Honest(x)'
    <3>1. CASE pending'[x].active
      BY <1>9, <1>10, <2>1, <3>1, EndsAre
    <3>2. CASE ~pending'[x].active
      BY <3>2 DEF Honest
    <3> QED
      BY <3>1, <3>2
  <2> QED
    BY <2>1
<1>12. AckMeansHandled'
  BY <1>2 DEF AckInv, AckMeansHandled
<1> QED
  BY <1>8, <1>11, <1>12 DEF AckInv

LEMMA NextKeeps ==
  ASSUME AckInv, TypeOK, TypeOK', [Next]_vars, [NoReuse]_vars PROVE AckInv'
<1>1. CASE UNCHANGED vars
  BY <1>1 DEF AckInv, Named, Honest, AckMeansHandled, FramesOn, vars, linkVars, pastVars
<1>2. CASE Next /\ NoReuse
  <2>1. PICK e \in Ends :
          \/ \E k \in DataKinds \cup {"odd"}, a \in BOOLEAN : <<e, k, a>> \in Messages /\ Send(e, k, a)
          \/ Repeat(e) \/ GiveUp(e)
          \/ HandleAuto(e) \/ HandleCmd(e) \/ HandleAck(e)
          \/ HandleError(e) \/ Refuse(e) \/ Swallow(e)
          \/ Damage(e) \/ Restart(e)
    BY <1>2 DEF Next
  <2>2. CASE HandleAuto(e) \/ HandleCmd(e)
    <3>1. /\ line[e] # <<>> /\ Got(e).kind \in DataKinds /\ Handling(e)
          /\ TakesOnly(e) \/ Answers(e, AckFrame(Got(e).seq))
          /\ UNCHANGED <<pending, acked, restarts>>
      BY <2>2 DEF HandleAuto, HandleCmd, Arrived, DataKinds
    <3> QED
      BY <3>1, HandledKeeps
  <2>3. CASE HandleError(e) \/ Refuse(e) \/ Swallow(e)
    <3>1. /\ line[e] # <<>>
          /\ TakesOnly(e) \/ Answers(e, ErrFrame)
          /\ UNCHANGED <<pending, pastVars>>
      BY <2>3 DEF HandleError, Refuse, Swallow, Arrived
    <3> QED
      BY <3>1, ErrorsOnly, QuietKeeps
  <2> QED
    BY <1>2, <2>1, <2>2, <2>3, SendKeeps, RepeatKeeps, GiveUpKeeps, HandleAckKeeps, DamageKeeps,
       RestartKeeps
<1> QED
  BY <1>1, <1>2

LEMMA InitKeeps == Init => AckInv
<1> SUFFICES ASSUME Init PROVE AckInv
  OBVIOUS
<1>1. \A x \in Ends : ~pending[x].active /\ acked[x] = {} /\ FramesOn(line[x]) = {}
  BY DEF Init, NoPending, FramesOn
<1> QED
  BY <1>1, OtherOther DEF AckInv, Named, Honest, AckMeansHandled

\* As long as no message takes a sequence number that an older frame of its sender still
\* carries, handleAckFrame is right although it compares nothing but that number: a frame it
\* takes for acknowledged has been handled by the other end, whatever is lost, damaged,
\* repeated or restarted on the way.
THEOREM NumbersTellFrames == Spec /\ [][NoReuse]_vars => []AckMeansHandled
<1>1. Init => AckInv
  BY InitKeeps
<1>2. AckInv /\ TypeOK /\ TypeOK' /\ [Next]_vars /\ [NoReuse]_vars => AckInv'
  BY NextKeeps
<1>3. AckInv => AckMeansHandled
  BY DEF AckInv
<1> QED
  BY <1>1, <1>2, <1>3, UartTypeOK, PTL DEF Spec
=============================================================================
