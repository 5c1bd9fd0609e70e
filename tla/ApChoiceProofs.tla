--------------------------- MODULE ApChoiceProofs ---------------------------
(***************************************************************************)
(* Proofs about ApChoice, for every set of access points, length of the    *)
(* list of bans and length of a ban.                                       *)
(*                                                                         *)
(* The invariant behind the choice: the ban of the point given up last is  *)
(* in the list for as long as it holds.  A new ban may drop any other one, *)
(* also one that holds, but never that of the point just given up, and     *)
(* the scan drops all of them or none.                                     *)
(***************************************************************************)
EXTENDS ApChoice, Integers, TLAPS, WellFoundedInduction

Points == Aps \cup {NoAp}
BanSet == [ap : Points, until : 0 .. MaxTime + kApBan]

\* The types, variable by variable.
ApTypes ==
  /\ level \in [Aps -> 0 .. MaxLevel] /\ bans \in [Slots -> BanSet]
  /\ bssid \in Points /\ linkedTo \in Points
  /\ now \in 1 .. MaxTime /\ lastCheck \in 0 .. now /\ connectedAt \in 0 .. now
  /\ apFails \in 0 .. kApFails
  /\ picking \in BOOLEAN /\ looking \in BOOLEAN /\ pinned \in BOOLEAN
  /\ gain \in {0, kRoamGain, kFirstScanGain} /\ ref \in 0 .. NoRef
  /\ fruitless \in 0 .. kFallbackBudget
  /\ retired \in BanSet /\ shifts \in 0 .. MaxShifts

RetiredIsBanned ==
  Recently(retired) => \E s \in Slots : bans[s].ap = retired.ap /\ bans[s].until = retired.until

ApInv == ApTypes /\ RetiredIsBanned

LEMMA ApTypesAre == ApTypes <=> ApTypeOK
BY DEF ApTypes, ApTypeOK, Points, BanSet

LEMMA ApBounds ==
  /\ MaxLevel \in Nat /\ Aps \subseteq 1 .. MaxLevel /\ NoAp \notin Aps
  /\ kMaxBannedAps \in Nat \ {0} /\ MaxTime \in Nat \ {0}
  /\ kApBan \in Nat /\ kApFails \in Nat /\ MaxShifts \in Nat /\ kFallbackBudget \in Nat
BY ApAssumption

-----------------------------------------------------------------------------
(* The choices: of the least slot, of the best point. *)

\* A set of naturals that is not empty has a least element, and Min is one.
LEMMA LeastOf ==
  ASSUME NEW T, T \subseteq Nat, T # {}
  PROVE  Min(T) \in T /\ \A y \in T : Min(T) <= y
<1>1. PICK x \in T : \A y \in T : ~(<<y, x>> \in OpToRel(<, Nat))
  BY WFMin, NatLessThanWellFounded, Zenon
<1>2. \A y \in T : ~(y < x)
  <2>1. ASSUME NEW y \in T, y < x PROVE FALSE
    <3>1. x \in Nat /\ y \in Nat
      OBVIOUS
    <3>2. <<y, x>> \in OpToRel(<, Nat)
      BY <2>1, <3>1, Zenon DEF OpToRel
    <3> QED
      BY <1>1, <3>2
  <2> QED
    BY <2>1
<1>3. x \in T /\ \A y \in T : x =< y
  BY <1>2
<1> QED
  BY <1>3 DEF Min

\* The best point of a set that is not empty is one of it.
LEMMA BestIs ==
  ASSUME ApTypes, NEW S, S \subseteq Aps, S # {}
  PROVE  Best(S) \in S
<1> DEFINE T == {MaxLevel - level[a] : a \in S}
<1>1. \A a \in S : level[a] \in 0 .. MaxLevel /\ MaxLevel - level[a] \in Nat
  BY ApBounds DEF ApTypes
<1>2. T \subseteq Nat /\ T # {}
  BY <1>1
<1>3. Min(T) \in T /\ \A y \in T : Min(T) <= y
  <2> HIDE DEF T
  <2> QED
    BY <1>2, LeastOf
<1>4. PICK a \in S : Min(T) = MaxLevel - level[a]
  BY <1>3
<1>5. \A b \in S : level[b] <= level[a]
  <2>1. ASSUME NEW b \in S PROVE level[b] <= level[a]
    <3>1. MaxLevel - level[a] <= MaxLevel - level[b]
      BY <1>3, <1>4
    <3> QED
      BY <1>1, <3>1, ApBounds
  <2> QED
    BY <2>1
<1> QED
  BY <1>5 DEF Best

\* The least of an incremented counter and its limit.
LEMMA MinOfTwo ==
  ASSUME NEW m \in Nat, NEW n \in Nat
  PROVE  Min({m, n}) \in {m, n} /\ Min({m, n}) <= n
BY LeastOf

\* A ban has a slot, a full list included.
LEMMA SlotForIs ==
  ASSUME ApTypes, NEW a
  PROVE  SlotFor(a) \in Slots
<1> DEFINE fit == {s \in Slots : bans[s].ap = a \/ bans[s].until <= now}
<1>1. fit \subseteq Nat /\ 0 \in Slots
  BY ApBounds DEF Slots
<1>2. fit # {} => Min(fit) \in fit
  <2> HIDE DEF fit
  <2> QED
    BY <1>1, LeastOf
<1> QED
  BY <1>1, <1>2 DEF SlotFor

\* After a ban the point is in the list, for kApBan.
LEMMA BanIs ==
  ASSUME ApTypes, NEW a \in Points, Ban(a)
  PROVE  /\ bans' \in [Slots -> BanSet]
         /\ \E s \in Slots : bans'[s] = [ap |-> a, until |-> now + kApBan]
<1>1. [ap |-> a, until |-> now + kApBan] \in BanSet
  BY ApBounds DEF ApTypes, BanSet
<1>2. SlotFor(a) \in Slots
  BY SlotForIs
<1> QED
  BY <1>1, <1>2 DEF Ban, ApTypes

\* The failure of a chosen point is counted up to the limit.
LEMMA FailedIs ==
  ASSUME ApTypes, Failed
  PROVE  pinned' \in BOOLEAN /\ apFails' \in 0 .. kApFails
<1>1. apFails + 1 \in Nat /\ kApFails \in Nat /\ apFails \in 0 .. kApFails
  BY ApBounds DEF ApTypes
<1>2. Min({apFails + 1, kApFails}) \in 0 .. kApFails
  BY <1>1, MinOfTwo
<1> QED
  BY <1>1, <1>2 DEF Failed

-----------------------------------------------------------------------------
(* The steps. *)

\* What leaves the list and the time alone leaves the ban of the last one alone.
LEMMA RetiredKept ==
  ASSUME RetiredIsBanned, UNCHANGED <<bans, now, retired>>
  PROVE  RetiredIsBanned'
BY DEF RetiredIsBanned, Recently

\* Nothing is banned, and nobody has been given up, when the device starts.
LEMMA ApInitOK == ApInit => ApInv
<1> SUFFICES ASSUME ApInit PROVE ApInv
  OBVIOUS
<1>1. level \in [Aps -> 0 .. MaxLevel] /\ bans \in [Slots -> BanSet] /\ retired \in BanSet
  BY ApBounds DEF ApInit, BanSet, Points
<1>2. /\ now \in 1 .. MaxTime /\ lastCheck \in 0 .. now /\ connectedAt \in 0 .. now
      /\ apFails \in 0 .. kApFails /\ ref \in 0 .. NoRef /\ fruitless \in 0 .. kFallbackBudget
      /\ shifts \in 0 .. MaxShifts
  BY ApBounds DEF ApInit, NoRef
<1>3. /\ bssid \in Points /\ linkedTo \in Points /\ picking \in BOOLEAN /\ looking \in BOOLEAN
      /\ pinned \in BOOLEAN /\ gain \in {0, kRoamGain, kFirstScanGain}
  BY DEF ApInit, Points
<1>4. RetiredIsBanned
  BY DEF ApInit, RetiredIsBanned, Recently
<1> QED
  BY <1>1, <1>2, <1>3, <1>4 DEF ApInv, ApTypes

\* The time, the signals and the stack.
LEMMA WorldOK ==
  ASSUME ApInv, Passes \/ Refused \/ Drops \/ \E a \in Aps : Shifts(a) \/ Accepted(a)
  PROVE  ApInv'
<1> USE DEF ApInv, lookVars
<1>0. ApTypes /\ RetiredIsBanned
  OBVIOUS
<1>1. CASE Passes
  <2>1. ApTypes'
    BY <1>1, ApBounds DEF Passes, ApTypes
  <2>2. RetiredIsBanned'
    BY <1>1, ApBounds DEF Passes, RetiredIsBanned, Recently, ApTypes, BanSet
  <2> QED
    BY <2>1, <2>2
<1>2. CASE Refused \/ Drops
  <2>1. pinned' \in BOOLEAN /\ apFails' \in 0 .. kApFails
    BY <1>2, FailedIs DEF Refused, Drops
  <2>2. ApTypes'
    BY <1>2, <2>1 DEF Refused, Drops, ApTypes, Points
  <2> QED
    BY <1>2, <2>2, RetiredKept DEF Refused, Drops
<1>3. ASSUME NEW a \in Aps, Shifts(a) PROVE ApInv'
  <2>1. level' \in [Aps -> 0 .. MaxLevel]
    <3>1. 0 \in 0 .. MaxLevel /\ MaxLevel \in 0 .. MaxLevel
      BY ApBounds
    <3> QED
      BY <1>3, <3>1 DEF Shifts, ApTypes
  <2>2. pinned' \in BOOLEAN /\ apFails' \in 0 .. kApFails /\ linkedTo' \in Points
    BY <1>3, FailedIs DEF Shifts, ApTypes, Points
  <2>3. shifts' \in 0 .. MaxShifts
    BY <1>3, ApBounds DEF Shifts, ApTypes
  <2>4. ApTypes'
    BY <1>3, <2>1, <2>2, <2>3 DEF Shifts, ApTypes
  <2> QED
    BY <1>3, <2>4, RetiredKept DEF Shifts
<1>4. ASSUME NEW a \in Aps, Accepted(a) PROVE ApInv'
  <2>1. ApTypes'
    BY <1>4, ApBounds DEF Accepted, ApTypes, Points, NoRef
  <2> QED
    BY <1>4, <2>1, RetiredKept DEF Accepted
<1> QED
  BY <1>1, <1>2, <1>3, <1>4

\* The choice before an attempt: the ban of the point just given up is in the list, and a
\* scan that finds every point banned drops it with the others.
LEMMA ChoiceOK ==
  ASSUME ApInv, PickStart \/ Retire \/ PickDone
  PROVE  ApInv'
<1> USE DEF ApInv, lookVars
<1>0. ApTypes /\ RetiredIsBanned
  OBVIOUS
<1>1. CASE PickStart
  BY <1>1, RetiredKept DEF PickStart, ApTypes
<1>2. CASE Retire
  <2>1. bssid \in Points /\ Ban(bssid)
    BY <1>2 DEF Retire, ApTypes
  <2>2. /\ bans' \in [Slots -> BanSet]
        /\ \E s \in Slots : bans'[s] = [ap |-> bssid, until |-> now + kApBan]
    BY <2>1, BanIs
  <2>3. retired' = [ap |-> bssid, until |-> now + kApBan] /\ retired' \in BanSet
    BY <1>2, <2>1, ApBounds DEF Retire, ApTypes, BanSet
  <2>4. /\ bssid' = NoAp /\ pinned' = FALSE /\ apFails' = 0 /\ picking' = TRUE
        /\ UNCHANGED <<level, now, linkedTo, looking, gain, ref, fruitless, lastCheck,
                       connectedAt, shifts>>
    BY <1>2 DEF Retire
  <2>5. bssid' \in Points /\ apFails' \in 0 .. kApFails
    BY <2>4, ApBounds DEF Points
  <2>6. ApTypes'
    BY <2>2, <2>3, <2>4, <2>5 DEF ApTypes
  <2>7. RetiredIsBanned'
    BY <2>2, <2>3 DEF RetiredIsBanned
  <2> QED
    BY <2>6, <2>7
<1>3. CASE PickDone
  <2>1. Heard \subseteq Aps
    BY DEF Heard
  <2>2. bssid' \in Points
    BY <1>3, <2>1, BestIs DEF PickDone, ApTypes, Points
  <2>3. CASE UNCHANGED <<bans, retired>>
    <3>1. ApTypes'
      BY <1>3, <2>2, <2>3 DEF PickDone, ApTypes
    <3> QED
      BY <1>3, <2>3, <3>1, RetiredKept DEF PickDone
  <2>4. CASE /\ bans' = [s \in Slots |-> [ap |-> NoAp, until |-> 0]]
             /\ retired' = [ap |-> NoAp, until |-> 0] /\ pinned' = TRUE
    <3>1. bans' \in [Slots -> BanSet] /\ retired' \in BanSet
      BY <2>4, ApBounds DEF BanSet, Points
    <3>2. ApTypes'
      BY <1>3, <2>2, <2>4, <3>1 DEF PickDone, ApTypes
    <3>3. RetiredIsBanned'
      BY <2>4 DEF RetiredIsBanned, Recently
    <3> QED
      BY <3>2, <3>3
  <2> QED
    BY <1>3, <2>3, <2>4 DEF PickDone
<1> QED
  BY <1>1, <1>2, <1>3

\* The looks around touch no ban.
LEMMA LookOK ==
  ASSUME ApInv, LookStart \/ LookDone
  PROVE  ApInv'
<1> USE DEF ApInv
<1>0. ApTypes /\ RetiredIsBanned
  OBVIOUS
<1>1. CASE LookStart
  <2>1. ApTypes'
    BY <1>1, ApBounds DEF LookStart, ApTypes
  <2> QED
    BY <1>1, <2>1, RetiredKept DEF LookStart
<1>2. CASE LookDone
  <2> DEFINE free == {a \in Heard : ~Banned(a)}
  <2>1. free \subseteq Aps
    BY DEF Heard
  <2>2. free # {} => Best(free) \in Aps
    <3> HIDE DEF free
    <3> QED
      BY <2>1, BestIs
  <2>3. linkedTo \in Aps /\ level[linkedTo] \in 0 .. NoRef
    BY <1>2, ApBounds DEF LookDone, ApTypes, Points, NoRef
  <2>4. bssid' \in Points /\ linkedTo' \in Points /\ pinned' \in BOOLEAN
    BY <1>2, <2>2 DEF LookDone, ApTypes, Points
  <2>5. ref' \in 0 .. NoRef
    BY <1>2, <2>3 DEF LookDone, ApTypes
  <2>6. fruitless' \in 0 .. kFallbackBudget
    BY <1>2, ApBounds DEF LookDone, ApTypes
  <2>7. /\ looking' = FALSE /\ lastCheck' = now
        /\ UNCHANGED <<level, bans, now, apFails, picking, gain, connectedAt, retired, shifts>>
    BY <1>2 DEF LookDone
  <2>8. lastCheck' \in 0 .. now'
    BY <2>7, ApBounds DEF ApTypes
  <2>9. ApTypes'
    BY <2>4, <2>5, <2>6, <2>7, <2>8 DEF ApTypes
  <2> QED
    BY <1>2, <2>9, RetiredKept DEF LookDone
<1> QED
  BY <1>1, <1>2

\* Every step keeps the invariant.
LEMMA ApStep == ApInv /\ [ApNext]_apVars => ApInv'
<1> SUFFICES ASSUME ApInv, [ApNext]_apVars PROVE ApInv'
  OBVIOUS
<1>1. CASE UNCHANGED apVars
  BY <1>1 DEF apVars, lookVars, ApInv, ApTypes, RetiredIsBanned, Recently
<1> QED
  BY <1>1, WorldOK, ChoiceOK, LookOK DEF ApNext

-----------------------------------------------------------------------------
(* The theorems. *)

\* The types hold, and the ban of the point given up last is in the list while it holds.
THEOREM ApInvariant == ApSpec => []ApInv
BY ApInitOK, ApStep, PTL DEF ApSpec

\* Every variable keeps its type: the counters of failures and of looks in vain stay in
\* their limits, the list of bans keeps its length.
THEOREM ApTypesHold == ApSpec => []ApTypeOK
<1>1. ApInv => ApTypeOK
  BY ApTypesAre DEF ApInv
<1> QED
  BY <1>1, ApInvariant, PTL

\* The scan after a point was given up does not choose it again while its ban holds,
\* unless every point that is heard is banned (banAp, isBanned, pinBestApApply): also
\* when the list of bans is full and the new ban has dropped another.
THEOREM OthersComeFirst == ApSpec => OthersFirst
<1>1. ASSUME ApInv, PickDone, bssid' # bssid, Recently(retired), bssid' = retired.ap
      PROVE  \A a \in Heard : Banned(a)
  <2>1. Banned(retired.ap)
    BY <1>1 DEF ApInv, RetiredIsBanned, Banned, Recently
  <2> DEFINE free == {a \in Heard : ~Banned(a)}
  <2>2. free \subseteq Aps /\ retired.ap \notin free
    BY <2>1 DEF Heard
  <2>3. free # {} => Best(free) # retired.ap
    <3> HIDE DEF free
    <3> QED
      BY <1>1, <2>2, BestIs DEF ApInv
  <2> QED
    BY <1>1, <2>3 DEF PickDone
<1>2. ApInv /\ [ApNext]_apVars =>
        [(PickDone /\ bssid' # bssid /\ Recently(retired) /\ bssid' = retired.ap)
           => \A a \in Heard : Banned(a)]_apVars
  BY <1>1
<1> QED
  BY <1>2, ApInvariant, PTL DEF ApSpec, OthersFirst
=============================================================================
