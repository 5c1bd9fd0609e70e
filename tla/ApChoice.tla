------------------------------ MODULE ApChoice ------------------------------
(***************************************************************************)
(* Which access point of the network the device goes to: the scan before   *)
(* an attempt, the ban of a point that does not answer, and the looks      *)
(* around while the link is up (src/platform/arduino/                      *)
(* EspTouchProvisioner.cpp).  The level of a point is a number, 0 when it  *)
(* is not heard.  When an attempt is made is the matter of Provisioning.   *)
(***************************************************************************)
EXTENDS Naturals, FiniteSets, FiniteSetsExt

CONSTANTS
  Aps,               \* access points of the network, each named by its level at the start
  NoAp,              \* none of them
  kMaxBannedAps,     \* length of the list of bans (4)
  kApBan,            \* how long a ban holds
  kApFails,          \* failures after which a point is given up (3)
  MaxLevel,          \* the best level of a signal
  kFirstScanGain, kRoamGain,   \* what a move must gain: in calm, after a drop (15 dB, 8 dB)
  kRoamDrop,         \* the drop that is a reason to look around (6 dB)
  kRoamCheckMin, kFallbackSlow, \* pauses between looks: after a drop, in calm with the budget gone
  kFallbackBudget,   \* looks in vain before the pause in calm grows from kRoamCheckMin (3)
  MaxTime,           \* bound: time
  MaxShifts          \* bound: changes of the levels

ASSUME ApAssumption ==
  /\ MaxLevel \in Nat /\ Aps \subseteq 1 .. MaxLevel /\ NoAp \notin Aps
  /\ {kMaxBannedAps, MaxTime} \subseteq Nat \ {0}
  /\ {kApBan, kApFails, MaxShifts} \subseteq Nat
  /\ {kFirstScanGain, kRoamGain, kRoamDrop, kRoamCheckMin, kFallbackSlow, kFallbackBudget} \subseteq Nat

VARIABLES
  level,             \* of each point
  bans,              \* bannedAps_: [ap, until] by slot, until = 0: never used
  now,
  bssid,             \* the point the stack's configuration is pinned to, or NoAp
  pinned,            \* apPinned_: it was chosen by the last scan
  apFails,           \* apPinFails_
  linkedTo,          \* the point the device is connected to, or NoAp
  picking, looking,  \* pinScanRunning_, roamScanRunning_
  gain,              \* roamScanGainDb_
  ref,               \* roamRefRssi_, MaxLevel + 1 before the first look
  fruitless, lastCheck, connectedAt,
  retired,           \* history: the point given up last since all bans were dropped, and its ban
  shifts

lookVars == <<looking, gain, ref, fruitless, lastCheck, connectedAt>>
apVars == <<level, bans, now, bssid, pinned, apFails, linkedTo, picking, lookVars, retired, shifts>>

Slots == 0 .. kMaxBannedAps - 1
NoRef == MaxLevel + 1

ApTypeOK ==
  /\ level \in [Aps -> 0 .. MaxLevel]
  /\ bans \in [Slots -> [ap : Aps \cup {NoAp}, until : 0 .. MaxTime + kApBan]]
  /\ {bssid, linkedTo} \subseteq Aps \cup {NoAp}
  /\ now \in 1 .. MaxTime /\ lastCheck \in 0 .. now /\ connectedAt \in 0 .. now
  /\ apFails \in 0 .. kApFails /\ {picking, looking, pinned} \subseteq BOOLEAN
  /\ gain \in {0, kRoamGain, kFirstScanGain} /\ ref \in 0 .. NoRef
  /\ fruitless \in 0 .. kFallbackBudget
  /\ retired \in [ap : Aps \cup {NoAp}, until : 0 .. MaxTime + kApBan] /\ shifts \in 0 .. MaxShifts

ApInit ==
  /\ level = [a \in Aps |-> a]
  /\ bans = [s \in Slots |-> [ap |-> NoAp, until |-> 0]] /\ now = 1
  /\ bssid = NoAp /\ linkedTo = NoAp /\ pinned = FALSE /\ apFails = 0 /\ picking = FALSE /\ looking = FALSE
  /\ gain = 0 /\ ref = NoRef /\ fruitless = 0 /\ lastCheck = 0 /\ connectedAt = 0
  /\ retired = [ap |-> NoAp, until |-> 0] /\ shifts = 0

Heard == {a \in Aps : level[a] > 0}

\* isBanned.
Banned(a) == \E s \in Slots : bans[s].ap = a /\ bans[s].until > now

Best(S) == CHOOSE a \in S : \A b \in S : level[b] <= level[a]

\* The slot of banAp: the point's own, or one that is free or over, whichever comes first; the first
\* of all when there is none.
SlotFor(a) ==
  LET fit == {s \in Slots : bans[s].ap = a \/ bans[s].until <= now}
  IN IF fit = {} THEN 0 ELSE Min(fit)

\* A faulty variant of banAp: a full list takes no more.
BanWhileRoom(a) ==
  bans' = IF \E s \in Slots : bans[s].ap = a \/ bans[s].until <= now
            THEN [bans EXCEPT ![SlotFor(a)] = [ap |-> a, until |-> now + kApBan]]
            ELSE bans

\* banAp.
Ban(a) == bans' = [bans EXCEPT ![SlotFor(a)] = [ap |-> a, until |-> now + kApBan]]

----------------------------------------------------------------------------
(* The world. *)

Passes ==
  /\ now < MaxTime /\ now' = now + 1
  /\ UNCHANGED <<level, bans, bssid, pinned, apFails, linkedTo, picking, lookVars, retired, shifts>>

\* The handler of STA_DISCONNECTED: the choice is over, and its failure is counted.
Failed == pinned' = FALSE /\ apFails' = (IF pinned THEN Min({apFails + 1, kApFails}) ELSE apFails)

Shifts(a) ==
  /\ shifts < MaxShifts /\ shifts' = shifts + 1
  /\ \E l \in {0, MaxLevel} : level' = [level EXCEPT ![a] = l]
  /\ IF linkedTo = a /\ level'[a] = 0 THEN linkedTo' = NoAp /\ Failed
                                     ELSE UNCHANGED <<linkedTo, pinned, apFails>>
  /\ UNCHANGED <<bans, now, bssid, picking, lookVars, retired>>

\* An attempt fails.
Refused ==
  /\ linkedTo = NoAp /\ ~picking /\ Failed
  /\ UNCHANGED <<level, bans, now, bssid, linkedTo, picking, lookVars, retired, shifts>>

\* An attempt succeeds: what was seen of the air before says nothing of this point.
Accepted(a) ==
  /\ linkedTo = NoAp /\ ~picking /\ level[a] > 0 /\ bssid \in {a, NoAp}
  /\ linkedTo' = a /\ apFails' = 0 /\ connectedAt' = now /\ ref' = NoRef /\ fruitless' = 0
  /\ UNCHANGED <<level, bans, now, bssid, pinned, picking, looking, gain, lastCheck, retired, shifts>>

Drops ==
  /\ linkedTo # NoAp /\ linkedTo' = NoAp /\ Failed
  /\ UNCHANGED <<level, bans, now, bssid, picking, lookVars, retired, shifts>>

----------------------------------------------------------------------------
(* The choice before an attempt. *)

\* pinBestApStart: a scan for the point to go to.
PickStart ==
  /\ linkedTo = NoAp /\ ~picking /\ apFails < kApFails /\ ~pinned /\ picking' = TRUE
  /\ UNCHANGED <<level, bans, now, bssid, pinned, apFails, linkedTo, lookVars, retired, shifts>>

\* retireFailedAp: the pinned point is banned, and the next one looked for.
Retire ==
  /\ linkedTo = NoAp /\ ~picking /\ apFails >= kApFails
  /\ Ban(bssid) /\ retired' = [ap |-> bssid, until |-> now + kApBan]
  /\ bssid' = NoAp /\ pinned' = FALSE /\ apFails' = 0 /\ picking' = TRUE
  /\ UNCHANGED <<level, now, linkedTo, lookVars, shifts>>

\* pinScanTick and pinBestApApply: the best point that is heard and not banned; if all that are
\* heard are banned, the bans are over.  The attempt goes as it is when the scan does not end.
PickDone ==
  /\ picking /\ picking' = FALSE
  /\ \/ /\ {a \in Heard : ~Banned(a)} # {}
        /\ bssid' = Best({a \in Heard : ~Banned(a)}) /\ pinned' = TRUE /\ UNCHANGED <<bans, retired>>
     \/ /\ Heard # {} /\ \A a \in Heard : Banned(a)
        /\ bans' = [s \in Slots |-> [ap |-> NoAp, until |-> 0]] /\ bssid' = Best(Heard)
        /\ pinned' = TRUE /\ retired' = [ap |-> NoAp, until |-> 0]
     \/ UNCHANGED <<bssid, pinned, bans, retired>>
  /\ UNCHANGED <<level, now, apFails, linkedTo, lookVars, shifts>>

----------------------------------------------------------------------------
(* The looks around while the link is up. *)

\* What the next look must find, if there is a reason for it: the first look after a connect, a drop
\* of the signal (seen here or reported by the stack), or a long time without one.
Cooled == lastCheck = 0 \/ now - lastCheck >= kRoamCheckMin
Dropped == ref # NoRef /\ level[linkedTo] + kRoamDrop <= ref
Due == now - lastCheck >= (IF fruitless < kFallbackBudget THEN kRoamCheckMin ELSE kFallbackSlow)

\* roamScanStart, when the radio is free; the reported drop is a reason of its own.
LookStart ==
  /\ linkedTo # NoAp /\ ~looking /\ looking' = TRUE
  /\ \/ ref = NoRef /\ now > connectedAt /\ gain' = kFirstScanGain /\ UNCHANGED fruitless
     \/ ref # NoRef /\ Cooled /\ gain' = kRoamGain /\ fruitless' = (IF Dropped THEN 0 ELSE fruitless)
     \/ ref # NoRef /\ ~(Dropped /\ Cooled) /\ Due /\ gain' = kFirstScanGain /\ UNCHANGED fruitless
  /\ UNCHANGED <<level, bans, now, bssid, pinned, apFails, linkedTo, picking, ref, lastCheck, connectedAt,
                 retired, shifts>>

Worth(a) == a # linkedTo /\ level[a] >= level[linkedTo] + gain

\* roamScanFinish: the device moves to a point that is worth it, and stays otherwise; a link lost
\* in between makes the look worthless, and so does a scan that does not end.
LookDone ==
  /\ linkedTo # NoAp /\ looking /\ looking' = FALSE /\ lastCheck' = now
  /\ LET free == {a \in Heard : ~Banned(a)} IN
     \/ /\ free # {} /\ Worth(Best(free))
        /\ bssid' = Best(free) /\ linkedTo' = NoAp /\ pinned' = FALSE
        /\ fruitless' = 0 /\ UNCHANGED ref
     \/ /\ ~(free # {} /\ Worth(Best(free))) /\ ref' = level[linkedTo]
        /\ fruitless' = (IF fruitless < kFallbackBudget THEN fruitless + 1 ELSE fruitless)
        /\ UNCHANGED <<bssid, linkedTo, pinned>>
     \/ UNCHANGED <<bssid, linkedTo, pinned, ref, fruitless>>
  /\ UNCHANGED <<level, bans, now, apFails, picking, gain, connectedAt, retired, shifts>>

ApNext ==
  \/ Passes \/ Refused \/ Drops \/ PickStart \/ Retire \/ PickDone \/ LookStart \/ LookDone
  \/ \E a \in Aps : Shifts(a) \/ Accepted(a)

ApSpec == ApInit /\ [][ApNext]_apVars

----------------------------------------------------------------------------
(* Properties. *)

Recently(r) == r.ap # NoAp /\ r.until > now

\* The point that was given up last is not the next choice while its ban holds, unless nothing else
\* is heard that is not banned: with the list full too.
OthersFirst ==
  [][(PickDone /\ bssid' # bssid /\ Recently(retired) /\ bssid' = retired.ap)
       => \A a \in Heard : Banned(a)]_apVars

\* The list is replaced from its oldest ban on, as the comment in banAp says: a ban that holds does
\* not go while an older one stays.
OldestGoes ==
  [][Retire => \A s, t \in Slots :
       bans[s].until > now /\ bans'[s] # bans[s] /\ bans[s].ap # bssid
         => bans[t].until >= bans[s].until]_apVars
=============================================================================
