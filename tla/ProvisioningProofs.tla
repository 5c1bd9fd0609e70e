------------------------- MODULE ProvisioningProofs --------------------------
(***************************************************************************)
(* Proofs about Provisioning, for every set of credentials and every limit *)
(* of the counters of failures.                                            *)
(***************************************************************************)
EXTENDS Provisioning, Integers, TLAPS

Budgets == [phone : 0 .. MaxPhone, net : 0 .. MaxNetChanges, fluke : 0 .. MaxFlukes,
            reboot : 0 .. MaxReboots]

\* The types, variable by variable; the setup screen is part of the invariant, as what it says
\* rests on the types and on itself alone.
WifiTypes ==
  /\ net \in Credentials \cup {None} /\ cfg \in Credentials \cup {None}
  /\ stored \in Credentials \cup {None} /\ got \in Credentials \cup {None}
  /\ link \in {"idle", "trying", "stuck", "up"} /\ sc \in {"off", "listen", "ack"}
  /\ active \in BOOLEAN /\ awaitingScAck \in BOOLEAN /\ credentialsPresent \in BOOLEAN
  /\ provisioned \in BOOLEAN /\ everConnected \in BOOLEAN /\ airScanned \in BOOLEAN
  /\ weak \in BOOLEAN /\ needConnect \in BOOLEAN /\ apPinned \in BOOLEAN
  /\ pinScan \in BOOLEAN /\ linkedOnce \in BOOLEAN
  /\ failStreak \in 0 .. StreakMax /\ apPinFails \in 0 .. StreakMax
  /\ lastReason \in {"none", "auth", "self", "other"}
  /\ budget \in Budgets

WifiInv == WifiTypes /\ ScreenMeansSetup

LEMMA Bounds ==
  /\ StreakMax \in Nat /\ MaxPhone \in Nat /\ MaxNetChanges \in Nat /\ MaxFlukes \in Nat
  /\ MaxReboots \in Nat /\ 0 \in 0 .. StreakMax /\ None \notin Credentials
BY WifiAssumption

\* The counters of failures stay in their byte.
LEMMA CappedOK ==
  ASSUME NEW n \in 0 .. StreakMax
  PROVE  Capped(n) \in 0 .. StreakMax
BY Bounds DEF Capped

\* A chance that is spent.
LEMMA SpendsOK ==
  ASSUME NEW what \in {"phone", "net", "fluke", "reboot"}, budget \in Budgets, Spends(what)
  PROVE  budget' \in Budgets
BY Bounds DEF Spends, Budgets

LEMMA InitOK == WifiInit => WifiInv
<1> SUFFICES ASSUME WifiInit PROVE WifiInv
  OBVIOUS
<1>1. budget \in Budgets
  BY Bounds DEF WifiInit, Budgets
<1>2. WifiTypes
  BY <1>1, Bounds DEF WifiInit, WifiTypes
<1>3. ScreenMeansSetup
  BY DEF WifiInit, ScreenMeansSetup
<1> QED
  BY <1>2, <1>3 DEF WifiInv

-----------------------------------------------------------------------------
(* The steps. *)

\* What a disconnect leaves: the counters in their byte, flags.
LEMMA DisconnectedOK ==
  ASSUME WifiTypes, NEW r \in {"auth", "self", "other"}, NEW n \in 0 .. StreakMax, Disconnected(r, n)
  PROVE  /\ lastReason' \in {"none", "auth", "self", "other"} /\ failStreak' \in 0 .. StreakMax
         /\ apPinFails' \in 0 .. StreakMax /\ apPinned' \in BOOLEAN /\ needConnect' \in BOOLEAN
BY CappedOK DEF Disconnected, WifiTypes

LEMMA DisconnectsOK ==
  ASSUME WifiTypes, NEW n \in 0 .. StreakMax, Disconnects(n)
  PROVE  /\ lastReason' \in {"none", "auth", "self", "other"} /\ failStreak' \in 0 .. StreakMax
         /\ apPinFails' \in 0 .. StreakMax /\ apPinned' \in BOOLEAN /\ needConnect' \in BOOLEAN
BY DisconnectedOK DEF Disconnects, WifiTypes, pinVars

LEMMA ConnectsOK ==
  ASSUME WifiTypes, NEW l \in {"idle", "trying", "stuck", "up"}, Connects(l)
  PROVE  link' \in {"idle", "trying", "stuck", "up"} /\ budget' \in Budgets
BY SpendsOK DEF Connects, WifiTypes

\* A scan, or an attempt without one.
LEMMA AttemptsOK ==
  ASSUME WifiTypes, ScanStarts \/ Attempts
  PROVE  /\ lastReason' \in {"none", "auth", "self", "other"} /\ failStreak' \in 0 .. StreakMax
         /\ apPinFails' \in 0 .. StreakMax /\ apPinned' \in BOOLEAN /\ needConnect' \in BOOLEAN
         /\ link' \in {"idle", "trying", "stuck", "up"} /\ budget' \in Budgets /\ pinScan' \in BOOLEAN
<1>1. CASE ScanStarts
  BY <1>1, Bounds, CappedOK DEF ScanStarts, WifiTypes
<1>2. CASE Attempts
  BY <1>2, ConnectsOK DEF Attempts, WifiTypes, failVars
<1> QED
  BY <1>1, <1>2

\* The world and the stack: one step per action.
LEMMA StackOK ==
  ASSUME WifiInv, Stack
  PROVE  WifiInv'
<1>0. WifiTypes /\ ScreenMeansSetup /\ failStreak \in 0 .. StreakMax
        /\ link \in {"idle", "trying", "stuck", "up"}
  BY DEF WifiInv, WifiTypes
<1>1. CASE NetChanges
  <2>1. budget' \in Budgets
    BY <1>0, <1>1, SpendsOK DEF NetChanges, WifiTypes
  <2>2. WifiTypes'
    BY <1>0, <1>1, Bounds, <2>1
       DEF NetChanges, stackVars, credVars, failVars, airVars, pinVars, WifiTypes
  <2>3. ScreenMeansSetup'
    BY <1>0, <1>1, Bounds
       DEF NetChanges, stackVars, credVars, failVars, airVars, pinVars, WifiTypes, ScreenMeansSetup
  <2> QED
    BY <2>2, <2>3 DEF WifiInv
<1>2. CASE Reboot
  <2>1. budget' \in Budgets
    BY <1>0, <1>2, SpendsOK DEF Reboot, WifiTypes
  <2>2. WifiTypes'
    BY <1>0, <1>2, Bounds, <2>1
       DEF Reboot, Boot, stackVars, credVars, failVars, airVars, pinVars, WifiTypes
  <2>3. ScreenMeansSetup'
    BY <1>0, <1>2, Bounds
       DEF Reboot, Boot, stackVars, credVars, failVars, airVars, pinVars, WifiTypes,
           ScreenMeansSetup
  <2> QED
    BY <2>2, <2>3 DEF WifiInv
<1>3. CASE Connected
  <2>1. /\ net' = net /\ cfg' = cfg /\ sc' = sc
        /\ stored' = stored /\ got' = got /\ awaitingScAck' = awaitingScAck
        /\ credentialsPresent' = credentialsPresent /\ provisioned' = provisioned /\ lastReason' = lastReason
        /\ weak' = weak /\ needConnect' = needConnect /\ apPinned' = apPinned
        /\ pinScan' = pinScan /\ active' = active /\ linkedOnce' = linkedOnce
        /\ budget' = budget
    BY <1>0, <1>3 DEF Connected, stackVars, credVars, failVars, airVars, pinVars
  <2>2. link' = "up" /\ everConnected' \in BOOLEAN /\ failStreak' = 0 /\ apPinFails' = 0
          /\ airScanned' \in BOOLEAN
    BY <1>0, <1>3 DEF Connected, WifiTypes
  <2>3. WifiTypes'
    BY <1>0, <1>3, Bounds, <2>1, <2>2 DEF WifiTypes
  <2>4. ScreenMeansSetup'
    BY <1>0, <1>3, Bounds
       DEF Connected, stackVars, credVars, failVars, airVars, pinVars, WifiTypes, ScreenMeansSetup
  <2> QED
    BY <2>3, <2>4 DEF WifiInv
<1>4. CASE Lost
  <2>1. budget' \in Budgets
    BY <1>0, <1>4, SpendsOK DEF Lost, WifiTypes
  <2>2. lastReason' \in {"none", "auth", "self", "other"} /\ failStreak' \in 0 .. StreakMax
          /\ apPinFails' \in 0 .. StreakMax /\ apPinned' \in BOOLEAN /\ needConnect' \in BOOLEAN
    BY <1>0, <1>4, DisconnectedOK DEF Lost, WifiTypes
  <2>3. WifiTypes'
    BY <1>0, <1>4, Bounds, <2>1, <2>2
       DEF Lost, Afterwards, stackVars, credVars, failVars, airVars, pinVars, WifiTypes
  <2>4. ScreenMeansSetup'
    BY <1>0, <1>4, Bounds
       DEF Lost, Afterwards, stackVars, credVars, failVars, airVars, pinVars, WifiTypes,
           ScreenMeansSetup
  <2> QED
    BY <2>3, <2>4 DEF WifiInv
<1>5. CASE ScAckDone
  <2>1. /\ net' = net /\ link' = link /\ cfg' = cfg
        /\ stored' = stored /\ got' = got /\ credentialsPresent' = credentialsPresent
        /\ provisioned' = provisioned /\ everConnected' = everConnected /\ failStreak' = failStreak
        /\ lastReason' = lastReason /\ apPinFails' = apPinFails /\ airScanned' = airScanned
        /\ weak' = weak /\ needConnect' = needConnect /\ apPinned' = apPinned
        /\ pinScan' = pinScan /\ linkedOnce' = linkedOnce /\ budget' = budget
    BY <1>0, <1>5 DEF ScAckDone, stackVars, credVars, failVars, airVars, pinVars
  <2>2. awaitingScAck' \in BOOLEAN /\ sc' = "off" /\ active' \in BOOLEAN
    BY <1>0, <1>5 DEF ScAckDone, WifiTypes
  <2>3. WifiTypes'
    BY <1>0, <1>5, Bounds, <2>1, <2>2 DEF WifiTypes
  <2>4. ScreenMeansSetup'
    BY <1>0, <1>5, Bounds
       DEF ScAckDone, stackVars, credVars, failVars, airVars, pinVars, WifiTypes, ScreenMeansSetup
  <2> QED
    BY <2>3, <2>4 DEF WifiInv
<1>6. ASSUME NEW r \in {"auth", "other"}, Fails(r) PROVE WifiInv'
  <2>1. budget' \in Budgets
    BY <1>0, <1>6, SpendsOK DEF Fails, WifiTypes
  <2>2. lastReason' \in {"none", "auth", "self", "other"} /\ failStreak' \in 0 .. StreakMax
          /\ apPinFails' \in 0 .. StreakMax /\ apPinned' \in BOOLEAN /\ needConnect' \in BOOLEAN
    BY <1>0, <1>6, DisconnectedOK DEF Fails
  <2>3. WifiTypes'
    BY <1>0, <1>6, Bounds, <2>1, <2>2
       DEF Fails, Afterwards, stackVars, credVars, failVars, airVars, pinVars, WifiTypes
  <2>4. ScreenMeansSetup'
    BY <1>0, <1>6, Bounds
       DEF Fails, Afterwards, stackVars, credVars, failVars, airVars, pinVars, WifiTypes,
           ScreenMeansSetup
  <2> QED
    BY <2>3, <2>4 DEF WifiInv
<1>7. ASSUME NEW c \in Credentials, GotCredentials(c) PROVE WifiInv'
  <2>1. budget' \in Budgets
    BY <1>0, <1>7, SpendsOK DEF GotCredentials, WifiTypes
  <2>2. lastReason' \in {"none", "auth", "self", "other"} /\ failStreak' \in 0 .. StreakMax
          /\ apPinFails' \in 0 .. StreakMax /\ apPinned' \in BOOLEAN /\ needConnect' \in BOOLEAN
    BY <1>0, <1>7, DisconnectsOK DEF GotCredentials
  <2>3. WifiTypes'
    BY <1>0, <1>7, Bounds, <2>1, <2>2
       DEF GotCredentials, stackVars, credVars, failVars, airVars, pinVars, WifiTypes
  <2>4. ScreenMeansSetup'
    BY <1>0, <1>7, Bounds
       DEF GotCredentials, stackVars, credVars, failVars, airVars, pinVars, WifiTypes,
           ScreenMeansSetup
  <2> QED
    BY <2>3, <2>4 DEF WifiInv
<1> QED
  BY <1>1, <1>2, <1>3, <1>4, <1>5, <1>6, <1>7 DEF Stack

\* The branches of loop().
LEMMA LoopOK ==
  ASSUME WifiInv, Loop
  PROVE  WifiInv'
<1>0. WifiTypes /\ ScreenMeansSetup /\ failStreak \in 0 .. StreakMax
        /\ link \in {"idle", "trying", "stuck", "up"}
  BY DEF WifiInv, WifiTypes
<1>1. CASE Save
  <2>1. /\ net' = net /\ link' = link /\ cfg' = cfg
        /\ sc' = sc /\ awaitingScAck' = awaitingScAck /\ everConnected' = everConnected
        /\ failStreak' = failStreak /\ lastReason' = lastReason /\ apPinFails' = apPinFails
        /\ needConnect' = needConnect /\ apPinned' = apPinned /\ pinScan' = pinScan
        /\ active' = active /\ linkedOnce' = linkedOnce /\ budget' = budget
    BY <1>0, <1>1 DEF Save, stackVars, credVars, failVars, airVars, pinVars
  <2>2. stored' = got /\ got' = None /\ provisioned' \in BOOLEAN /\ credentialsPresent' \in BOOLEAN
          /\ airScanned' \in BOOLEAN /\ weak' \in BOOLEAN
    BY <1>0, <1>1 DEF Save, WifiTypes
  <2>3. WifiTypes'
    BY <1>0, <1>1, Bounds, <2>1, <2>2 DEF WifiTypes
  <2>4. ScreenMeansSetup'
    BY <1>0, <1>1, Bounds
       DEF Save, stackVars, credVars, failVars, airVars, pinVars, WifiTypes, ScreenMeansSetup
  <2> QED
    BY <2>3, <2>4 DEF WifiInv
<1>2. CASE WhileUp
  <2>1. /\ net' = net /\ link' = link /\ cfg' = cfg
        /\ stored' = stored /\ got' = got /\ credentialsPresent' = credentialsPresent
        /\ provisioned' = provisioned /\ everConnected' = everConnected /\ failStreak' = failStreak
        /\ lastReason' = lastReason /\ apPinFails' = apPinFails /\ airScanned' = airScanned
        /\ weak' = weak /\ needConnect' = needConnect /\ apPinned' = apPinned
        /\ pinScan' = pinScan /\ budget' = budget
    BY <1>0, <1>2 DEF WhileUp, stackVars, credVars, failVars, airVars, pinVars
  <2>2. linkedOnce' \in BOOLEAN /\ awaitingScAck' \in BOOLEAN /\ active' \in BOOLEAN
          /\ sc' \in {"off", sc}
    BY <1>0, <1>2 DEF WhileUp, WifiTypes
  <2>3. WifiTypes'
    BY <1>0, <1>2, Bounds, <2>1, <2>2 DEF WifiTypes
  <2>4. ScreenMeansSetup'
    BY <1>0, <1>2, Bounds
       DEF WhileUp, stackVars, credVars, failVars, airVars, pinVars, WifiTypes, ScreenMeansSetup
  <2> QED
    BY <2>3, <2>4 DEF WifiInv
<1>3. CASE Roam
  <2>1. budget' \in Budgets
    BY <1>0, <1>3, SpendsOK DEF Roam, WifiTypes
  <2>2. lastReason' \in {"none", "auth", "self", "other"} /\ failStreak' \in 0 .. StreakMax
          /\ apPinFails' \in 0 .. StreakMax /\ apPinned' \in BOOLEAN /\ needConnect' \in BOOLEAN
    BY <1>0, <1>3, DisconnectsOK DEF Roam
  <2>3. WifiTypes'
    BY <1>0, <1>3, Bounds, <2>1, <2>2
       DEF Roam, stackVars, credVars, failVars, airVars, pinVars, WifiTypes
  <2>4. ScreenMeansSetup'
    BY <1>0, <1>3, Bounds
       DEF Roam, stackVars, credVars, failVars, airVars, pinVars, WifiTypes, ScreenMeansSetup
  <2> QED
    BY <2>3, <2>4 DEF WifiInv
<1>4. CASE ScanDone
  <2>1. link' \in {"idle", "trying", "stuck", "up"} /\ budget' \in Budgets
    BY <1>0, <1>4, ConnectsOK DEF ScanDone
  <2>2. /\ net' = net /\ cfg' = cfg /\ sc' = sc
        /\ stored' = stored /\ got' = got /\ awaitingScAck' = awaitingScAck
        /\ credentialsPresent' = credentialsPresent /\ provisioned' = provisioned /\ everConnected' = everConnected
        /\ failStreak' = failStreak /\ lastReason' = lastReason /\ apPinFails' = apPinFails
        /\ airScanned' = airScanned /\ weak' = weak /\ active' = active
        /\ linkedOnce' = linkedOnce
    BY <1>0, <1>4 DEF ScanDone, stackVars, credVars, failVars, airVars, pinVars
  <2>3. pinScan' \in BOOLEAN /\ apPinned' \in BOOLEAN /\ needConnect' \in BOOLEAN
    BY <1>0, <1>4 DEF ScanDone, PinsBest, WifiTypes
  <2>4. WifiTypes'
    BY <1>0, <1>4, Bounds, <2>1, <2>2, <2>3 DEF WifiTypes
  <2>5. ScreenMeansSetup'
    BY <1>0, <1>4, Bounds
       DEF ScanDone, stackVars, credVars, failVars, airVars, pinVars, WifiTypes, ScreenMeansSetup
  <2> QED
    BY <2>4, <2>5 DEF WifiInv
<1>5. CASE AirScan
  <2>1. /\ net' = net /\ link' = link /\ cfg' = cfg
        /\ sc' = sc /\ stored' = stored /\ got' = got
        /\ awaitingScAck' = awaitingScAck /\ credentialsPresent' = credentialsPresent /\ provisioned' = provisioned
        /\ everConnected' = everConnected /\ failStreak' = failStreak /\ lastReason' = lastReason
        /\ apPinFails' = apPinFails /\ needConnect' = needConnect /\ apPinned' = apPinned
        /\ pinScan' = pinScan /\ active' = active /\ linkedOnce' = linkedOnce
        /\ budget' = budget
    BY <1>0, <1>5 DEF AirScan, stackVars, credVars, failVars, airVars, pinVars
  <2>2. airScanned' \in BOOLEAN /\ weak' \in BOOLEAN
    BY <1>0, <1>5 DEF AirScan, WifiTypes
  <2>3. WifiTypes'
    BY <1>0, <1>5, Bounds, <2>1, <2>2 DEF WifiTypes
  <2>4. ScreenMeansSetup'
    BY <1>0, <1>5, Bounds
       DEF AirScan, stackVars, credVars, failVars, airVars, pinVars, WifiTypes, ScreenMeansSetup
  <2> QED
    BY <2>3, <2>4 DEF WifiInv
<1>6. CASE RejectNotYet
  <2>1. /\ net' = net /\ cfg' = cfg /\ sc' = sc
        /\ stored' = stored /\ got' = got /\ awaitingScAck' = awaitingScAck
        /\ credentialsPresent' = credentialsPresent /\ provisioned' = provisioned /\ everConnected' = everConnected
        /\ apPinFails' = apPinFails /\ pinScan' = pinScan /\ active' = active
        /\ linkedOnce' = linkedOnce /\ budget' = budget
    BY <1>0, <1>6 DEF RejectNotYet, stackVars, credVars, failVars, airVars, pinVars
  <2>2. airScanned' \in BOOLEAN /\ weak' \in BOOLEAN /\ link' = "trying" /\ failStreak' = 0
          /\ lastReason' \in {lastReason, "self"} /\ needConnect' \in BOOLEAN /\ apPinned' \in BOOLEAN
    BY <1>0, <1>6 DEF RejectNotYet, WifiTypes, pinVars
  <2>3. WifiTypes'
    BY <1>0, <1>6, Bounds, <2>1, <2>2 DEF WifiTypes
  <2>4. ScreenMeansSetup'
    BY <1>0, <1>6, Bounds
       DEF RejectNotYet, stackVars, credVars, failVars, airVars, pinVars, WifiTypes,
           ScreenMeansSetup
  <2> QED
    BY <2>3, <2>4 DEF WifiInv
<1>7. CASE Reject
  <2>1. lastReason' \in {"none", "auth", "self", "other"} /\ failStreak' \in 0 .. StreakMax
          /\ apPinFails' \in 0 .. StreakMax /\ apPinned' \in BOOLEAN /\ needConnect' \in BOOLEAN
    BY <1>0, <1>7, DisconnectsOK, Bounds DEF Reject
  <2>2. WifiTypes'
    BY <1>0, <1>7, Bounds, <2>1
       DEF Reject, stackVars, credVars, failVars, airVars, pinVars, WifiTypes
  <2>3. ScreenMeansSetup'
    BY <1>0, <1>7, Bounds
       DEF Reject, stackVars, credVars, failVars, airVars, pinVars, WifiTypes, ScreenMeansSetup
  <2> QED
    BY <2>2, <2>3 DEF WifiInv
<1>8. CASE Reconnect
  <2>1. lastReason' \in {"none", "auth", "self", "other"} /\ failStreak' \in 0 .. StreakMax
          /\ apPinFails' \in 0 .. StreakMax /\ apPinned' \in BOOLEAN /\ needConnect' \in BOOLEAN
          /\ link' \in {"idle", "trying", "stuck", "up"} /\ budget' \in Budgets /\ pinScan' \in BOOLEAN
    BY <1>0, <1>8, AttemptsOK DEF Reconnect
  <2>2. WifiTypes'
    BY <1>0, <1>8, Bounds, <2>1
       DEF Reconnect, stackVars, credVars, failVars, airVars, pinVars, WifiTypes
  <2>3. ScreenMeansSetup'
    BY <1>0, <1>8, Bounds
       DEF Reconnect, stackVars, credVars, failVars, airVars, pinVars, WifiTypes, ScreenMeansSetup
  <2> QED
    BY <2>2, <2>3 DEF WifiInv
<1>9. CASE Watchdog
  <2>1. lastReason' \in {"none", "auth", "self", "other"} /\ failStreak' \in 0 .. StreakMax
          /\ apPinFails' \in 0 .. StreakMax /\ apPinned' \in BOOLEAN /\ needConnect' \in BOOLEAN
    BY <1>0, <1>9, DisconnectedOK DEF Watchdog
  <2>2. WifiTypes'
    BY <1>0, <1>9, Bounds, <2>1
       DEF Watchdog, stackVars, credVars, failVars, airVars, pinVars, WifiTypes
  <2>3. ScreenMeansSetup'
    BY <1>0, <1>9, Bounds
       DEF Watchdog, stackVars, credVars, failVars, airVars, pinVars, WifiTypes, ScreenMeansSetup
  <2> QED
    BY <2>2, <2>3 DEF WifiInv
<1>10. CASE BootRetry
  <2>1. lastReason' \in {"none", "auth", "self", "other"} /\ failStreak' \in 0 .. StreakMax
          /\ apPinFails' \in 0 .. StreakMax /\ apPinned' \in BOOLEAN /\ needConnect' \in BOOLEAN
          /\ link' \in {"idle", "trying", "stuck", "up"} /\ budget' \in Budgets /\ pinScan' \in BOOLEAN
    BY <1>0, <1>10, AttemptsOK DEF BootRetry
  <2>2. WifiTypes'
    BY <1>0, <1>10, Bounds, <2>1
       DEF BootRetry, stackVars, credVars, failVars, airVars, pinVars, WifiTypes
  <2>3. ScreenMeansSetup'
    BY <1>0, <1>10, Bounds
       DEF BootRetry, stackVars, credVars, failVars, airVars, pinVars, WifiTypes, ScreenMeansSetup
  <2> QED
    BY <2>2, <2>3 DEF WifiInv
<1>11. CASE StartSetup
  <2>1. /\ net' = net /\ link' = link /\ cfg' = cfg
        /\ stored' = stored /\ awaitingScAck' = awaitingScAck /\ credentialsPresent' = credentialsPresent
        /\ provisioned' = provisioned /\ everConnected' = everConnected /\ failStreak' = failStreak
        /\ lastReason' = lastReason /\ apPinFails' = apPinFails /\ airScanned' = airScanned
        /\ weak' = weak /\ needConnect' = needConnect /\ apPinned' = apPinned
        /\ pinScan' = pinScan /\ linkedOnce' = linkedOnce /\ budget' = budget
    BY <1>0, <1>11 DEF StartSetup, Starts, stackVars, credVars, failVars, airVars, pinVars
  <2>2. sc' \in {"listen", "off"} /\ active' \in BOOLEAN /\ got' \in {got, None}
    BY <1>0, <1>11 DEF StartSetup, Starts, WifiTypes
  <2>3. WifiTypes'
    BY <1>0, <1>11, Bounds, <2>1, <2>2 DEF WifiTypes
  <2>4. ScreenMeansSetup'
    BY <1>0, <1>11, Bounds
       DEF StartSetup, Starts, stackVars, credVars, failVars, airVars, pinVars, WifiTypes,
           ScreenMeansSetup
  <2> QED
    BY <2>3, <2>4 DEF WifiInv
<1>12. CASE RestartSetup
  <2>1. WifiTypes'
    BY <1>0, <1>12, Bounds
       DEF RestartSetup, Waiting, stackVars, credVars, failVars, airVars, pinVars, WifiTypes
  <2>2. ScreenMeansSetup'
    BY <1>0, <1>12, Bounds
       DEF RestartSetup, Waiting, stackVars, credVars, failVars, airVars, pinVars, WifiTypes,
           ScreenMeansSetup
  <2> QED
    BY <2>1, <2>2 DEF WifiInv
<1>13. CASE ManagerConnect
  <2>1. link' \in {"idle", "trying", "stuck", "up"} /\ budget' \in Budgets
    BY <1>0, <1>13, ConnectsOK DEF ManagerConnect
  <2>2. WifiTypes'
    BY <1>0, <1>13, Bounds, <2>1
       DEF ManagerConnect, stackVars, credVars, failVars, airVars, pinVars, WifiTypes
  <2>3. ScreenMeansSetup'
    BY <1>0, <1>13, Bounds
       DEF ManagerConnect, stackVars, credVars, failVars, airVars, pinVars, WifiTypes,
           ScreenMeansSetup
  <2> QED
    BY <2>2, <2>3 DEF WifiInv
<1> QED
  BY <1>1, <1>2, <1>3, <1>4, <1>5, <1>6, <1>7, <1>8, <1>9, <1>10, <1>11, <1>12, <1>13 DEF Loop

-----------------------------------------------------------------------------
(* The theorems. *)

LEMMA TypesAre == WifiTypes <=> WifiTypeOK
BY DEF WifiTypes, WifiTypeOK, Budgets

\* Every step keeps the invariant.
LEMMA WifiStep == WifiInv /\ [WifiNext]_wifiVars => WifiInv'
<1> SUFFICES ASSUME WifiInv, [WifiNext]_wifiVars PROVE WifiInv'
  OBVIOUS
<1>1. CASE UNCHANGED wifiVars
  BY <1>1 DEF wifiVars, stackVars, credVars, failVars, airVars, pinVars, WifiInv, WifiTypes,
              ScreenMeansSetup
<1> QED
  BY <1>1, StackOK, LoopOK DEF WifiNext

\* The invariant holds whatever the network, the phone, the stack and the restarts do.
THEOREM WifiInvariant == WifiSpec => []WifiInv
BY InitOK, WifiStep, PTL DEF WifiSpec

\* Every variable keeps its type: the counters of failures stop at the end of their byte.
THEOREM WifiTypesHold == WifiSpec => []WifiTypeOK
<1>1. WifiInv => WifiTypeOK
  BY TypesAre DEF WifiInv
<1> QED
  BY <1>1, WifiInvariant, PTL

\* While the setup screen is shown the device listens for credentials or has just got some
\* (start, stop and rejectCredentials keep active_ and SmartConfig together).
THEOREM SetupScreenIsTrue == WifiSpec => []ScreenMeansSetup
<1>1. WifiInv => ScreenMeansSetup
  BY DEF WifiInv
<1> QED
  BY <1>1, WifiInvariant, PTL
=============================================================================
