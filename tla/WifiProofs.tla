----------------------------- MODULE WifiProofs ------------------------------
(***************************************************************************)
(* The network and the access point in one behaviour, as MCWifi composes   *)
(* them: a step of one is a stutter of the other, so what holds of each    *)
(* alone holds of both.                                                    *)
(***************************************************************************)
EXTENDS MCWifi, ProvisioningProofs, ApChoiceProofs

\* A behaviour of the composition is one of the choice of access points, and, its fairness
\* apart, one of the provisioning.
LEMMA WifiApart == MCSpec => /\ WifiInit /\ [][WifiNext]_wifiVars
                             /\ ApSpec
<1>1. MCInit => WifiInit /\ ApInit
  BY DEF MCInit
<1>2. [MCNext]_<<wifiVars, apVars, focus>> => [WifiNext]_wifiVars /\ [ApNext]_apVars
  BY DEF MCNext
<1> QED
  BY <1>1, <1>2, PTL DEF MCSpec, ApSpec

\* Every variable of the two keeps its type: the counters of failures, of looks in vain and
\* of bans stop where the code stops them.
THEOREM WifiAndPointTypes == MCSpec => []MCTypeOK
<1>1. WifiInv => WifiTypeOK
  BY TypesAre DEF WifiInv
<1>2. WifiTypeOK /\ ApTypeOK => MCTypeOK
  BY DEF MCTypeOK
<1> QED
  BY <1>1, <1>2, WifiApart, InitOK, WifiStep, ApTypesHold, PTL

\* What the screen says and what the next choice is, in the behaviours that are
\* model-checked.
THEOREM WifiTogether == MCSpec => []ScreenMeansSetup /\ OthersFirst
<1>1. WifiInv => ScreenMeansSetup
  BY DEF WifiInv
<1> QED
  BY <1>1, WifiApart, InitOK, WifiStep, OthersComeFirst, PTL
=============================================================================
