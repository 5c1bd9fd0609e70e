------------------------------- MODULE MCWifi -------------------------------
(***************************************************************************)
(* Getting onto the network and choosing an access point, in one run: they *)
(* share no state here, so only one of them moves in a behaviour.          *)
(***************************************************************************)
EXTENDS Provisioning, ApChoice

VARIABLE focus  \* what moves

MCInit ==
  /\ focus \in {"network", "point"} /\ WifiInit /\ ApInit
  /\ focus = "point" => net = None /\ stored = None

MCNext ==
  \/ focus = "network" /\ WifiNext /\ UNCHANGED <<apVars, focus>>
  \/ focus = "point" /\ ApNext /\ UNCHANGED <<wifiVars, focus>>

MCSpec == MCInit /\ [][MCNext]_<<wifiVars, apVars, focus>> /\ (focus = "network" => WifiFairness)

\* The type invariants of the two.
MCTypeOK == WifiTypeOK /\ ApTypeOK
=============================================================================
