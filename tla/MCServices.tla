----------------------------- MODULE MCServices -----------------------------
(***************************************************************************)
(* Three services of the library that share nothing, in one run: the error *)
(* bus, the working-time counter and the configuration transfer.  As no    *)
(* state of one says anything about another, only one of them moves in a   *)
(* behaviour.                                                              *)
(***************************************************************************)
EXTENDS ErrorBus, WorkTime, ConfigTransfer

VARIABLE focus  \* the service that moves

MCInit == focus \in {"bus", "time", "config"} /\ BusInit /\ WtInit /\ CfgInit

MCNext ==
  \/ focus = "bus" /\ BusNext /\ UNCHANGED <<wtVars, cfgVars, focus>>
  \/ focus = "time" /\ WtNext /\ UNCHANGED <<busVars, cfgVars, focus>>
  \/ focus = "config" /\ CfgNext /\ UNCHANGED <<busVars, wtVars, focus>>

\* Type invariant of the three services.
ServicesTypeOK == BusTypeOK /\ WtTypeOK /\ CfgTypeOK

MCSpec == MCInit /\ [][MCNext]_<<busVars, wtVars, cfgVars, focus>> /\ BusFairness
=============================================================================
