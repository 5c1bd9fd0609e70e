--------------------------- MODULE MCIntegrations ---------------------------
(***************************************************************************)
(* Home Assistant and the printers are switched independently and meet in  *)
(* the status message only: a behaviour moves one side and keeps the other *)
(* switched off.                                                           *)
(***************************************************************************)
EXTENDS Integrations

VARIABLE focus  \* the side that may be on

OneSide(f, choice, sections) ==
  /\ f = "printers" => choice # "ha" /\ ~sections["ha"].on
  /\ f = "ha" => choice \notin Printers /\ \A p \in Printers : ~sections[p].on

MCInit == IntInit /\ focus \in {"printers", "ha"} /\ OneSide(focus, selected, config)

MCNext == IntNext /\ OneSide(focus, selected', config') /\ UNCHANGED focus

MCSpec == MCInit /\ [][MCNext]_<<intVars, focus>> /\ IntFairness
=============================================================================
