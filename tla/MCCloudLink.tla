---------------------------- MODULE MCCloudLink ----------------------------
(* Instances of CloudLink for TLC. *)
EXTENDS CloudLink, TLC

BindingSymmetry == Permutations(Bindings)
=============================================================================
