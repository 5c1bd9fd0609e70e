----------------------------- MODULE Ownership ------------------------------
(***************************************************************************)
(* What the device promises of its binding (src/cloud, "the secret in NVS  *)
(* is the only truth about the binding"), without a network, a loop, a     *)
(* power loss or a copy of the secret anywhere.  The portal issues a       *)
(* secret once, and only to a device that has none; the device has it from *)
(* then on, or never, if the answer or the save is lost; it forgets it     *)
(* once, and has nothing then but what is issued anew.                     *)
(***************************************************************************)
CONSTANTS Bindings, None

VARIABLES
  secret,    \* the binding the device has
  issued,    \* those the portal has issued a secret for
  forgotten  \* those the device had and gave up

Unowned == secret = None /\ issued = {} /\ forgotten = {}

Issue(b) ==
  /\ secret = None /\ b \notin issued
  /\ issued' = issued \cup {b} /\ secret' \in {None, b}
  /\ UNCHANGED forgotten

Forget ==
  /\ secret # None /\ secret' = None
  /\ forgotten' = forgotten \cup {secret} /\ UNCHANGED issued

OwnershipNext == Forget \/ \E b \in Bindings : Issue(b)
=============================================================================
