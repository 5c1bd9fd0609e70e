---------------------------- MODULE MCOtaReceiver ----------------------------
(* Instances of OtaReceiver for TLC. *)
EXTENDS OtaReceiver, TLC

CONSTANTS e1, e2, r1

SoloTarget   == (e1 :> "esp") @@ (e2 :> "esp")
SoloMajor    == (e1 :> 1) @@ (e2 :> 2) @@ (Factory :> 1)
SoloChunks   == (e1 :> 2) @@ (e2 :> 3)

PairedTarget == (e1 :> "esp") @@ (r1 :> "rp2040")
PairedMajor  == (e1 :> 2) @@ (r1 :> 2) @@ (Factory :> 1)
PairedChunks == (e1 :> 1) @@ (r1 :> 1)

ProxyTarget  == (r1 :> "rp2040")
ProxyMajor   == (r1 :> 1) @@ (Factory :> 1)
ProxyChunks  == (r1 :> 2)
=============================================================================
