--------------------------- MODULE MCRelayerPool ---------------------------
(* Two relayers and three goroutines, so that one of them has to wait. *)
EXTENDS RelayerPool, TLC
CONSTANTS r1, r2
TwoRelayers == <<r1, r2>>
=============================================================================
