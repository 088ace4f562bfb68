------------------------- MODULE MCAttemptClaiming -------------------------
(* Instances of AttemptClaiming for TLC.                                   *)
EXTENDS AttemptClaiming, TLC

CONSTANTS w1, w2

(* The second worker's clock is ahead of the first one's.                   *)
MCLease == w1 :> 1 @@ w2 :> 1
MCSkew == w1 :> 0 @@ w2 :> 1
=============================================================================
