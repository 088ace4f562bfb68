--------------------------- MODULE MCAuthorization ---------------------------
(* Instances of Authorization for TLC.                                     *)
EXTENDS Authorization, TLC

(* The gateway observes a new epoch; ThinkPixelAG may also be at a later   *)
(* checkpoint of it.                                                       *)
MCFeed == 0 :> [epoch |-> 1, checkpoint |-> "a"] @@ 1 :> [epoch |-> 2, checkpoint |-> "b"]
MCRevocations == {MCFeed[0], MCFeed[1], [epoch |-> 2, checkpoint |-> "c"]}

(* A new decision, one that was made earlier and is about to expire, and   *)
(* one that is not valid yet.                                              *)
MCTerms == {[age |-> 0, delay |-> 0, life |-> 3], [age |-> 1, delay |-> 0, life |-> 1],
            [age |-> 0, delay |-> 1, life |-> 2]}

Symmetry == Permutations(Calls)
=============================================================================
