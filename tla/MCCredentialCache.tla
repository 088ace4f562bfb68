-------------------------- MODULE MCCredentialCache --------------------------
(* Instances of CredentialCache for TLC, and its liveness.                 *)
EXTENDS CredentialCache, TLC

CONSTANTS b1, r1, r2

(* One binding, revised between two runs.                                  *)
MCRequests == {[binding |-> b1, run |-> r1, revision |-> 1],
               [binding |-> b1, run |-> r2, revision |-> 2]}

(* The provider answers (its calls have deadlines), and goroutines that can*)
(* run do; nothing makes a context end, so Cancel has no fairness.         *)
LiveSpec ==
  /\ Spec
  /\ \A c \in Callers : WF_vars(Load(c) \/ Store(c) \/ Wake(c))

(* A caller that waits for another one's load goes on, whether the load    *)
(* succeeded, failed, or found the cache closed or in another epoch.       *)
WaitersGoOn ==
  \A c \in Callers : callers[c].phase = "waiting" ~> callers[c].phase # "waiting"
=============================================================================
