------------------------- MODULE MCLogicalInvocation -------------------------
(* Instances of LogicalInvocation for TLC, and its liveness.               *)
EXTENDS LogicalInvocation, TLC

CONSTANTS p1, p2, c1, c2

(* A slot in each of two processes.  The second process has a faster clock *)
(* and allows fewer recoveries than the first.                             *)
MCProcessOf == c1 :> p1 @@ c2 :> p2
MCLease == p1 :> 1 @@ p2 :> 1
MCMaxRecoveries == p1 :> 2 @@ p2 :> 1
MCSkew == p1 :> 0 @@ p2 :> 1

(* A claim is settled when the call is completed, or when every recovery   *)
(* is spent and the last lease has run out on every clock.                 *)
Settled(k) ==
  LET r == records[k]
  IN  \/ r.state = "completed"
      \/ /\ r.state = "claimed"
         /\ r.recoveries = r.max
         /\ \A p \in Processes : r.expires <= clock + Skew[p]

Retry(k) == \E c \in Calls : Begin(c, k, records[k].digest)

RecoverKey(k) == \E c \in Calls : calls[c].key = k /\ Recover(c)

(* Requests and their transactions end (both run under timeouts), clocks   *)
(* advance, and the client keeps retrying against a database that does     *)
(* not fail forever.                                                       *)
Fairness ==
  /\ WF_vars(Tick)
  /\ \A c \in Calls :
       /\ WF_vars(Abort(c) \/ ClassifyExisting(c) \/ Recover(c))
       /\ WF_vars(Abandon(c))
  /\ \A k \in Keys : SF_vars(Retry(k)) /\ SF_vars(RecoverKey(k))

LiveSpec == Spec /\ Fairness

(* No claim stays open for ever: a call whose client keeps retrying is     *)
(* completed or has used up its recoveries, even when every owner dies     *)
(* (acquire, the bounded recovery of an abandoned owner).                  *)
Settles == \A k \in Keys : records[k].state = "claimed" ~> Settled(k)
=============================================================================
