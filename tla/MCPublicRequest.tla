--------------------------- MODULE MCPublicRequest ---------------------------
(* Instances of PublicRequest for TLC, and its liveness.                   *)
EXTENDS PublicRequest, TLC

CONSTANTS k1, k2, k3, t1, t2, w1, w2

Good(k) == [limited |-> TRUE, oversized |-> FALSE, exempt |-> FALSE, forged |-> FALSE,
            bearers |-> 1, wellFormed |-> TRUE, kid |-> k, signed |-> TRUE,
            addressed |-> TRUE, starts |-> 0, expires |-> 2, tenants |-> {t1},
            readable |-> TRUE, hint |-> Null, leaves |-> {w1}]

(* A good request under each key, one on an exempt path without a token,   *)
(* and requests that are wrong in one way.                                 *)
MCSubmissions ==
  {Good(k1), Good(k2),
   [Good(k1) EXCEPT !.limited = FALSE, !.exempt = TRUE, !.bearers = 0],
   [Good(k1) EXCEPT !.oversized = TRUE],
   [Good(k2) EXCEPT !.readable = FALSE],
   [Good(k1) EXCEPT !.limited = FALSE, !.forged = TRUE],
   [Good(k2) EXCEPT !.limited = FALSE, !.tenants = {t1, t2}],
   [Good(k1) EXCEPT !.limited = FALSE, !.hint = t2]}

MCKeySets == {{k1}, {k1, k2}, {k1, k3}}

(* A request that does not wait goes on: fetches and handlers have         *)
(* timeouts.  A lock that is free again and again is in the end taken, as  *)
(* Go's mutex hands it to a waiter that has waited long.                   *)
Proceed(r) ==
  Screen(r) \/ FetchKeys(r) \/ RefreshFails(r) \/ Install(r) \/ Verify(r) \/ Handle(r)

Fairness == \A r \in Requests : WF_vars(Proceed(r)) /\ SF_vars(TakeLock(r))

LiveSpec == Spec /\ Fairness

(* Every request is answered, however many wait for the lock of the        *)
(* issuer while its endpoints fail.                                        *)
EveryRequestIsAnswered ==
  \A r \in Requests : requests[r].phase # "idle" ~> requests[r].phase = "idle"
=============================================================================
