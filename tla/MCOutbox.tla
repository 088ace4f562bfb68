------------------------------- MODULE MCOutbox -------------------------------
(* Instances of Outbox for TLC, and its liveness.                          *)
EXTENDS Outbox, TLC

CONSTANTS e1, p1, p2

MCMessagesOf == e1 :> Messages
MCSkew == p1 :> 0 @@ p2 :> 1

(* Publisher loops run, time passes, and the sink answers.  A row is       *)
(* skipped only while another transaction has it locked, and transactions  *)
(* end, so a publisher does not miss the same row for ever.                *)
Fairness ==
  /\ WF_vars(Tick)
  /\ \A p \in Publishers :
       /\ WF_vars(Poll(p))
       /\ SF_vars(Claim(p))
       /\ WF_vars(NoWork(p))
       /\ WF_vars(\E verdict \in Classes \union {"published"} : Publish(p, verdict))
       /\ WF_vars(Settle(p))

LiveSpec == Spec /\ Fairness

(* Every message of a committed mutation is in the end published or dead   *)
(* lettered, whatever the sink answers, when publishers crash or overrun   *)
(* their leases only finitely often.                                       *)
Delivered ==
  \A e \in Events : \A m \in MessagesOf[e] :
    e \in audit ~> messages[m].state \in {"published", "dead"}
=============================================================================
