---------------------------- MODULE MCInvocation ----------------------------
(* The two components of one invocation for TLC, its attempts and its      *)
(* state, and the liveness of the attempts.  The components share no       *)
(* variable, so each is explored while the other is at its beginning.      *)
EXTENDS MCAttemptClaiming, InvocationState

MCInit == Init /\ StateInit

MCNext ==
  \/ StateInit /\ Next /\ UNCHANGED stateVars
  \/ Init /\ StateNext /\ UNCHANGED vars

(* Finalize ends and its answer arrives.                                   *)
Answered(w) == (\E o \in Outcomes : Finalize(w, o)) /\ workers'[w] = Idle

(* Operations that were requested run, time passes, and workers keep       *)
(* asking for the invocation.  Not every claim of a worker fails, and not  *)
(* every answer to its Finalize is lost (hence SF).                        *)
Fairness ==
  /\ WF_vars(Tick)
  /\ \A w \in Workers :
       /\ SF_vars(Claim(w))
       /\ SF_vars(Answered(w))
       /\ WF_vars(IsCurrent(w))
       /\ WF_vars(Request(w, "claim"))
       /\ WF_vars(Request(w, "finalize"))

(* The fairness applies unless the behaviour is one of the state.          *)
MCSpec == MCInit /\ [][MCNext]_<<vars, stateVars>> /\ (Fairness \/ <>[]Init)

(* An attempt whose worker died does not block the invocation: it is       *)
(* finished or a newer one takes its place, unless the invocation is no    *)
(* longer to be executed or the bound on attempts is reached.              *)
Overtaken ==
  \A i \in 1..MaxAttempts - 1 :
    (Len(attempts) = i) ~>
      \/ Len(attempts) # i
      \/ attempts[i].outcome # Null
      \/ ~eligible
=============================================================================
