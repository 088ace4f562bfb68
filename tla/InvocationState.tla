--------------------------- MODULE InvocationState ---------------------------
(***************************************************************************)
(* Optimistic transitions of one invocation                                *)
(* (internal/invocationstate/state.go).  A holder reads a snapshot,        *)
(* decides on a command and submits it later; other holders may have moved *)
(* the invocation in between.  Transition is a pure function of the        *)
(* snapshot and the command, so submitting is one step.                    *)
(***************************************************************************)
EXTENDS InvocationRules, Integers

CONSTANTS
  Holders,     \* callers that hold a snapshot
  MaxVersion   \* math.MaxInt64

ASSUME VersionAssumption == MaxVersion \in Nat

VARIABLES
  snapshot,  \* the Snapshot of the invocation
  seen,      \* the Snapshot each holder read last
  basis,     \* history: the state the last accepted command was decided on
  passed,    \* history: states passed, approval given, since "validated"
  doubt      \* history: an unknown outcome has not been resolved

stateVars == <<snapshot, seen, basis, passed, doubt>>

StateInit ==
  /\ snapshot = [state |-> "received", version |-> 0]
  /\ seen = [h \in Holders |-> snapshot]
  /\ basis = "received"
  /\ passed = {}
  /\ doubt = FALSE

-----------------------------------------------------------------------------
(* The holder loads the invocation.                                        *)
Read(h) ==
  /\ seen' = [seen EXCEPT ![h] = snapshot]
  /\ UNCHANGED <<snapshot, basis, passed, doubt>>

(* The guards of Transition after the version check, in their order.       *)
CheckEdge(s, c) ==
  LET edge == {r \in Rules : r.from = s.state /\ r.to = c.target}
      missing == UNION {r.needs \ c.evidence : r \in edge}
  IN  IF s.state \in Terminal THEN "terminal_immutable"
      ELSE IF s.version = MaxVersion THEN "version_exhausted"
      ELSE IF edge = {} THEN "illegal_transition"
      ELSE IF \E r \in edge : c.actor \notin r.actors THEN "actor_forbidden"
      ELSE IF "approval" \in missing THEN "approval_required"
      ELSE IF "fence" \in missing THEN "current_fence"
      ELSE IF "resolution" \in missing THEN "resolution_required"
      ELSE "accepted"

(* Variant: the version is advanced but not compared.                      *)
CheckUnversioned(s, c) == CheckEdge(s, c)

(* The guards of Transition; the typed command needs no validity check.    *)
Check(s, c) ==
  IF c.expected # s.version THEN "version_conflict" ELSE CheckEdge(s, c)

(* The Snapshot that Transition returns; its version is an int64.          *)
Moved(s, c) ==
  [state |-> c.target,
   version |-> IF s.version = MaxVersion THEN -MaxVersion - 1 ELSE s.version + 1]

(* Transition: an accepted command moves the invocation, a refused one     *)
(* leaves it as it is.                                                     *)
Transition(h, target, actor, evidence) ==
  LET c == [target |-> target, actor |-> actor, expected |-> seen[h].version,
            evidence |-> evidence]
  IN  /\ IF Check(snapshot, c) = "accepted"
           THEN /\ snapshot' = Moved(snapshot, c)
                /\ basis' = seen[h].state
                /\ passed' = IF target = "validated" THEN {}
                             ELSE passed \union {target} \union (evidence \intersect {"approval"})
                /\ doubt' = \/ target = "ambiguous"
                            \/ /\ doubt
                               /\ ~(snapshot.state = "reconciling" /\ "fence" \in evidence
                                    /\ target # "manual_review")
                               /\ ~(snapshot.state = "manual_review" /\ "resolution" \in evidence)
           ELSE UNCHANGED <<snapshot, basis, passed, doubt>>
      /\ UNCHANGED seen

(* No rule needs more than one piece of evidence.                          *)
Offered == {{}} \union {{e} : e \in Evidence}

StateNext ==
  \/ \E h \in Holders : Read(h)
  \/ \E h \in Holders, target \in States, actor \in Actors, evidence \in Offered :
       Transition(h, target, actor, evidence)

StateSpec == StateInit /\ [][StateNext]_stateVars

-----------------------------------------------------------------------------
(* A command moves the invocation only from the state its holder decided   *)
(* on, whatever other holders did since the read: the versions rule out    *)
(* lost updates, also when the invocation came back to the same state, and *)
(* never repeat, also at the last one (Transition, ExpectedVersion).       *)
DecidedOnCurrent ==
  [][snapshot' # snapshot =>
       basis' = snapshot.state /\ snapshot'.version > snapshot.version]_stateVars

(* An invocation executes, and so succeeds or becomes ambiguous, only      *)
(* after it was authorized and checked for its current arguments, that is  *)
(* since it last returned to "validated", and, where an approval was       *)
(* awaited, after that approval was given (rules).                         *)
ControlledExecution ==
  snapshot.state \in {"ready", "executing", "retry_wait", "ambiguous", "reconciling",
                      "manual_review", "post_tool", "succeeded"} =>
    /\ {"authorized", "pre_tool_passed", "ready"} \subseteq passed
    /\ "waiting_for_approval" \in passed => "approval" \in passed

(* An unknown outcome is never retried, failed, cancelled or reported as a *)
(* success until a reconciler with the current fence or an operator with a *)
(* recorded resolution has settled it ("cannot execute again without an    *)
(* allowed reconciliation transition", rules).                             *)
NoBlindRetry == doubt => snapshot.state \in {"ambiguous", "reconciling", "manual_review"}
=============================================================================
