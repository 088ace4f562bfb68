--------------------------- MODULE InvocationRules ---------------------------
(* The closed transition table of an invocation                            *)
(* (internal/invocationstate/state.go).                                    *)

Terminal == {"succeeded", "failed", "denied", "blocked", "cancelled"}

States == Terminal \union
  {"received", "validated", "authorized", "pre_tool_passed",
   "waiting_for_approval", "ready", "executing", "retry_wait", "reconciling",
   "ambiguous", "manual_review", "post_tool"}

(* The adapters are valid actors that no rule names.                       *)
Actors == {"ingress", "orchestrator", "worker", "reconciler", "operator",
           "ag_adapter", "gr_adapter"}

(* The evidence a command can carry: ApprovalSatisfied, CurrentFence and   *)
(* ResolutionRecorded.                                                     *)
Evidence == {"approval", "fence", "resolution"}

(* The rule of every edge from one state to some targets.                  *)
Allow(from, targets, actors, needs) ==
  {[from |-> from, to |-> t, actors |-> actors, needs |-> needs] : t \in targets}

Front == {"ingress", "orchestrator"}

Orch == {"orchestrator"}

(* Up to the end of the controls that precede execution.                   *)
ControlRules == UNION {
  Allow("received", {"validated", "failed", "cancelled"}, Front, {}),
  Allow("validated", {"authorized", "denied"}, Orch, {}),
  Allow("validated", {"failed", "cancelled"}, Front, {}),
  Allow("authorized", {"pre_tool_passed", "validated", "failed", "blocked"}, Orch, {}),
  Allow("authorized", {"cancelled"}, Front, {}),
  Allow("pre_tool_passed",
        {"waiting_for_approval", "ready", "validated", "failed", "blocked"}, Orch, {}),
  Allow("pre_tool_passed", {"cancelled"}, Front, {})}

(* Variant: an approval is awaited but not required.                       *)
ApprovalRulesWaived == UNION {
  Allow("waiting_for_approval", {"ready", "validated", "failed", "blocked"}, Orch, {}),
  Allow("waiting_for_approval", {"cancelled"}, Front, {})}

ApprovalRules == UNION {
  Allow("waiting_for_approval", {"ready"}, Orch, {"approval"}),
  Allow("waiting_for_approval", {"validated", "failed", "blocked"}, Orch, {}),
  Allow("waiting_for_approval", {"cancelled"}, Front, {})}

(* Execution by the worker with the current fence.                         *)
ExecutionRules == UNION {
  Allow("ready", {"executing"}, {"worker"}, {"fence"}),
  Allow("ready", {"failed"}, Orch, {}),
  Allow("ready", {"cancelled"}, Front, {}),
  Allow("executing", {"post_tool", "retry_wait", "ambiguous", "failed"}, {"worker"}, {"fence"}),
  Allow("retry_wait", {"executing"}, {"worker"}, {"fence"}),
  Allow("retry_wait", {"failed", "cancelled"}, Orch, {})}

(* Variant: an ambiguous outcome is retried without being reconciled.      *)
ResolutionRulesBlind == UNION {
  Allow("ambiguous", {"reconciling", "retry_wait"}, {"reconciler"}, {"fence"}),
  Allow("reconciling", {"post_tool", "retry_wait"}, {"reconciler"}, {"fence"})}

(* Reconciliation and privileged resolution of an unknown outcome, and the *)
(* handling of a confirmed one.                                            *)
ResolutionRules == UNION {
  Allow("ambiguous", {"reconciling"}, {"reconciler"}, {"fence"}),
  Allow("ambiguous", {"manual_review"}, {"orchestrator", "reconciler"}, {}),
  Allow("reconciling", {"post_tool", "retry_wait", "manual_review", "failed", "cancelled"},
        {"reconciler"}, {"fence"}),
  Allow("manual_review", {"post_tool", "retry_wait", "failed", "cancelled"},
        {"operator"}, {"resolution"}),
  Allow("post_tool", {"succeeded", "failed", "blocked"}, Orch, {})}

Rules == ControlRules \union ApprovalRules \union ExecutionRules \union ResolutionRules
=============================================================================
