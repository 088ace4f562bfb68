------------------------------- MODULE ToolCall -------------------------------
(***************************************************************************)
(* ToolCallService.Create (internal/app/tool_calls.go) on top of the       *)
(* acquisition protocol: the owner of a logical call is authorized, the    *)
(* decision and its evidence are recorded, a credential is leased, and the *)
(* connector is executed.  Every step is a call to another component       *)
(* during which other requests run, leases expire and processes die.       *)
(* Nothing in this path calls Complete: a logical call ends when its owner *)
(* returns, and its row stays claimed.                                     *)
(***************************************************************************)
EXTENDS LogicalInvocation, AuthorizationConstraints

CONSTANTS
  Decisions,  \* decision IDs of the authorization service
  Allowed,    \* the decisions whose outcome is allow
  Members, Arguments,
  Constraints,  \* the constraints of each decision
  Ceiling       \* the envelope of the tool version

ASSUME DecisionsAssumption ==
  /\ Allowed \subseteq Decisions /\ Null \notin Decisions
  /\ Constraints \in [Decisions -> ConstraintsOver(Members, Arguments)]
  /\ Ceiling \in ConstraintsOver(Members, Arguments)

(* The ceiling that Create builds: the operation of the tool version and   *)
(* its limits, the projected resources, and neither repositories nor       *)
(* arguments.                                                              *)
CreateCeiling ==
  /\ Ceiling.sets["actions"] # {}
  /\ Ceiling.sets["repositories"] = {}
  /\ DOMAIN Ceiling.arguments = {}
  /\ \A f \in LimitFields : Ceiling.limits[f] > 0

ASSUME CeilingAssumption == CreateCeiling

VARIABLES
  work,       \* how far the owner of a call has come
  decisions,  \* authorization_decisions, keyed by invocation and decision
  evidence,   \* decisions that have their audit event and outbox message
  leased,     \* requests that hold a credential lease
  sends       \* history: connector executions of each logical call

toolVars == <<work, decisions, evidence, leased, sends>>

allVars == <<vars, toolVars>>

Results == {"none", "existing", "conflict", "unavailable", "denied", "invalid",
            "credential_unavailable", "connector_error", "internal",
            "post_tool", "failed", "retry_wait", "ambiguous"}

(* Outcome classifications of a connector; "error" is a Go error, which    *)
(* says nothing about what the provider did.                               *)
Outcomes == {"confirmed_success", "definitely_rejected", "not_sent",
             "cancelled_pre_send", "transient_safe", "unknown", "error", "malformed"}

Work == [step : {"none", "owned", "decided", "recorded", "leased", "executing"},
         decision : Decisions \union {Null}, send : Nat, result : Results]

Execution == [invocation : InvocationIDs, decision : Decisions,
              constraints : ConstraintsOver(Members, Arguments), blind : BOOLEAN,
              outcome : Outcomes \union {"pending", "lost"}]

NoWork == [step |-> "none", decision |-> Null, send |-> 0, result |-> "none"]

ToolInit ==
  /\ Init
  /\ work = [c \in Calls |-> NoWork]
  /\ decisions = {}
  /\ evidence = {}
  /\ leased = {}
  /\ sends = [k \in Keys |-> <<>>]

-----------------------------------------------------------------------------
(* The request fails before it reaches the ledger: identity, key, tool,    *)
(* arguments or projection.                                                *)
Refuse(c) ==
  /\ calls[c].phase = "idle"
  /\ work' = [work EXCEPT ![c] = [NoWork EXCEPT !.result = "invalid"]]
  /\ UNCHANGED <<vars, decisions, evidence, leased, sends>>

Start(c, k, d) ==
  /\ Begin(c, k, d)
  /\ work' = [work EXCEPT ![c] = NoWork]
  /\ UNCHANGED <<decisions, evidence, leased, sends>>

(* What Create makes of the acquisition: owned and recovered calls go on,  *)
(* a mismatch is a replay conflict, anything else is an existing call.     *)
Acquired(kind) ==
  CASE kind \in {"owned", "recovered"} -> [NoWork EXCEPT !.step = "owned"]
    [] kind = "conflict" -> [NoWork EXCEPT !.result = "conflict"]
    [] kind = "error" -> [NoWork EXCEPT !.result = "unavailable"]
    [] OTHER -> [NoWork EXCEPT !.result = "existing"]

Acquire(c) ==
  /\ \/ \E id \in InvocationIDs : Insert(c, id)
     \/ Recover(c)
     \/ ClassifyExisting(c)
     \/ Abort(c)
  /\ work' = [work EXCEPT ![c] = Acquired(calls'[c].kind)]
  /\ UNCHANGED <<decisions, evidence, leased, sends>>

To(c, step) == work' = [work EXCEPT ![c] = [work[c] EXCEPT !.step = step]]

(* Variant: the lease is released on success only.                         *)
ReturnLeaking(c, result) ==
  /\ Abandon(c)
  /\ work' = [work EXCEPT ![c] = [NoWork EXCEPT !.result = result]]
  /\ leased' = IF result = "connector_error" THEN leased ELSE leased \ {c}
  /\ UNCHANGED <<decisions, evidence>>

(* Create returns; the deferred calls release the credential lease.        *)
Return(c, result) ==
  /\ Abandon(c)
  /\ work' = [work EXCEPT ![c] = [NoWork EXCEPT !.result = result]]
  /\ leased' = leased \ {c}
  /\ UNCHANGED <<decisions, evidence>>

(* AuthorizeToolInvocation and ValidateFor.  The authorizer may repeat a   *)
(* decision it gave before (a cached one).                                 *)
Authorize(c) ==
  /\ work[c].step = "owned"
  /\ \/ /\ \E a \in Decisions :
             work' = [work EXCEPT ![c] = [step |-> "decided", decision |-> a,
                                          send |-> 0, result |-> "none"]]
        /\ UNCHANGED <<vars, decisions, evidence, leased>>
     \/ Return(c, "unavailable")
     \/ Return(c, "denied")
  /\ UNCHANGED sends

(* Variant: a decision that was recorded before is accepted again.         *)
RecordableAgain(pair) == TRUE

(* The primary key of authorization_decisions.                             *)
Recordable(pair) == pair \notin decisions

(* Variant: a denial is recorded and not acted on.                         *)
ProceedsAnyway(a) == TRUE

Proceeds(a) == a \in Allowed

(* RecordAuthorization, through the protected-mutation executor: the       *)
(* decision, its audit event and its outbox message commit together or not *)
(* at all, and the answer may be lost; only an allow goes on.              *)
RecordAuthorization(c) ==
  LET a == work[c].decision
      pair == [invocation |-> calls[c].invocation, decision |-> a]
      answered(result) == /\ Abandon(c)
                          /\ work' = [work EXCEPT ![c] = [NoWork EXCEPT !.result = result]]
  IN  /\ work[c].step = "decided"
      /\ \/ /\ Recordable(pair)
            /\ decisions' = decisions \union {pair}
            /\ evidence' = evidence \union {pair}
            /\ \/ Proceeds(a) /\ To(c, "recorded") /\ UNCHANGED vars
               \/ ~Proceeds(a) /\ answered("denied")
               \/ answered("unavailable")
         \/ answered("unavailable") /\ UNCHANGED <<decisions, evidence>>
      /\ UNCHANGED <<leased, sends>>

(* The constraints are narrowed, which may fail, and the credential is     *)
(* resolved, which may fail or return no lease.                            *)
Resolve(c) ==
  /\ work[c].step = "recorded"
  /\ IF Enforceable(Ceiling, Constraints[work[c].decision])
       THEN \/ /\ To(c, "leased")
               /\ leased' = leased \union {c}
               /\ UNCHANGED <<vars, decisions, evidence>>
            \/ Return(c, "credential_unavailable")
            \/ Return(c, "internal")
       ELSE Return(c, "denied")
  /\ UNCHANGED sends

(* The connector is handed the request; an execution is blind when the     *)
(* outcome of an earlier one is known to be unknown.                       *)
Execute(c) ==
  LET k == calls[c].key
  IN  /\ work[c].step = "leased"
      /\ sends' = [sends EXCEPT ![k] =
                     Append(@, [invocation |-> calls[c].invocation,
                                decision |-> work[c].decision,
                                constraints |-> NarrowAuthorizationConstraints(
                                                  Ceiling, Constraints[work[c].decision]),
                                blind |-> \E n \in 1..Len(sends[k]) :
                                            sends[k][n].outcome = "unknown",
                                outcome |-> "pending"])]
      /\ work' = [work EXCEPT ![c] = [step |-> "executing", decision |-> work[c].decision,
                                      send |-> Len(sends[k]) + 1, result |-> "none"]]
      /\ UNCHANGED <<vars, decisions, evidence, leased>>

(* connectorState, after the checks on the error and the evidence.         *)
ConnectorState(outcome) ==
  CASE outcome = "confirmed_success" -> "post_tool"
    [] outcome \in {"definitely_rejected", "not_sent", "cancelled_pre_send"} -> "failed"
    [] outcome = "transient_safe" -> "retry_wait"
    [] outcome = "unknown" -> "ambiguous"
    [] outcome = "error" -> "connector_error"
    [] outcome = "malformed" -> "internal"

Ended(s, outcome) ==
  [invocation |-> s.invocation, decision |-> s.decision, constraints |-> s.constraints,
   blind |-> s.blind, outcome |-> outcome]

(* Variant: a transient failure is retried by the owner itself.            *)
FinishRetrying(c, outcome) ==
  LET k == calls[c].key
      n == work[c].send
  IN  /\ work[c].step = "executing"
      /\ sends' = [sends EXCEPT ![k] = [sends[k] EXCEPT ![n] = Ended(@, outcome)]]
      /\ IF outcome = "transient_safe"
           THEN To(c, "leased") /\ UNCHANGED <<vars, decisions, evidence, leased>>
           ELSE Return(c, ConnectorState(outcome))

(* The connector returns and Create answers.                               *)
Finish(c, outcome) ==
  LET k == calls[c].key
      n == work[c].send
  IN  /\ work[c].step = "executing"
      /\ sends' = [sends EXCEPT ![k] = [sends[k] EXCEPT ![n] = Ended(@, outcome)]]
      /\ Return(c, ConnectorState(outcome))

(* A process dies with all its requests; what they sent is not known.      *)
Crash(p) ==
  LET mine == {c \in Calls : ProcessOf[c] = p}
  IN  /\ \E c \in mine : calls[c].phase # "idle"
      /\ calls' = [c \in Calls |->
                     IF c \in mine
                       THEN [calls[c] EXCEPT !.phase = "idle", !.kind = "none"]
                       ELSE calls[c]]
      /\ work' = [c \in Calls |-> IF c \in mine THEN NoWork ELSE work[c]]
      /\ leased' = leased \ mine
      /\ sends' = [k \in Keys |-> [n \in 1..Len(sends[k]) |->
                     IF \E c \in mine : /\ work[c].step = "executing"
                                        /\ calls[c].key = k
                                        /\ work[c].send = n
                       THEN Ended(sends[k][n], "lost")
                       ELSE sends[k][n]]]
      /\ UNCHANGED <<records, invocations, clock, grants, writer, decisions, evidence>>

Pass == Tick /\ UNCHANGED toolVars

ToolNext ==
  \/ \E c \in Calls : Refuse(c)
  \/ \E c \in Calls, k \in Keys, d \in Digests : Start(c, k, d)
  \/ \E c \in Calls : Acquire(c)
  \/ \E c \in Calls : Authorize(c)
  \/ \E c \in Calls : RecordAuthorization(c)
  \/ \E c \in Calls : Resolve(c)
  \/ \E c \in Calls : Execute(c)
  \/ \E c \in Calls, outcome \in Outcomes : Finish(c, outcome)
  \/ \E p \in Processes : Crash(p)
  \/ Pass

ToolSpec == ToolInit /\ [][ToolNext]_allVars

-----------------------------------------------------------------------------
(* Every connector execution, also one after a crash and a recovery, is of *)
(* the durable invocation of its logical call and under an allow decision  *)
(* that was recorded for that invocation with its evidence before the send *)
(* (Create, the order of RecordAuthorization, Resolve and Execute).        *)
SendsAreAuthorized ==
  \A k \in Keys : \A n \in 1..Len(sends[k]) :
    LET s == sends[k][n]
        pair == [invocation |-> s.invocation, decision |-> s.decision]
    IN  /\ s.invocation = records[k].invocation
        /\ s.decision \in Allowed
        /\ pair \in decisions
        /\ pair \in evidence

(* No decision is spent twice: two executions of a logical call are under  *)
(* different recorded decisions, whatever the authorizer caches (the       *)
(* primary key of authorization_decisions).                                *)
DecisionsAreSpentOnce ==
  \A k \in Keys : \A m, n \in 1..Len(sends[k]) :
    m # n => sends[k][m].decision # sends[k][n].decision

(* A logical call is executed at most once per ownership of it, and so at  *)
(* most 1 + max_recoveries times, however often the client retries and     *)
(* processes die.                                                          *)
BoundedSends == \A k \in Keys : Len(sends[k]) <= Len(grants[k])

(* A credential lease is held only by a request that is running and that   *)
(* has an allow on record: every way out of Create releases it.            *)
NoLeakedLease ==
  \A c \in leased :
    /\ work[c].step \in {"leased", "executing"}
    /\ [invocation |-> calls[c].invocation, decision |-> work[c].decision] \in decisions

(* An execution runs within the envelope of the tool version, narrowed by  *)
(* the recorded decision it runs under: the actions, and the resources if  *)
(* the call projects any, are a non-empty part of both, and the limits are *)
(* positive and above neither (Create, NarrowAuthorizationConstraints).    *)
ConstraintsOnlyNarrow ==
  \A k \in Keys : \A n \in 1..Len(sends[k]) :
    LET s == sends[k][n]
    IN  /\ Restricts(s.constraints, Ceiling, Constraints[s.decision])
        /\ s.constraints.sets["actions"] # {}
        /\ \A f \in LimitFields : s.constraints.limits[f] > 0

(* What NarrowAuthorizationConstraints and the authorization contract say: *)
(* "a non-empty set whose intersection is empty fails closed", "Empty      *)
(* intersection is denial".  Of the sets that the decision of an execution *)
(* restricts, none is unrestricted when the connector runs.                *)
EmptyIntersectionIsDenied ==
  \A k \in Keys : \A n \in 1..Len(sends[k]) :
    StaysRestricted(sends[k][n].constraints, Constraints[sends[k][n].decision])

(* What the retry contract says of an unknown outcome: it "must never be   *)
(* ... silently retried".                                                  *)
UnknownIsNotResent ==
  \A k \in Keys : \A n \in 1..Len(sends[k]) : ~sends[k][n].blind
=============================================================================
