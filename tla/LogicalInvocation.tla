-------------------------- MODULE LogicalInvocation --------------------------
(***************************************************************************)
(* Idempotent acquisition of a logical tool call                           *)
(* (internal/adapters/postgres/invocation_acquisition.go): the             *)
(* idempotency_records row of one (tenant, run, tool_call_id), the leases  *)
(* on it, their bounded recovery, and the replay of a completed call.      *)
(*                                                                         *)
(* A call is one Acquire request running in a gateway process.  It reads   *)
(* its process's clock first (Begin) and runs its transaction later, so    *)
(* the time it compares leases with may be stale, and the clocks of two    *)
(* processes may differ.  INSERT ... ON CONFLICT DO UPDATE locks the row   *)
(* even when its WHERE is false, so one transaction is one step.           *)
(***************************************************************************)
EXTENDS Integers, Sequences

CONSTANTS
  Processes,      \* gateway processes; a process is its ledger's ownerID
  Calls,          \* slots for concurrent Acquire requests
  ProcessOf,      \* the process a slot belongs to
  Keys,           \* (run, tool_call_id) pairs of one tenant
  Digests,        \* logicalRequestDigest values: tool, version, arguments
  InvocationIDs,  \* invocation UUIDs
  Payloads,       \* safe replay envelopes
  Lease,          \* LeaseDuration configured in each process
  MaxRecoveries,  \* MaxRecoveries configured in each process
  Skew,           \* distance of each process's clock from the common clock
  Null

ASSUME ConstantsAssumption ==
  /\ ProcessOf \in [Calls -> Processes]
  /\ Lease \in [Processes -> Nat \ {0}]
  /\ MaxRecoveries \in [Processes -> 0..10]
  /\ Skew \in [Processes -> Int]
  /\ Null \notin Processes \union Digests \union InvocationIDs \union Payloads \union Keys
  /\ Null \notin [key : Keys, digest : Digests]

VARIABLES
  records,      \* idempotency_records, one row per key
  invocations,  \* invocations table: the key and digest an id was created for
  calls,        \* the Acquire requests
  clock,        \* the common clock
  grants,       \* history: the ownerships handed out for each key, in order
  writer        \* history: the process whose Complete succeeded for each key

vars == <<records, invocations, calls, clock, grants, writer>>

Absent == [state |-> "absent", digest |-> Null, owner |-> Null, expires |-> 0,
           recoveries |-> 0, max |-> 0, invocation |-> Null, payload |-> Null]

Kinds == {"owned", "recovered", "pending", "replay", "conflict",
          "recovery_exhausted", "error", "completed", "not_current", "none"}

Row(state, owners, payloads) ==
  [state : {state}, digest : Digests, owner : owners, expires : Int,
   recoveries : Nat, max : 0..10, invocation : InvocationIDs, payload : payloads]

(* No row yet, or a row that satisfies the CHECKs of the table: an owner   *)
(* exactly while claimed, an envelope exactly when completed.              *)
Record ==
  {Absent} \union Row("claimed", Processes, {Null})
           \union Row("completed", {Null}, Payloads)

Call == [phase : {"idle", "acquiring", "holding"},
         key : Keys \union {Null},
         digest : Digests \union {Null},
         now : Int,
         kind : Kinds,
         invocation : InvocationIDs \union {Null},
         payload : Payloads \union {Null}]

Grant == [owner : Processes, invocation : InvocationIDs, digest : Digests,
          from : Int, until : Int]

Created == [key : Keys, digest : Digests]

(* The tables, the requests and the histories keep their types; the rows   *)
(* satisfy the CHECK constraints of migrations 00005 and 00006.            *)
TypeOK ==
  /\ records \in [Keys -> Record]
  /\ invocations \in [InvocationIDs -> Created \union {Null}]
  /\ calls \in [Calls -> Call]
  /\ clock \in Nat
  /\ grants \in [Keys -> Seq(Grant)]
  /\ writer \in [Keys -> Processes \union {Null}]

Init ==
  /\ records = [k \in Keys |-> Absent]
  /\ invocations = [i \in InvocationIDs |-> Null]
  /\ calls = [c \in Calls |->
                [phase |-> "idle", key |-> Null, digest |-> Null, now |-> 0,
                 kind |-> "none", invocation |-> Null, payload |-> Null]]
  /\ clock = 0
  /\ grants = [k \in Keys |-> <<>>]
  /\ writer = [k \in Keys |-> Null]

-----------------------------------------------------------------------------
(* Acquire up to BeginTx: the request is built and the ledger's clock read. *)
Begin(c, k, d) ==
  /\ calls[c].phase = "idle"
  /\ calls' = [calls EXCEPT ![c] =
                 [phase |-> "acquiring", key |-> k, digest |-> d,
                  now |-> clock + Skew[ProcessOf[c]],
                  kind |-> "none", invocation |-> Null, payload |-> Null]]
  /\ UNCHANGED <<records, invocations, clock, grants, writer>>

(* What the caller of Acquire is told.                                     *)
Answer(c, kind, id, payload) ==
  LET q == calls[c]
  IN  calls' = [calls EXCEPT ![c] =
                  [q EXCEPT !.phase = IF kind \in {"owned", "recovered"} THEN "holding" ELSE "idle",
                            !.kind = kind,
                            !.invocation = id,
                            !.payload = payload]]

(* A commit whose acknowledgement is lost is an error to the caller.       *)
Commit(c, kind, id) ==
  \/ Answer(c, kind, id, Null)
  \/ Answer(c, "error", Null, Null)

GrantTo(c, id) ==
  LET q == calls[c]
      p == ProcessOf[c]
  IN  grants' = [grants EXCEPT ![q.key] =
                   Append(@, [owner |-> p, invocation |-> id, digest |-> q.digest,
                              from |-> q.now, until |-> q.now + Lease[p]])]

(* A claimed row.                                                          *)
Claim(digest, owner, expires, recoveries, max, id) ==
  [state |-> "claimed", digest |-> digest, owner |-> owner, expires |-> expires,
   recoveries |-> recoveries, max |-> max, invocation |-> id, payload |-> Null]

(* The INSERT succeeds: the claim and its invocation are created together. *)
Insert(c, id) ==
  LET q == calls[c]
      p == ProcessOf[c]
  IN  /\ q.phase = "acquiring"
      /\ records[q.key].state = "absent"
      /\ invocations[id] = Null
      /\ records' = [records EXCEPT ![q.key] =
                       Claim(q.digest, p, q.now + Lease[p], 0, MaxRecoveries[p], id)]
      /\ invocations' = [invocations EXCEPT ![id] = [key |-> q.key, digest |-> q.digest]]
      /\ GrantTo(c, id)
      /\ Commit(c, "owned", id)
      /\ UNCHANGED <<clock, writer>>

(* Variants of the claim predicate: no bound, no expiry, and recovery by   *)
(* the previous owner only.                                                *)
RecoverableUnbounded(q) ==
  LET r == records[q.key]
  IN  r.state = "claimed" /\ r.digest = q.digest /\ r.expires <= q.now

RecoverableUnexpired(q) ==
  LET r == records[q.key]
  IN  r.state = "claimed" /\ r.digest = q.digest /\ r.recoveries < r.max

RecoverableSameOwner(q) ==
  LET r == records[q.key]
  IN  /\ r.state = "claimed"
      /\ r.digest = q.digest
      /\ \E c \in Calls : calls[c] = q /\ ProcessOf[c] = r.owner
      /\ r.expires <= q.now
      /\ r.recoveries < r.max

(* The WHERE of ON CONFLICT DO UPDATE.                                     *)
Recoverable(q) ==
  LET r == records[q.key]
  IN  /\ r.state = "claimed"
      /\ r.digest = q.digest
      /\ r.expires <= q.now
      /\ r.recoveries < r.max

(* ON CONFLICT DO UPDATE: an expired claim changes owner, not invocation.  *)
Recover(c) ==
  LET q == calls[c]
      p == ProcessOf[c]
      r == records[q.key]
  IN  /\ q.phase = "acquiring"
      /\ Recoverable(q)
      /\ records' = [records EXCEPT ![q.key] =
                       Claim(r.digest, p, q.now + Lease[p], r.recoveries + 1, r.max, r.invocation)]
      /\ GrantTo(c, r.invocation)
      /\ Commit(c, "recovered", r.invocation)
      /\ UNCHANGED <<invocations, clock, writer>>

(* Variants: a completed call is replayed before the digests are compared; *)
(* a matching call is replayed once its lease has expired, completed or    *)
(* not.                                                                    *)
ClassificationReplayFirst(q) ==
  LET r == records[q.key]
  IN  IF r.state = "completed" THEN "replay"
      ELSE IF r.digest # q.digest THEN "conflict" ELSE "pending"

ClassificationReplayExpired(q) ==
  LET r == records[q.key]
  IN  IF r.digest # q.digest THEN "conflict"
      ELSE IF r.state = "completed" \/ r.expires <= q.now THEN "replay" ELSE "pending"

(* classifyExisting: what a caller learns about a row it cannot claim.     *)
Classification(q) ==
  LET r == records[q.key]
  IN  CASE r.digest # q.digest -> "conflict"
        [] r.digest = q.digest /\ r.state = "completed" -> "replay"
        [] r.digest = q.digest /\ r.state # "completed"
             /\ r.expires <= q.now /\ r.recoveries >= r.max -> "recovery_exhausted"
        [] OTHER -> "pending"

ClassifyExisting(c) ==
  LET q == calls[c]
      r == records[q.key]
      kind == Classification(q)
  IN  /\ q.phase = "acquiring"
      /\ r.state # "absent"
      /\ ~Recoverable(q)
      /\ Answer(c, kind, r.invocation, IF kind = "replay" THEN r.payload ELSE Null)
      /\ UNCHANGED <<records, invocations, clock, grants, writer>>

(* WithinTransaction fails and rolls back: nothing is changed.             *)
Abort(c) ==
  /\ calls[c].phase = "acquiring"
  /\ Answer(c, "error", Null, Null)
  /\ UNCHANGED <<records, invocations, clock, grants, writer>>

(* Variant of the completion fence: any owner.                             *)
MayCompleteAnyOwner(c) == records[calls[c].key].state = "claimed"

(* The WHERE of Complete: the lease is not looked at.                      *)
MayComplete(c) ==
  LET r == records[calls[c].key]
  IN  r.state = "claimed" /\ r.owner = ProcessOf[c]

(* The SET of Complete.                                                    *)
Completed(r, v) ==
  [state |-> "completed", digest |-> r.digest, owner |-> Null, expires |-> 0,
   recoveries |-> r.recoveries, max |-> r.max, invocation |-> r.invocation, payload |-> v]

(* Complete publishes the replay envelope, reports a lost ownership, or    *)
(* fails.                                                                  *)
Complete(c, v) ==
  LET k == calls[c].key
      id == calls[c].invocation
  IN  /\ calls[c].phase = "holding"
      /\ \/ /\ MayComplete(c)
            /\ records' = [records EXCEPT ![k] = Completed(records[k], v)]
            /\ writer' = [writer EXCEPT ![k] = ProcessOf[c]]
            /\ Commit(c, "completed", id)
         \/ /\ ~MayComplete(c)
            /\ Answer(c, "not_current", id, Null)
            /\ UNCHANGED <<records, writer>>
         \/ /\ Answer(c, "error", Null, Null)
            /\ UNCHANGED <<records, writer>>
      /\ UNCHANGED <<invocations, clock, grants>>

(* The owner returns or its process dies without completing the call.      *)
Abandon(c) ==
  /\ calls[c].phase = "holding"
  /\ Answer(c, "none", calls[c].invocation, Null)
  /\ UNCHANGED <<records, invocations, clock, grants, writer>>

(* Time passes while some process still sees an unexpired claim; no guard  *)
(* depends on time otherwise.                                              *)
Tick ==
  /\ \E k \in Keys, p \in Processes :
       records[k].state = "claimed" /\ records[k].expires > clock + Skew[p]
  /\ clock' = clock + 1
  /\ UNCHANGED <<records, invocations, calls, grants, writer>>

Next ==
  \/ \E c \in Calls, k \in Keys, d \in Digests : Begin(c, k, d)
  \/ \E c \in Calls, id \in InvocationIDs : Insert(c, id)
  \/ \E c \in Calls : Recover(c)
  \/ \E c \in Calls : ClassifyExisting(c)
  \/ \E c \in Calls : Abort(c)
  \/ \E c \in Calls, v \in Payloads : Complete(c, v)
  \/ \E c \in Calls : Abandon(c)
  \/ Tick

Spec == Init /\ [][Next]_vars

-----------------------------------------------------------------------------
(* Ownership of a logical call is handed out at most 1 + max_recoveries    *)
(* times, where max_recoveries is the bound of the process that created    *)
(* the row, whatever the configuration and the clocks of the processes     *)
(* that recover it (acquire, the recovery_count conjunct).                 *)
BoundedOwnership ==
  \A k \in Keys : grants[k] # <<>> =>
    Len(grants[k]) <= 1 + MaxRecoveries[grants[k][1].owner]

(* Every ownership of a logical call is of the same durable invocation,    *)
(* created for that key and digest, and no other invocation exists for the *)
(* key: retries and recoveries never fork the call (acquire, and its       *)
(* comment "a visible claim always refers to a durable invocation").       *)
OneInvocation ==
  /\ \A k \in Keys : \A i \in 1..Len(grants[k]) :
       /\ grants[k][i].invocation = records[k].invocation
       /\ invocations[records[k].invocation] = [key |-> k, digest |-> grants[k][i].digest]
  /\ \A i, j \in InvocationIDs :
       invocations[i] # Null /\ invocations[j] # Null
         /\ invocations[i].key = invocations[j].key => i = j

(* On the owners' own clocks, an ownership starts only after the lease of  *)
(* the one before it has run out (acquire, claim_expires_at <= now).       *)
LeasesDisjoint ==
  \A k \in Keys : \A i \in 1..Len(grants[k]) - 1 :
    grants[k][i].until <= grants[k][i + 1].from

(* "A stale owner cannot complete a claim recovered by another process":   *)
(* the process whose Complete succeeded is the one that was granted        *)
(* ownership last.                                                         *)
CompletedByLastOwner ==
  \A k \in Keys : records[k].state = "completed" =>
    /\ grants[k] # <<>>
    /\ writer[k] = grants[k][Len(grants[k])].owner

(* An exact replay: what a caller was once handed as the replay of a call  *)
(* is still, and for every other caller, the envelope of that call         *)
(* (Complete, classifyExisting).                                           *)
ReplayAgreement ==
  \A c \in Calls : calls[c].kind = "replay" =>
    /\ records[calls[c].key].state = "completed"
    /\ records[calls[c].key].payload = calls[c].payload

(* A request whose tool, version or arguments differ from the original's   *)
(* is told of the conflict and neither owns, completes nor replays the     *)
(* call; a matching one is never told of a conflict.                       *)
MismatchConflicts ==
  \A c \in Calls :
    LET q == calls[c]
    IN  /\ q.kind \in {"owned", "recovered", "completed", "replay"} =>
             q.digest = records[q.key].digest
        /\ q.kind = "conflict" => q.digest # records[q.key].digest

-----------------------------------------------------------------------------
(* The logical call that a row stands for, and what a request was told.    *)
LogicalOf(r) ==
  [digest |-> r.digest, invocation |-> r.invocation, owner |-> r.owner,
   left |-> r.max - r.recoveries, envelope |-> r.payload]

ToldTo(q) ==
  [key |-> q.key, digest |-> q.digest,
   kind |-> IF q.phase = "acquiring" THEN "asked" ELSE q.kind,
   invocation |-> q.invocation, envelope |-> q.payload]

Logical == [k \in Keys |-> LogicalOf(records[k])]

Told == [c \in Calls |-> ToldTo(calls[c])]

Promise == INSTANCE LogicalCall WITH
  Callers <- Calls, OwnerOf <- ProcessOf, Invocations <- InvocationIDs,
  Envelopes <- Payloads, MaxTransfers <- 10, logical <- Logical, told <- Told

(* Acquire and Complete implement a call that is created once, passed on a *)
(* bounded number of times and finished once, by its owner, with answers   *)
(* that are true at one instant, whatever the clocks, the leases and the   *)
(* failed commits.                                                         *)
KeepsPromise == Promise!Spec

-----------------------------------------------------------------------------
(* The strengthening that makes the properties above inductive.  What a    *)
(* row r knows of the grants g of its key and of the writer w of its       *)
(* envelope:                                                               *)
History(r, g, w) ==
  /\ r.state = "absent" => g = <<>>
  /\ r.state # "absent" =>
       /\ Len(g) = r.recoveries + 1
       /\ r.recoveries <= r.max
       /\ r.max = MaxRecoveries[g[1].owner]
       /\ \A i \in 1..Len(g) : g[i].invocation = r.invocation /\ g[i].digest = r.digest
       /\ \A i \in 1..Len(g) - 1 : g[i].until <= g[i + 1].from
  /\ r.state = "claimed" => r.owner = g[Len(g)].owner /\ r.expires = g[Len(g)].until
  /\ r.state = "completed" => w = g[Len(g)].owner

(* A row agrees with its history and with the invocation it created.       *)
KeyInv(k) ==
  /\ History(records[k], grants[k], writer[k])
  /\ records[k].state # "absent" =>
       invocations[records[k].invocation] = [key |-> k, digest |-> records[k].digest]

(* An invocation row belongs to the row of its key.                        *)
InvocationInv(i) ==
  invocations[i] # Null =>
    /\ records[invocations[i].key].state # "absent"
    /\ records[invocations[i].key].invocation = i

(* What a request knows of the row it asked about.                         *)
CallInv(c) ==
  LET q == calls[c]
      r == records[q.key]
  IN  /\ q.phase # "idle" => q.key \in Keys /\ q.digest \in Digests
      /\ q.phase = "acquiring" => q.kind = "none"
      /\ q.phase = "holding" => q.kind \in {"owned", "recovered"}
      /\ q.kind \in {"owned", "recovered", "completed", "replay", "conflict"} =>
           /\ q.key \in Keys
           /\ r.state # "absent"
           /\ q.kind = "conflict" <=> q.digest # r.digest
      /\ q.kind = "replay" => r.state = "completed" /\ r.payload = q.payload

(* The inductive invariant of the acquisition protocol.                    *)
IInv ==
  /\ TypeOK
  /\ \A k \in Keys : KeyInv(k)
  /\ \A i \in InvocationIDs : InvocationInv(i)
  /\ \A c \in Calls : CallInv(c)
=============================================================================
