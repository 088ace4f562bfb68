# ThinkPixelTG in TLA+

ThinkPixelTG is a tool gateway: a governed run asks it to execute a tool, the
gateway decides whether it may, executes it through a connector with a
credential the caller never sees, and keeps evidence of what it did. This
directory models the parts of the gateway whose correctness depends on
interleavings, leases, crashes and lost answers, checks them with TLC on small
instances, and proves the safety of most of them with TLAPS for every instance, from
the admission of a request to its execution at a provider.

All paths below are relative to `src/`.

## 1. The system

| Part | Code | State | Operations |
|---|---|---|---|
| logical invocation acquisition | `internal/adapters/postgres/invocation_acquisition.go`, `invocation_ledger.go`, `transaction.go` | `idempotency_records`, `invocations` | Acquire (first claim, recovery, classification), Complete |
| invocation state machine | `internal/invocationstate/state.go` | state and version of an invocation | Transition |
| attempt claiming | `internal/adapters/postgres/attempt_claiming.go` | `invocation_attempts` | Claim, IsCurrent, Finalize |
| tool-call service | `internal/app/tool_calls.go` | none of its own | Create, Get |
| transactional outbox | `internal/adapters/postgres/outbox_publisher.go`, `protected_mutation.go` | `outbox_messages`, `audit_events` | Execute, PublishOne |
| credential cache | `internal/credentials/cache.go`, `capability.go` | entries, in-flight loads, provider epochs | Resolve, EvictBinding, EvictRun, SetProviderEpoch, Close |
| authorization | `internal/app/authorization_*.go`, `authorized_execution.go`, `internal/adapters/thinkpixelag` | cached decisions | AuthorizeToolInvocation, Execute, narrowing |
| tool catalog and exposure | `internal/adapters/postgres/tool_versions.go`, `repositories.go`, `internal/domain/tool_catalog.go` | `tool_versions`, exposures | SaveDraft, publish, Retire, SetExposure |
| discovery | `internal/app/discovery.go`, `internal/adapters/http/tool_discovery.go` | signed cursors | Discover, Describe, pages |
| HTTP server and identity | `internal/adapters/http/server.go`, `internal/authn` | admission permits, keys per issuer | admission, Authenticate, key refresh |
| connectors | `internal/connectors`, `internal/adapters/connectors/github`, `internal/adapters/credentials/kubernetes`, `internal/resourceprojection` | none | Resolve, Execute, outcome classification |

`PROJECT.json` has the complete list, with the parts that are not modelled.

A tool call goes through them in this order. The server admits the request and
establishes its identity. `ToolCallService.Create` acquires
the logical call: the first request for a (tenant, run, tool_call_id) owns it
under a lease, and later ones are told that it is pending, get a replay, are
refused for other arguments, or recover it once the lease ran out, a bounded
number of times. The owner asks the authorizer, records the decision together
with its audit event and outbox message in one transaction, narrows the
constraints of the decision, resolves a credential through the cache and executes
the connector, which reaches its provider through the shared HTTP client.
Publishers deliver the
outbox messages. Attempt claiming and the transition table are implemented and
tested in the repository, but `Create` does not use them yet.

What makes this hard: requests, workers and publishers run in several processes
whose clocks differ; every lease is compared with a time that was read before
the transaction; a commit may be applied and its acknowledgement lost; a process
may die between any two steps; an owner that was taken for dead may come back;
revocations, key rotations and changes of the catalog arrive in the middle of a
request; a provider may act on a request whose answer never arrives.

## 2. Modules

| Module | Models | Extended by |
|---|---|---|
| `LogicalCall` | what an idempotent call promises (abstract) | instantiated by `LogicalInvocation` |
| `LogicalInvocation` | acquisition, recovery, classification, completion | `MCLogicalInvocation`, `ToolCall` |
| `AuthorizationConstraints` | narrowing of constraints (operators) | `ToolCall` |
| `ToolCall` | `Create` on top of the acquisition protocol (the composition) | `MCToolCall`, `ToolCall_proofs` |
| `InvocationRules` | the transition table | `InvocationState` |
| `InvocationState` | `Transition` with stale snapshots | `MCInvocation`, `Invocation_proofs` |
| `AttemptClaiming` | fenced attempts of an invocation that moves along the table meanwhile | `MCAttemptClaiming` (and through it `MCInvocation`), `Invocation_proofs` |
| `Backoff` | the retry delay | `Outbox` |
| `Outbox` | protected mutations and publishers | `MCOutbox`, `Outbox_proofs` |
| `CredentialCache` | the in-memory credential cache | `MCCredentialCache`, `CredentialCache_proofs` |
| `Authorization` | the decision cache, the high-risk path, the authorized executor | `MCAuthorization`, `Authorization_proofs` |
| `PublicRequest` | admission, identity and the key cache | `MCPublicRequest`, `PublicRequest_proofs` |
| `ToolCatalog` | tool versions and their exposure | `ToolDiscovery` |
| `ToolDiscovery` | walks through the catalog | `MCToolDiscovery`, `ToolDiscovery_proofs` |
| `ResourceProjection` | the resources of a call (operators) | `ConnectorCall` |
| `ConnectorCall` | one execution at GitHub | `MCConnectorCall`, `ConnectorCall_proofs` |

Conventions. A table is a function from its key to a record; a SQL statement or
a transaction that locks its row is one action. A request is a record with a
phase; what it read before a call (`now` above all) is a field, and every call
to another component ends an action, so that other requests run in between.
Variables marked "history" are written and never read by an action. Definitions
introduced by "Variant:" are plausible faults of the definition after them; no
specification uses them, and `PROJECT.json` says which property each one breaks.

**LogicalInvocation.** `records` and `invocations` are the tables, `calls` the
concurrent Acquire requests, `grants` and `writer` the history of ownership.
`Begin` reads the clock; `Insert`, `Recover` and `ClassifyExisting` are the three
ends of the acquire transaction; `Commit` may lose its acknowledgement; `Abort`
rolls back; `Complete` is the owner-fenced update, which may fail, or be applied and
its answer lost; `Abandon` is an owner that returns or dies without completing. Each
process has its own clock (`Skew`), lease and recovery bound.

**LogicalCall.** The same call without leases, clocks, tables and transactions:
it is created once, its ownership passes on a bounded number of times, its owner
finishes it, and what a caller is told is true at one instant between its request
and its answer. `KeepsPromise` is its specification under the refinement mapping
`Logical`, `Told` of `LogicalInvocation`: a row is its digest, owner, envelope and
remaining recoveries; a request is what its caller knows.

**ToolCall.** Adds the steps of the owner: authorization, recording, narrowing of
the decision's constraints, credential (also a broker that returns none), execution
and the way out of each. A process may die at every one. The ceiling has what `Create`
gives it (`CreateCeiling`): the tool version's operation and limits, the projected
resources, no repositories and no arguments. It keeps every action of
`LogicalInvocation` except completion: nothing in `Create` calls Complete.

**InvocationState / InvocationRules.** All edges of the table, with the actors
and the evidence they require. Two holders read, and submit any command later.
It shares no variable with `AttemptClaiming`; `MCInvocation` explores each of the two
while the other is at its beginning.

**AttemptClaiming.** Workers request an operation (reading their clock) and
execute it later. Of the invocation's state, Claim reads only whether it is
ready or retry_wait: `eligible`. `Move` changes it as the table allows, out of
ready and back to retry_wait; it has no fairness, so it may also stay.

**Outbox.** `Execute` commits a mutation with its audit event and messages.
`Poll`, `Claim` or `NoWork`, `Publish` and `Settle` are the steps of `PublishOne`;
rows locked by another claim are skipped. The sink may give any answer, also
accept a message and answer with an error.

**CredentialCache.** `Begin`, `Lookup`, `Wake`, `Load`, `Store`, `Clone` and
`Drop` are the parts of `Resolve` between which the mutex is free; evictions,
epochs, `Close` and time interleave with them.

**Authorization.** `Begin` chooses the live path for high-risk writes. On the
other path `Observe` reads the revocation state, `Lookup` the cache, `Ask` calls
ThinkPixelAG, `Recheck` reads the revocation state again and `Store` caches. On the
live path `Confirm` follows `Ask`. `Resolve` and `Execute` are AuthorizedExecutor.
The revocation state moves through `Feed`; ThinkPixelAG answers with any decision,
also under a revocation state the gateway has not seen.

**PublicRequest.** `Arrive` takes a permit, `Screen` looks at headers and token (an
exempt path goes straight to its handler),
`TakeLock` is the mutex of the issuer with the lookup under it, `FetchKeys`,
`RefreshFails` and `Install` the refresh, `Verify` signature, claims, principal, the
body's hints and, if the authenticator has a source of them (`HasWorkload`), the
workload certificate, `Handle` the application. The issuer rotates its key set
(`Rotate`), also to one with a key that `parseJWK` refuses, which fails the whole
refresh.

**ToolCatalog, ToolDiscovery.** Administrators save, publish, retire and expose
versions and the policy changes, while a client walks: `First`, `Continue` and
`Describe` begin a request, `List` reads the exposed versions, `Respond` asks for
their visibility and shows a page: `ByKey` sorts, `Start` searches for the first tool
after the cursor. A request that fails (`Fail`) leaves the client the cursor it had, to
go on with or to give up. A (tool ID, version) pair is its rank in the order of the two
strings, 1 to `LastKey`. A client presents any cursor that was issued,
also one of another identity, another page size or an expired one.

**ResourceProjection, ConnectorCall.** Arguments are JSON values; a tool version
projects them by pointers and literals. `ResolveCredential` routes the call and
reads the token, `Execute` checks that the projection names what the arguments name
and that the credential is for it, `Connect` resolves and dials, `Serve` is the
provider, which applies, refuses or redirects to any host and path, `Lose` the network,
`Redirect` the policy of the client, `Receive` the classification. A 201 and a
documented rejection say whether the comment was created; with any other answer, a
redirect included, it may have been (`Effects`). `applied`, `reached` and
`trusted` are history: the comments created, the addresses connected to, and the
hosts and paths the credential was sent to.

## 3. Runs

| Run | What it checks | Bounds |
|---|---|---|
| `logical_invocation` | `BoundedOwnership`, `LeasesDisjoint`, `CompletedByLastOwner`, `ReplayAgreement`, `KeepsPromise`, `Settles` | one request slot in each of two processes, one key, two digests, bounds of 2 and 1 recoveries, skewed clocks |
| `invocation` | `ControlledExecution`, `NoBlindRetry`, `DecidedOnCurrent`, `LeasesRespected`, `FencesAreUnique`, `EvidenceFrozen`, `Overtaken` | two holders, versions to 9; two workers, skewed clocks, three attempts, two outcomes |
| `tool_call` | `SendsAreAuthorized`, `DecisionsAreSpentOnce`, `BoundedSends`, `NoLeakedLease`, `ConstraintsOnlyNarrow` | two processes, one recovery, two equal allowing decisions that restrict every set, one whose constraints cannot be met, a denial |
| `outbox` | `PublishedWasAccepted`, `BackoffDoubles`, `OutcomeIsFinal`, `Delivered` | two publishers, one message, two attempts, two faults; every base, limit and attempt to 6 |
| `credential_cache` | `SourcesAreOwned`, `SingleFlight`, `HandedOutIsCurrent`, `WaitersGoOn` | two callers, one binding in two revisions, a cache of one entry, two epochs, two loads |
| `authorization` | `RevokedIsNotUsed`, `ReuseIsBounded`, `HighRiskIsLive` | two requests, a high-risk and another content, a cache of one entry, one revocation, decisions that are old or not valid yet |
| `public_request` | `PermitsAreReturned`, `IdentityIsRecent`, `GenuineIsNotRefused`, `EveryRequestIsAnswered` | two connections, one permit, three keys of which one is unusable, one rotation, eight kinds of request |
| `tool_discovery` | `WalkNeverRepeats`, `WalkIsComplete`, `ShownIsReleased` | one walking client beside cursors of another, three tool versions, one definition that passes validation and one that does not, pages of one and two |
| `connector_call` | `ClassificationIsSound`, `CredentialStaysHome`, `DestinationsArePermitted`, `CredentialIsCurrent` | two tenants with equal selectors, seven tools with three projections, six arguments, three hosts, paths of two repositories and others, a prohibited address, two redirects |
| `attempt_after_success`, `tool_call_unknown_resent`, `tool_call_restriction_dropped` | violated, see below | |

Why the bounds are enough to be interesting: a lease of one tick runs out while
its owner is between any two steps; two recoveries let a stale owner meet two
successors; nine versions take an invocation through a retry and into version
exhaustion; a cache of one entry evicts, or is full, for every second key; a clock
of two or three ticks passes every TTL, also while a call is under way; three
versions and a page of one put a change before, on and after the cursor. In the
older modules time advances only while some lease or delay is still running, which
keeps the state spaces finite without a bound on the clock; the others bound it
by `MaxTime`. The `logical_invocation` instance has one slot per process; the
proofs below are for any number. `outbox` has one message, so the order in which
`Claim` takes several is modelled and not exercised. Symmetry is used only in runs
without liveness. Every run checks deadlock.

### Fairness

- `Settles`: requests end (they and their transactions have timeouts), clocks
  advance, and a client that keeps retrying meets a database that does not fail
  for ever (strong fairness on retry and recovery). Without a retrying client
  nothing in the code picks an abandoned call up.
- `Overtaken`: requested operations run, and workers go on asking. A claim may
  fail, and the answer of a Finalize be lost, but not every time (strong
  fairness).
- `Delivered`: publisher loops run and the sink answers. Transactions end, so a
  publisher does not find the same row locked for ever (strong fairness on
  Claim). Crashes and overrun leases are finite.
- `WaitersGoOn`: the provider answers and goroutines that can run do. A caller's
  context need not end.
- `EveryRequestIsAnswered`: a request that does not wait goes on, as fetches and
  handlers have timeouts. The mutex of an issuer that is free again and again is in
  the end taken (strong fairness), as Go's mutex hands itself to a waiter that has
  waited long. Rotation, time and arrivals have no fairness.

### Where code and documents differ

Three runs check a sentence of `docs/contracts` that the code does not keep yet.

- `tool_call_unknown_resent`: `retry-idempotency.md:21-22` says that `unknown`
  "must never be represented as ordinary failure or silently retried". `Create`
  persists nothing after the connector answered; the row stays claimed, and a
  retry after the lease recovers the call and executes it again.
- `attempt_after_success`: `postgresql-transactions.md:17-18` says that finalising
  an attempt moves the invocation in the same transaction. `Finalize` updates the
  attempt only.
- `tool_call_restriction_dropped`: `thinkpixelag-authorization.md:50-51` says "Empty
  intersection is denial", and `authorization_constraints.go:22-23` "a non-empty set
  whose intersection is empty fails closed". `Create` leaves the repositories of the
  ceiling empty (`tool_calls.go:167`), and `narrowSet` refuses an empty result only if
  the ceiling's set was not empty: a decision that restricts the repositories is
  accepted and the restriction dropped. Actions are always in the ceiling, and
  resources if the call projects any, so for these an empty intersection is a denial;
  `ConstraintsOnlyNarrow` says so and no more.

The first two are in the area of Phase 8 of `TODO.md` (REL-002, REL-006, REL-009 and
REL-012), which is open; so is "one active sender per invocation"
(`retry-idempotency.md:31`), since `Create` does not look at its lease again before
it executes. What bounds the effect today is checked in `tool_call`: the sends of a
call number at most 1 + max_recoveries (`BoundedSends`), and each has a recorded
allow of its own (`SendsAreAuthorized`, `DecisionsAreSpentOnce`).

Smaller differences that no run is about:

- `FreshAuthorizer` validates a live decision against the time read before the
  call (`authorization_freshness.go:63`, `:77`); only the high-risk path reads it
  again. What is cached is bounded all the same (`ReuseIsBounded`).
- `validateProjection` accepts a literal null (`tool_catalog.go:419`), which
  `projectionDefinition` and `compile` take for no source: a version published with
  one is refused at every call.
- A 201 whose body cannot be decoded is an error without a classification
  (`comment_writer.go:106`) although the comment exists; in `ConnectorCall` this is
  the outcome "error", about which `ClassificationIsSound` says nothing beyond
  "at most one".
- `github-pull-comment-qualification.md:27-28` says that "Any other response status"
  than 201 and the documented rejections is `unknown`. If the client's policy allows
  redirects, a redirect is followed and only the last answer classified, so a POST that
  was applied and answered with a 302 whose target answers 404 is
  `definitely_rejected`. `connector.md:46-47` says that redirects cannot "forward
  credentials unless explicitly qualified"; `checkRedirect` looks at the authority and
  not at the path, so a redirect within the authority carries the credential to a path
  the authority chose. Both need `MaxRedirects` above 0, which no code outside the tests
  sets ("HTTP connectors disable redirects by default", `PLAN.md:1910`).
  `ClassificationIsSound` and `CredentialStaysHome` are stated for both cases: in full
  without a followed redirect, and as far as they hold with one.
- A provider that panics inside a load leaves its in-flight entry in the credential
  cache (`cache.go:110`), and `EvictBinding` and `EvictRun` do not reach a load that
  is under way (`cache.go:172`); a revoked binding has a new key, so its old entry
  is not found. `WaitersGoOn` assumes a provider that returns.
- `Publish` of the repository (`tool_versions.go:80`) publishes whatever the draft
  is by then, as its comment says; the handler validates the definition in the
  request. Both are actions of `ToolCatalog`, so a version that cannot be shown may
  be exposed; it fails the pages it is on. A version retired during a call does not
  stop the call.

## 4. Proofs

Eight modules hold proofs. `ToolCall_proofs` has those of the acquisition
(`LogicalInvocation`, the specification `Spec`) and of the tool call (`ToolSpec`), which
rest on them; `Invocation_proofs` has those of the attempts (`AttemptClaiming`, `Spec`)
and of the transitions (`InvocationState`, `StateSpec`); each other module is about one
component. Each holds for every value of the constants that the
named assumption of its component allows; these are what the constructors, the
configuration checks and the schema of the code accept, and that `Null` is none of
the values.

| Module | For any | Assumptions |
|---|---|---|
| `ToolCall_proofs`, acquisition | processes, requests, keys, digests, ids, payloads, positive leases, recovery bounds in 0..10, clock skews | `ConstantsAssumption` |
| `ToolCall_proofs`, tool call | the same, and decisions, constraints and ceilings | `ConstantsAssumption`, `DecisionsAssumption`, `CeilingAssumption` |
| `Invocation_proofs`, attempts | workers, positive leases, skews, number of attempts | `WorkersAssumption` |
| `Invocation_proofs`, transitions | holders, last version | `VersionAssumption` |
| `Outbox_proofs` | publishers, events, messages, skews, limits, delays, number of faults | `OutboxAssumption` |
| `ToolDiscovery_proofs` | clients and other identities, finite number of tool versions, definitions, page sizes, cursor lifetime, time | `CatalogAssumption`, `DiscoveryAssumption` |
| `CredentialCache_proofs` | callers, requests, epochs, positive size, TTL, skew below the TTL, lifetimes, number of loads | `CacheAssumption` |
| `Authorization_proofs` | requests, contents, cache configuration, sequence of revocation states, terms of decisions | `ConfigAssumption` |
| `PublicRequest_proofs` | connections, clients, keys, key sets and limits | `ConfigAssumption` |
| `ConnectorCall_proofs` | tenants, tools, projections, arguments, instances, bindings, tokens, hosts, addresses, limits | `ConfigAssumption` |

| Module | Theorem | Property |
|---|---|---|
| `ToolCall_proofs` | `Invariance` | `Spec => []IInv` |
| | `TypeCorrect` | `TypeOK` |
| | `OwnershipIsBounded` | `BoundedOwnership` |
| | `InvocationIsUnique` | `OneInvocation` |
| | `LeasesAreDisjoint` | `LeasesDisjoint` |
| | `StaleOwnerCannotComplete` | `CompletedByLastOwner` |
| | `ReplaysAgree` | `ReplayAgreement` |
| | `MismatchesConflict` | `MismatchConflicts` |
| | `Refinement` | `KeepsPromise` |
| | `NarrowingRestricts` | `Restricts`, of the operator `NarrowAuthorizationConstraints`, and which sets it leaves open |
| | `ToolInvariance` | `ToolSpec => []ToolInv` |
| | `EverySendIsAuthorized` | `SendsAreAuthorized` |
| | `NoDecisionIsSpentTwice` | `DecisionsAreSpentOnce` |
| | `SendsAreBounded` | `BoundedSends` |
| | `ExecutionsAreBounded` | at most 1 + max_recoveries executions of a call |
| | `NoLeaseLeaks` | `NoLeakedLease` |
| | `ConstraintsAlwaysNarrow` | `ConstraintsOnlyNarrow` |
| `Invocation_proofs` | `Invariance` | `Spec => []IInv` |
| | `LeasesAreRespected` | `LeasesRespected` |
| | `FencesStayUnique` | `FencesAreUnique` |
| | `EvidenceIsFrozen` | `EvidenceFrozen` |
| | `StateInvariance` | `StateSpec => []StateInv` |
| | `ExecutionIsControlled` | `ControlledExecution` |
| | `UnknownIsNotRetried` | `NoBlindRetry` |
| | `CommandsDecideOnCurrent` | `DecidedOnCurrent` |
| `Outbox_proofs` | `Invariance` | `Spec => []IInv` |
| | `PublishedMeansAccepted` | `PublishedWasAccepted` |
| | `OutcomesAreFinal` | `OutcomeIsFinal` |
| | `BackoffIsExponential` | the recurrence behind `BackoffDoubles` |
| | `BackoffClosedForm` | the closed form, of the operator `Backoff` |
| | `BackoffAlwaysDoubles` | `BackoffDoubles` |
| `ToolDiscovery_proofs` | `Invariance` | `Spec => []IInv` |
| | `WalksNeverRepeat` | `WalkNeverRepeats` |
| | `WalksAreComplete` | `WalkIsComplete` |
| | `ShownStaysReleased` | `ShownIsReleased` |
| | `ReleasedIsFinal` | a released version keeps its definition |
| `CredentialCache_proofs` | `Invariance` | `Spec => []IInv` |
| | `SourcesStayOwned` | `SourcesAreOwned` |
| | `OneFlightPerKey` | `SingleFlight` |
| | `HandedOutStaysCurrent` | `HandedOutIsCurrent` |
| | `WaitersAreWoken` | a load that is waited for is with a call that will end it |
| `Authorization_proofs` | `Invariance` | `Spec => []IInv` |
| | `RevokedIsNeverUsed` | `RevokedIsNotUsed` |
| | `ReuseStaysBounded` | `ReuseIsBounded` |
| | `HighRiskStaysLive` | `HighRiskIsLive` |
| | `HighRiskIsNeverRevoked` | no revoked decision for a high-risk write, in every configuration |
| `PublicRequest_proofs` | `Invariance` | `Spec => []IInv` |
| | `PermitsComeBack` | `PermitsAreReturned` |
| | `IdentitiesAreRecent` | `IdentityIsRecent` |
| | `OneRefreshAtATime` | one refresh of the keys at a time |
| | `GenuineIsNeverRefused` | `GenuineIsNotRefused` |
| `ConnectorCall_proofs` | `Invariance` | `Spec => []Inv` |
| | `ClassificationSoundness` | `ClassificationIsSound` |
| | `CredentialConfinement` | `CredentialStaysHome` |
| | `DestinationControl` | `DestinationsArePermitted` |
| | `CredentialCurrency` | `CredentialIsCurrent` |

Every proof has the same outline: an inductive invariant, a lemma that `Init`
establishes it, one lemma per action that keeps it, and the theorems that follow
from it. What differs is why the properties are not inductive alone.

**Acquisition.** `BoundedOwnership`, for example, is
about the length of the history, which only the row's recovery counter limits;
so the invariant has to say that the two agree. `IInv` is `TypeOK` and three
parts:

- `KeyInv(k)`, what a row knows of its history (`History`): the number of grants
  is the recovery counter plus one, the bound is the one of the first owner, all
  grants are of one invocation and digest, each begins after the one before it
  ran out, the owner and lease of a claimed row are those of the last grant, and
  the writer of a completed one is its owner; and that the invocation of the row
  was created for its key and digest;
- `InvocationInv(i)`, that an invocation belongs to the row of its key;
- `CallInv(c)`, what a request knows of the row it asked about.

`HistoryGrows` is the fact about sequences behind
recovery: a history extended by a grant that starts after the last lease ended
keeps its shape. `OtherCall`, `KeptInvocation` and `TablesKept` carry the parts
an action does not touch.

**Refinement.** Each action of `LogicalInvocation` is one step of `LogicalCall` or
leaves it alone: `Insert` creates, `Recover` takes over, `ClassifyExisting` refers
the caller to the call, `Complete` finishes if it is applied, `Abort` and a lost
acknowledgement refuse. `IInv` gives what a step needs to know of the row; `ToldStep` and
`LogicalStep` turn a changed request and a changed row into a changed abstract one.

**Tool call.** `ToolInv` stands on `IInv`: a step of `Create` that is an acquisition
step keeps `IInv` by the proof above, any other leaves its variables alone. What is
added:

- `WorkInv(c)`: a running request holds the call, its decision is an allow on
  record, and before the execution nobody has spent it;
- `Exclusive`: two owners of a call, an overtaken one and its successor, never
  reserve the same decision. This is why `DecisionsAreSpentOnce` holds although
  the authorizer may answer both with one cached decision: recording it a second
  time fails;
- `SendInv(k)`: what is known of the executions of a call;
- `Paid(k)`: the executions and the owners that may still execute do not outnumber
  the ownerships. An execution uses an ownership up, yet an overtaken owner may
  execute after its successor, so no execution can be tied to "its" ownership in
  order. The invariant says instead that the owners still to execute can be
  numbered with different numbers between the executions and the ownerships so
  far (`Numbering`). `NumberingGrows`, `NumberingShrinks` and `NumberingSpends`
  are a new owner, one that stops, and one that executes.

`ExecutionsAreBounded` combines `BoundedSends` with the bound on ownerships.
`NarrowingRestricts` is the fact about the operators that `ConstraintsAlwaysNarrow`
uses at each send: sets that the ceiling restricts become non-empty parts of it and of
the decision's, limits exceed neither, and a set is open afterwards exactly where the
ceiling leaves it open, which is the reason `tool_call_restriction_dropped` is violated
for repositories and why no decision can open the actions.

**Attempts.** A fence is the number of its attempt; an unfinished attempt still has
the lease it was claimed with (`AttemptInv`), which ties the row that `Claim`
reads to the history that `LeasesRespected` is about; a claim names an existing
attempt under its own fence (`WorkerInv`), so a `Finalize` with the fence of the
last attempt comes from the one worker that holds it.

**Transitions.** `EdgeOK` collects what all edges of the table have in common (which
states precede a control, which need an approval, a fence or a resolution), proved
table by table from `Allow`. `PassedInv` says which controls each state implies.
`SeenInv` says that a snapshot with the current version has the current state: the
version check alone makes a command decide on the current state.

**Outbox.** A message may be with several publishers at once, when leases were
overrun, so acceptances are bounded as executions are above: `MessageInv` has a
`Numbering` of the publishers that are calling the sink by the claims that no
acceptance has used. A pending message that nobody has overrun still has an attempt
left, which is what `MaxAttempts` plus the faults needs. `PublisherInv` says that a
publisher's claim is the one in the table or has been taken over.

`BackoffIsExponential` says of the loop in `backoff`: the first delay is
the base, each further one is the double of the one before or the limit, and all
are between the two. The induction is first-order: a set that contains 0 and
with every number its successor contains all (`SetInduction`), from the
well-foundedness of the natural numbers, and it is used on the set of numbers up to
which a loop exists, agrees with another, or stays within its bounds.
`BackoffClosedForm` runs the loop beside the powers of two: after every turn the delay
is the base times the power, cut off at the limit (`TurnCut`), although the loop
compares with half the limit and never computes the larger product.

**Discovery.** A walk consists of requests that see different catalogs, so the properties
of the whole walk need to say how far it has come. `Reached(w, p)` does: the walk was
shown nothing beyond p, and everything up to p that was visible throughout. `WalkOK` ties
p to the cursor, also while a request runs that may fail, and to the position asked for, and says
that a cursor in a client's hands is bound to it, which is why `Continue` cannot take up
another's position. `WalkHolds` ties a walk to the catalog: what was visible throughout is
visible now, and what was listed or shown is released. The last survives every change
because only drafts are saved over (`ReleasedStays`, which is also `ReleasedIsFinal`); it
is needed although the rows were listed before ThinkPixelAG was asked and may have been
retired since. `ByKeyInOrder` says that the sorted list holds the visible tools, all of
them and in order (an induction over the keys), `StartFound` that the search finds the
first tool after the cursor, `SliceOK` that the page leaves no tool out in between, and
`Continued` that pages in a row stay in order; `ShowPageInv` puts them together.

**Credential cache.** Why no capability is lost or released under somebody's feet takes
several facts at once. A capability is in one entry at most (`Distinct`), so a deletion
releases nothing that stays. While a call loads, its key is in flight (`Flies`) and not
in the cache (`Holds`), and the capability it loaded, which is in no entry, carries its
key; by `SingleFlight` no two loaders have the same, so the end of one load, stored or
not, leaves the others what they hold. `Knows` says that a call has seen the current
epoch and that its key is of an epoch it has seen, which an epoch change keeps because
every running call sees it; `HandedOutStaysCurrent` needs this when a clone succeeds.
`WithoutSelects` is the fact about lists behind all evictions: what the loop keeps is
the list without the deleted entries, fewer by as many as the oldest that were deleted.
It is an induction over the loop, done as for `BackoffIsExponential`. `Shrunk` states
once what every deletion does to entries and capabilities; `CallStep`, `StoreStep` and
`EvictionInv` carry the invariant through a step of a call, the end of a load and an
eviction. A load that is not stored is treated as one that is stored and deleted at once.
`WaitersAreWoken` is the safety half of `WaitersGoOn`. Its invariant, `FlightInv`, is the
converse of `Flies`: every load on the table is with a call that loads that key under
that number (`FlightsHaveLoaders`), so the channel a waiter blocks on is never left
open by a call that has returned. TLC checked `FlightInv` on the instance of the run.

**Authorization.** `CallOK` says phase by phase which revocation state a request has
read and that it was the observed one while the request ran (`Observed`); a
decision that passed its comparison satisfies such a state (`NotRevoked`), which
stays true when the observed state moves on, since the interval only grows.
`EntryOK` says that a cached decision ends with the TTL counted from the beginning
of the request that fetched it, and is never for a high-risk write.

**Public requests.** `PermitInv` says that the permits are the number of requests that
hold one (a cardinality, so the proofs use facts about finite sets); `LockInv` that the
lock is with exactly the request that refreshes; `KeysInv` that every cached key
was published when the keys count as loaded, or later. `RequestInv` carries this
through a request that waits: `GenuineIsNeverRefused` needs that a fetched set holds
the key of a token whose key was published all the time.

**Connector call.** `Inv` is `TypeOK`, the three invariants and

- `ProviderInv`: what was applied so far is at most one comment per answered request,
  only a POST applies anything, and what the answer to the first request says of it;
  this makes the classification sound at the moment it is given;
- `RoutedInv`: from the first request on, the credential, the instance and the
  repository are the ones `Execute` checked, the first request carries the secret to
  that repository, and a later one only while the host is the instance's; a host that
  was redirected to is an allowed one; `NamedIsProjected` is the fact that a checked target
  is the one of the projection;
- `LeaseInv`: the lease ends no later than the token and the binding's TTL, from
  which `SecretIsCurrent` and the action property follow.

Only model-checked: the liveness properties (`Settles`, `Overtaken`, `Delivered`,
`WaitersGoOn`, `EveryRequestIsAnswered`), since fairness and ENABLED are out of reach of
the prover. Every invariant and action property that a passing run checks is also proved.

## 5. Not modelled

- Migrations, configuration, telemetry, generated API code, test doubles, problem
  documents and canonical JSON: parsing, formatting or single statements.
- JSON Schema validation: a library, whose verdict is an input of `ToolCall` and
  `ToolCatalog`. The domain primitives: sequential checks of text and of the limits
  of int64.
- Signatures and MACs are perfect: a token verifies under the key that signed it,
  and a cursor is one that was issued.
- The mock connector and the development credential provider, which serve tests and
  local use; the header rules and metrics of the HTTP client; the readiness probe;
  shutdown, which is net/http's.
- Within the modelled parts: metrics and read-only queries are left out; digests,
  ids and envelopes are model values; outside `PublicRequest` and `ConnectorCall`
  tenants are independent (every query carries the tenant), so one tenant is
  modelled; times are small integers.
- GitHub is assumed not to have created a comment when it answers with one of the
  rejections in `classifyCommentStatus`, and to have created one when it answers 201.
  Nothing is assumed of its other answers.
- In `ToolCatalog`, what validation asks of connector keys, limits and the credential
  selector is one field of a definition each, and semantic versions are ranks.
- A sink that always outlasts its lease, and a lease that ends between `IsCurrent`
  and a send, are listed as hazards without a property.
