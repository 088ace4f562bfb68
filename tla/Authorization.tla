---------------------------- MODULE Authorization ----------------------------
(***************************************************************************)
(* The authorization path of a tool call (internal/app/authorization_*.go, *)
(* authorized_execution.go and the ThinkPixelAG client):                   *)
(*                                                                         *)
(*   - CurrentAuthorizer sends configured high-risk writes to ThinkPixelAG *)
(*     and everything else through FreshAuthorizer, which caches decisions *)
(*     by the content of the request;                                      *)
(*   - both compare a decision with the revocation state, which moves on   *)
(*     while requests run;                                                 *)
(*   - AuthorizedExecutor resolves a credential and runs the connector     *)
(*     only under a decision that allows it.                               *)
(*                                                                         *)
(* The lock of the cache is held for one lookup or one store; calls of     *)
(* ThinkPixelAG and of the revocation state run without it.                *)
(***************************************************************************)
EXTENDS Integers, FiniteSets

CONSTANTS
  Calls,            \* slots of concurrent requests
  Keys,             \* contents of requests: all that AuthorizationDecisionKey covers
  HighRisk,         \* the keys whose (risk, side effect) is configured as high risk
  Revocations,      \* revocation states (epoch, checkpoint) of the tenant and policy
  Feed,             \* the ones the gateway observes, in order
  LastPosition,     \* the last of them
  HasRevocations,   \* whether FreshAuthorizer is given the revocation state
  AllowTTL, DenyTTL, MaxEntries, MaxDecisionAge,
  Terms,            \* how old a decision is when it is given, and until when it is valid
  MaxTime,          \* bound on the clock
  Null

Positions == 0..LastPosition

(* NewFreshAuthorizer.                                                     *)
FreshnessConfig ==
  /\ AllowTTL \in Nat /\ DenyTTL \in Nat /\ MaxEntries \in Nat
  /\ HasRevocations \in BOOLEAN
  /\ MaxEntries > 0 => HasRevocations /\ (AllowTTL > 0 \/ DenyTTL > 0)

(* NewCurrentAuthorizer.                                                   *)
CurrentAuthorizationConfig ==
  /\ HighRisk \subseteq Keys
  /\ MaxDecisionAge \in Nat \ {0}

ASSUME ConfigAssumption ==
  /\ FreshnessConfig
  /\ CurrentAuthorizationConfig
  /\ LastPosition \in Nat
  /\ Revocations \subseteq [epoch : Nat, checkpoint : STRING]
  /\ Feed \in [Positions -> Revocations]
  /\ Terms \subseteq [age : Nat, delay : Nat, life : Nat]
  /\ MaxTime \in Nat
  /\ Null \notin Calls \union Keys

VARIABLES
  clock,     \* time, in the unit of the TTLs
  position,  \* the revocation state the gateway observes
  cache,     \* FreshAuthorizer.entries
  calls      \* the requests

vars == <<clock, position, cache, calls>>

(* A decision, with the revocation state it was made in.  Its correlation  *)
(* with the request and its texts are left out: ValidateFor refuses an     *)
(* answer in which they are wrong, and cached gives a reused decision the  *)
(* ID of the request it is reused for.                                     *)
Decision == [outcome : {"allow", "deny"}, revocation : Revocations,
             issued : Nat, notBefore : Nat, expires : Nat]

(* A cached decision, and when the request that fetched it began.          *)
Entry == [decision : Decision, until : Nat, fetched : Nat]

(* now is what the authorizer read from its clock, seen the revocation     *)
(* state it observed.  History: since, the revocation state when the       *)
(* request began, and fetched, set when the decision came from the cache.  *)
Call == [phase : {"idle", "observing", "looking", "asking", "answered",
                  "checking", "storing", "decided", "leased"},
         key : Keys \union {Null}, now : Nat, seen : Positions,
         decision : Decision \union {Null}, since : Positions,
         fetched : Nat \union {Null}]

Idle == [phase |-> "idle", key |-> Null, now |-> 0, seen |-> 0, decision |-> Null,
         since |-> 0, fetched |-> Null]

Init ==
  /\ clock = 0
  /\ position = 0
  /\ cache = [k \in Keys |-> Null]
  /\ calls = [c \in Calls |-> Idle]

-----------------------------------------------------------------------------
(* ValidateFor, on the period of validity.                                 *)
ValidFor(d) == d.issued <= d.notBefore /\ d.notBefore < d.expires

(* validateFreshDecision.                                                  *)
Fresh(d, now) ==
  ValidFor(d) /\ d.issued <= now /\ d.notBefore <= now /\ now < d.expires

(* matchesRevocation.                                                      *)
Matches(d, observed) ==
  /\ d.revocation.epoch >= observed.epoch
  /\ d.revocation.epoch = observed.epoch => d.revocation.checkpoint = observed.checkpoint

TTL(outcome) == IF outcome = "deny" THEN DenyTTL ELSE AllowTTL

(* Variant: the expiry of the decision alone.                              *)
UntilExpiry(d, now) == d.expires

(* The end of a cache entry: its TTL or the expiry of the decision.        *)
Until(d, now) ==
  IF d.expires < now + TTL(d.outcome) THEN d.expires ELSE now + TTL(d.outcome)

(* Variant: every request takes the regular path.                          *)
NeedsLiveNever(k) == FALSE

NeedsLive(k) == k \in HighRisk

Become(c, new) == calls' = [calls EXCEPT ![c] = new]

Fail(c) == Become(c, Idle)

To(c, phase) == Become(c, [calls[c] EXCEPT !.phase = phase])

-----------------------------------------------------------------------------
(* A request comes to CurrentAuthorizer; without a cache the regular path  *)
(* asks for a live decision at once.                                       *)
Begin(c, k) ==
  /\ calls[c].phase = "idle"
  /\ Become(c, [phase |-> IF NeedsLive(k) \/ MaxEntries > 0 THEN "observing" ELSE "asking",
                key |-> k, now |-> IF NeedsLive(k) THEN 0 ELSE clock, seen |-> 0, decision |-> Null,
                since |-> position, fetched |-> Null])
  /\ UNCHANGED <<clock, position, cache>>

(* The revocation state is read before a lookup or a high-risk decision;   *)
(* without it the request fails.                                           *)
Observe(c) ==
  /\ calls[c].phase = "observing"
  /\ \/ Become(c, [calls[c] EXCEPT !.phase = IF NeedsLive(calls[c].key) THEN "asking" ELSE "looking",
                                   !.seen = position])
     \/ Fail(c)
  /\ UNCHANGED <<clock, position, cache>>

(* Variant: the revocation state is not compared with a cached decision.   *)
ReusableThoughRevoked(c, entry) ==
  /\ calls[c].now < entry.until
  /\ Fresh(entry.decision, calls[c].now)

(* The entry is within its TTL, valid for this request, and not revoked.   *)
Reusable(c, entry) ==
  /\ calls[c].now < entry.until
  /\ Fresh(entry.decision, calls[c].now)
  /\ Matches(entry.decision, Feed[calls[c].seen])

(* cached: a usable entry answers the request under its own request ID,    *)
(* another one is deleted.                                                 *)
Lookup(c) ==
  LET entry == cache[calls[c].key]
  IN  /\ calls[c].phase = "looking"
      /\ IF entry # Null /\ Reusable(c, entry)
           THEN /\ Become(c, [calls[c] EXCEPT !.phase = "decided",
                                !.decision = entry.decision,
                                !.seen = 0, !.fetched = entry.fetched])
                /\ UNCHANGED cache
           ELSE /\ Become(c, [calls[c] EXCEPT !.phase = "asking", !.seen = 0])
                /\ cache' = [cache EXCEPT ![calls[c].key] = Null]
      /\ UNCHANGED <<clock, position>>

(* ThinkPixelAG answers with a decision of its own clock and revocation    *)
(* state, which may be behind or ahead of the gateway's; the call may also *)
(* fail, time out or return something malformed.                           *)
Answers ==
  {[outcome |-> o, revocation |-> r, issued |-> clock - t.age,
    notBefore |-> clock - t.age + t.delay, expires |-> clock + t.life] :
     o \in {"allow", "deny"}, r \in Revocations, t \in {t \in Terms : t.age <= clock}}

(* The client validates the answer; the regular path then holds it against *)
(* the time at which the request began.                                    *)
Ask(c) ==
  /\ calls[c].phase = "asking"
  /\ \/ \E d \in Answers :
          LET live == NeedsLive(calls[c].key)
          IN  /\ ValidFor(d)
              /\ live \/ Fresh(d, calls[c].now)
              /\ Become(c, [calls[c] EXCEPT !.decision = d,
                              !.phase = IF live THEN "answered"
                                        ELSE IF HasRevocations THEN "checking"
                                        ELSE "storing"])
     \/ Fail(c)
  /\ UNCHANGED <<clock, position, cache>>

(* The high-risk path reads its clock after the answer.                    *)
Confirm(c) ==
  LET d == calls[c].decision
  IN  /\ calls[c].phase = "answered"
      /\ IF /\ Fresh(d, clock)
            /\ clock - d.issued <= MaxDecisionAge
            /\ Matches(d, Feed[calls[c].seen])
           THEN Become(c, [calls[c] EXCEPT !.phase = "decided", !.seen = 0, !.now = clock])
           ELSE Fail(c)
      /\ UNCHANGED <<clock, position, cache>>

(* The regular path reads the revocation state again.                      *)
Recheck(c) ==
  /\ calls[c].phase = "checking"
  /\ \/ Matches(calls[c].decision, Feed[position]) /\ To(c, "storing")
     \/ Fail(c)
  /\ UNCHANGED <<clock, position, cache>>

(* A full cache takes no new key.                                          *)
Storable(c) ==
  LET now == calls[c].now
      d == calls[c].decision
  IN  /\ MaxEntries # 0
      /\ TTL(d.outcome) # 0
      /\ now < Until(d, now)
      /\ \/ cache[calls[c].key] # Null
         \/ Cardinality({k \in Keys : cache[k] # Null}) < MaxEntries

(* store, and the return of the live decision.                             *)
Store(c) ==
  LET now == calls[c].now
      d == calls[c].decision
  IN  /\ calls[c].phase = "storing"
      /\ cache' = IF Storable(c)
                    THEN [cache EXCEPT ![calls[c].key] =
                            [decision |-> d, until |-> Until(d, now), fetched |-> now]]
                    ELSE cache
      /\ To(c, "decided")
      /\ UNCHANGED <<clock, position>>

(* AuthorizedExecutor.Execute: only an allow reaches the credential        *)
(* resolver, which may fail.                                               *)
Resolve(c) ==
  /\ calls[c].phase = "decided"
  /\ \/ /\ ValidFor(calls[c].decision)
        /\ calls[c].decision.outcome = "allow"
        /\ Become(c, [Idle EXCEPT !.phase = "leased"])
     \/ Fail(c)
  /\ UNCHANGED <<clock, position, cache>>

(* The connector runs, and the deferred call releases the credential.      *)
Execute(c) ==
  /\ calls[c].phase = "leased"
  /\ Become(c, Idle)
  /\ UNCHANGED <<clock, position, cache>>

Tick ==
  /\ clock < MaxTime
  /\ clock' = clock + 1
  /\ UNCHANGED <<position, cache, calls>>

(* The revocation state the gateway observes moves on.                     *)
Revoke ==
  /\ position < LastPosition
  /\ position' = position + 1
  /\ UNCHANGED <<clock, cache, calls>>

Next ==
  \/ \E c \in Calls, k \in Keys : Begin(c, k)
  \/ \E c \in Calls :
       \/ Observe(c) \/ Lookup(c) \/ Ask(c) \/ Confirm(c) \/ Recheck(c) \/ Store(c)
       \/ Resolve(c) \/ Execute(c)
  \/ Tick
  \/ Revoke

Spec == Init /\ [][Next]_vars

-----------------------------------------------------------------------------
(* Requests that have their decision.                                      *)
Decided == {c \in Calls : calls[c].phase = "decided"}

(* No request is decided by a revoked decision: whatever was cached or in  *)
(* flight when the revocation state moved, the decision it gets satisfies  *)
(* a revocation state that was the observed one while the request ran      *)
(* (cached, the re-read after a live call, and CurrentAuthorizer).         *)
RevokedIsNotUsed ==
  HasRevocations =>
    \A c \in Decided :
      \E p \in calls[c].since..position : Matches(calls[c].decision, Feed[p])

(* A cached decision is reused within its own validity and less than its   *)
(* TTL after the request that fetched it began, however slow that request  *)
(* was; it answers a request with the same content as its own (store,      *)
(* cached).                                                                *)
ReuseIsBounded ==
  \A c \in Decided : calls[c].fetched # Null =>
    LET d == calls[c].decision
    IN  /\ calls[c].now < calls[c].fetched + TTL(d.outcome)
        /\ d.notBefore <= calls[c].now /\ calls[c].now < d.expires

(* A high-risk write is decided by a live decision for that very request,  *)
(* valid and at most MaxDecisionAge old after the answer arrived           *)
(* (CurrentAuthorizer: no cached or degraded fallback), and its decision   *)
(* is not left in the cache.                                               *)
HighRiskIsLive ==
  /\ \A k \in HighRisk : cache[k] = Null
  /\ \A c \in Decided : calls[c].key \in HighRisk =>
       LET d == calls[c].decision
       IN  /\ calls[c].fetched = Null
           /\ calls[c].now - d.issued <= MaxDecisionAge
           /\ d.notBefore <= calls[c].now /\ calls[c].now < d.expires
=============================================================================
