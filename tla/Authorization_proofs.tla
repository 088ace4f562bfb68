------------------------- MODULE Authorization_proofs -------------------------
(* Proofs that a request is decided by a decision it may rely on, for any  *)
(* number of requests, any cache configuration, any clock and any sequence *)
(* of revocation states.                                                   *)
EXTENDS Authorization, TLAPS

(* The clock, the cache and the requests keep their types.                 *)
TypeOK ==
  /\ clock \in Nat
  /\ position \in Positions
  /\ cache \in [Keys -> Entry \union {Null}]
  /\ calls \in [Calls -> Call]

(* The revocation state that a high-risk request, or one before its        *)
(* lookup, has read was the observed one while the request ran.            *)
Observed(q, pos) ==
  q.phase \in {"looking", "answered"} \/ (q.phase = "asking" /\ NeedsLive(q.key))
    => q.since <= q.seen /\ q.seen <= pos

(* The decision of a request satisfies a revocation state that was the     *)
(* observed one while the request ran.                                     *)
NotRevoked(q, pos) == \E p \in q.since..pos : Matches(q.decision, Feed[p])

(* The decision is reused within its own validity and its TTL.             *)
ReusedInTime(q) ==
  /\ q.now < q.fetched + TTL(q.decision.outcome)
  /\ q.decision.notBefore <= q.now /\ q.now < q.decision.expires

(* The decision is live, valid and recent when it is used.                 *)
LiveInTime(q) ==
  /\ q.fetched = Null
  /\ q.now - q.decision.issued <= MaxDecisionAge
  /\ q.decision.notBefore <= q.now /\ q.now < q.decision.expires

(* What a request q knows while the observed revocation state is pos.      *)
CallOK(q, pos) ==
  /\ q.phase \notin {"idle", "leased"} => q.key \in Keys
  /\ q.since <= pos
  /\ q.phase # "decided" => q.fetched = Null
  /\ q.phase \in {"looking", "checking", "storing"} => ~NeedsLive(q.key)
  /\ q.phase = "answered" => NeedsLive(q.key)
  /\ Observed(q, pos)
  /\ q.phase \in {"answered", "checking", "storing", "decided"} => q.decision \in Decision
  /\ q.phase \in {"storing", "decided"} /\ (HasRevocations \/ NeedsLive(q.key))
       => NotRevoked(q, pos)
  /\ q.phase = "decided" /\ q.fetched # Null => ReusedInTime(q)
  /\ q.phase = "decided" /\ NeedsLive(q.key) => LiveInTime(q)

(* A cached decision is not for a high-risk write and ends with its TTL.   *)
EntryOK(k) ==
  cache[k] # Null =>
    /\ ~NeedsLive(k)
    /\ cache[k].until <= cache[k].fetched + TTL(cache[k].decision.outcome)

(* The inductive invariant of the authorization path.                      *)
IInv ==
  /\ TypeOK
  /\ \A c \in Calls : CallOK(calls[c], position)
  /\ \A k \in Keys : EntryOK(k)

-----------------------------------------------------------------------------
(* A request that waits for nothing knows nothing.                         *)
LEMMA IdleOK ==
  ASSUME NEW pos \in Positions
  PROVE  Idle \in Call /\ CallOK(Idle, pos)
  <1>1. LastPosition \in Nat
    BY ConfigAssumption
  <1>2. Idle \in Call
    BY <1>1 DEF Idle, Call, Positions
  <1>3. CallOK(Idle, pos)
    BY <1>1 DEF Idle, CallOK, Observed, Positions
  <1> QED
    BY <1>2, <1>3

(* The first state satisfies the invariant.                                *)
LEMMA InitInv == Init => IInv
  <1> SUFFICES ASSUME Init PROVE IInv
    OBVIOUS
  <1>1. 0 \in Positions
    BY ConfigAssumption DEF Positions
  <1>2. TypeOK
    BY <1>1, IdleOK DEF Init, TypeOK
  <1>3. \A c \in Calls : CallOK(calls[c], position)
    BY <1>1, IdleOK DEF Init
  <1>4. \A k \in Keys : EntryOK(k)
    BY DEF Init, EntryOK
  <1> QED
    BY <1>2, <1>3, <1>4 DEF IInv

(* A step of one request, when the new state of the request and the cache  *)
(* are as the invariant asks.                                              *)
LEMMA OneCall ==
  ASSUME IInv, NEW c \in Calls, NEW q \in Call, Become(c, q), CallOK(q, position),
         UNCHANGED <<clock, position>>,
         cache' \in [Keys -> Entry \union {Null}], \A k \in Keys : EntryOK(k)'
  PROVE  IInv'
  <1>1. TypeOK'
    BY DEF IInv, TypeOK, Become
  <1>2. \A b \in Calls : calls'[b] = IF b = c THEN q ELSE calls[b]
    BY DEF IInv, TypeOK, Become
  <1>3. \A b \in Calls : CallOK(calls'[b], position')
    BY <1>2 DEF IInv
  <1> QED
    BY <1>1, <1>3 DEF IInv

(* The same for a step that leaves the cache alone.                        *)
LEMMA CallOnly ==
  ASSUME IInv, NEW c \in Calls, NEW q \in Call, Become(c, q), CallOK(q, position),
         UNCHANGED <<clock, position, cache>>
  PROVE  IInv'
  <1>1. cache' \in [Keys -> Entry \union {Null}] /\ \A k \in Keys : EntryOK(k)'
    BY DEF IInv, TypeOK, EntryOK
  <1> QED
    BY <1>1, OneCall

(* A request that fails.                                                   *)
LEMMA FailInv ==
  ASSUME IInv, NEW c \in Calls, Fail(c), UNCHANGED <<clock, position, cache>>
  PROVE  IInv'
  <1>1. Idle \in Call /\ CallOK(Idle, position)
    BY IdleOK DEF IInv, TypeOK
  <1> QED
    BY <1>1, CallOnly DEF Fail

(* What is known of a request.                                             *)
LEMMA Known ==
  ASSUME IInv, NEW c \in Calls
  PROVE  /\ calls[c] \in Call /\ CallOK(calls[c], position)
         /\ position \in Nat /\ position \in Positions /\ clock \in Nat
         /\ calls[c].since \in Nat /\ calls[c].seen \in Nat /\ calls[c].now \in Nat
  <1>1. LastPosition \in Nat
    BY ConfigAssumption
  <1>2. calls[c] \in Call /\ CallOK(calls[c], position) /\ position \in Positions /\ clock \in Nat
    BY DEF IInv, TypeOK
  <1>3. calls[c].since \in Positions /\ calls[c].seen \in Positions /\ calls[c].now \in Nat
    BY <1>2 DEF Call
  <1> QED
    BY <1>1, <1>2, <1>3 DEF Positions

(* A request arrives.                                                      *)
LEMMA BeginInv ==
  ASSUME IInv, NEW c \in Calls, NEW k \in Keys, Begin(c, k)
  PROVE  IInv'
  <1> DEFINE ph == IF NeedsLive(k) \/ MaxEntries > 0 THEN "observing" ELSE "asking"
             now == IF NeedsLive(k) THEN 0 ELSE clock
             q == [phase |-> ph, key |-> k, now |-> now, seen |-> 0, decision |-> Null,
                   since |-> position, fetched |-> Null]
  <1>1. Become(c, q) /\ UNCHANGED <<clock, position, cache>>
    BY DEF Begin
  <1>2. now \in Nat /\ position \in Positions /\ position \in Nat /\ 0 \in Positions
    BY Known, ConfigAssumption DEF Positions
  <1>3. ph \in {"observing", "asking"} /\ (ph = "asking" => ~NeedsLive(k))
    OBVIOUS
  <1> HIDE DEF ph, now
  <1>4. q \in Call
    BY <1>2, <1>3 DEF Call
  <1>5. CallOK(q, position)
    BY <1>2, <1>3 DEF CallOK, Observed
  <1> QED
    BY <1>1, <1>4, <1>5, CallOnly

(* A request reads the revocation state.                                   *)
LEMMA ObserveInv ==
  ASSUME IInv, NEW c \in Calls, Observe(c)
  PROVE  IInv'
  <1>1. UNCHANGED <<clock, position, cache>> /\ calls[c].phase = "observing"
    BY DEF Observe
  <1>2. CASE Fail(c)
    BY <1>1, <1>2, FailInv
  <1>3. ASSUME ~Fail(c) PROVE IInv'
    <2> DEFINE ph == IF NeedsLive(calls[c].key) THEN "asking" ELSE "looking"
               q == [calls[c] EXCEPT !.phase = ph, !.seen = position]
    <2>1. Become(c, q)
      BY <1>3 DEF Observe
    <2>2. /\ ph \in {"asking", "looking"} /\ (ph = "looking" => ~NeedsLive(calls[c].key))
      OBVIOUS
    <2> HIDE DEF ph
    <2>3. q \in Call
      BY <2>2, Known, Zenon DEF Call
    <2>4. CallOK(q, position)
      BY <1>1, <2>2, Known DEF CallOK, Observed, Call
    <2> QED
      BY <1>1, <2>1, <2>3, <2>4, CallOnly
  <1> QED
    BY <1>2, <1>3

(* cached: a usable entry answers, another one is deleted.                 *)
LEMMA LookupInv ==
  ASSUME IInv, NEW c \in Calls, Lookup(c)
  PROVE  IInv'
  <1> DEFINE k == calls[c].key
             entry == cache[k]
  <1>1. /\ UNCHANGED <<clock, position>> /\ calls[c].phase = "looking"
        /\ k \in Keys /\ ~NeedsLive(k)
    BY Known DEF Lookup, CallOK
  <1>2. cache \in [Keys -> Entry \union {Null}] /\ \A j \in Keys : EntryOK(j)
    BY DEF IInv, TypeOK
  <1>3. 0 \in Positions
    BY ConfigAssumption DEF Positions
  <1>4. CASE entry # Null /\ Reusable(c, entry)
    <2> DEFINE q == [calls[c] EXCEPT !.phase = "decided", !.decision = entry.decision,
                                     !.seen = 0, !.fetched = entry.fetched]
    <2>1. Become(c, q) /\ UNCHANGED cache
      BY <1>4 DEF Lookup
    <2>2. entry \in Entry
      BY <1>1, <1>2, <1>4
    <2>3. entry.decision \in Decision /\ entry.fetched \in Nat /\ entry.until \in Nat
      BY <2>2 DEF Entry
    <2>4. q \in Call
      BY <1>3, <2>3, Known, Zenon DEF Call
    <2>5. /\ q.phase = "decided" /\ q.key = k /\ q.now = calls[c].now /\ q.since = calls[c].since
          /\ q.decision = entry.decision /\ q.fetched = entry.fetched
      BY Known DEF Call
    <2> HIDE DEF q
    <2>6. calls[c].since <= calls[c].seen /\ calls[c].seen <= position
      BY <1>1, Known DEF CallOK, Observed
    <2>7. NotRevoked(q, position)
      BY <1>4, <2>5, <2>6, Known DEF NotRevoked, Reusable
    <2>8. ReusedInTime(q)
      <3>1. entry.until <= entry.fetched + TTL(entry.decision.outcome)
        BY <1>1, <1>2, <1>4 DEF EntryOK
      <3>2. calls[c].now < entry.until /\ Fresh(entry.decision, calls[c].now)
        BY <1>4 DEF Reusable
      <3>3. TTL(entry.decision.outcome) \in Nat
        BY ConfigAssumption DEF TTL, FreshnessConfig
      <3>4. calls[c].now < entry.fetched + TTL(entry.decision.outcome)
        BY <2>3, <3>1, <3>2, <3>3, Known
      <3> QED
        BY <2>5, <3>2, <3>4, Zenon DEF ReusedInTime, Fresh
    <2>9. CallOK(q, position)
      BY <1>1, <2>3, <2>5, <2>7, <2>8, Known, Zenon DEF CallOK, Observed
    <2> QED
      BY <1>1, <2>1, <2>4, <2>9, CallOnly
  <1>5. CASE ~(entry # Null /\ Reusable(c, entry))
    <2> DEFINE q == [calls[c] EXCEPT !.phase = "asking", !.seen = 0]
    <2>1. Become(c, q) /\ cache' = [cache EXCEPT ![k] = Null]
      BY <1>5 DEF Lookup
    <2>2. q \in Call
      BY <1>3, Known, Zenon DEF Call
    <2>3. CallOK(q, position)
      BY <1>1, Known DEF CallOK, Observed, Call
    <2>4. cache' \in [Keys -> Entry \union {Null}] /\ \A j \in Keys : EntryOK(j)'
      BY <1>2, <2>1, Zenon DEF EntryOK
    <2> QED
      BY <1>1, <2>1, <2>2, <2>3, <2>4, OneCall
  <1> QED
    BY <1>4, <1>5

(* Whatever ThinkPixelAG answers is a decision.                            *)
LEMMA AnswerType ==
  ASSUME clock \in Nat, NEW d \in Answers
  PROVE  d \in Decision
  <1>1. PICK o \in {"allow", "deny"}, r \in Revocations, t \in {t \in Terms : t.age <= clock} :
          d = [outcome |-> o, revocation |-> r, issued |-> clock - t.age,
               notBefore |-> clock - t.age + t.delay, expires |-> clock + t.life]
    BY DEF Answers
  <1>2. t.age \in Nat /\ t.delay \in Nat /\ t.life \in Nat /\ t.age <= clock
    BY ConfigAssumption
  <1>3. clock - t.age \in Nat /\ clock - t.age + t.delay \in Nat /\ clock + t.life \in Nat
    BY <1>2
  <1> QED
    BY <1>1, <1>3 DEF Decision

(* ThinkPixelAG is asked.                                                  *)
LEMMA AskInv ==
  ASSUME IInv, NEW c \in Calls, Ask(c)
  PROVE  IInv'
  <1>1. UNCHANGED <<clock, position, cache>> /\ calls[c].phase = "asking"
    BY Zenon DEF Ask
  <1>2. CASE Fail(c)
    BY <1>1, <1>2, FailInv
  <1>3. ASSUME ~Fail(c) PROVE IInv'
    <2> DEFINE live == NeedsLive(calls[c].key)
               ph == IF live THEN "answered" ELSE IF HasRevocations THEN "checking" ELSE "storing"
    <2>1. PICK d \in Answers : Become(c, [calls[c] EXCEPT !.decision = d, !.phase = ph])
      BY <1>3, Zenon DEF Ask
    <2> DEFINE q == [calls[c] EXCEPT !.decision = d, !.phase = ph]
    <2>2. /\ ph \in {"answered", "checking", "storing"} /\ (ph = "answered" <=> live)
          /\ ph = "storing" => ~HasRevocations
      OBVIOUS
    <2> HIDE DEF ph
    <2>3. d \in Decision
      BY AnswerType, Known
    <2>4. q \in Call
      BY <2>2, <2>3, Known, Zenon DEF Call
    <2>5. /\ q.phase = ph /\ q.key = calls[c].key /\ q.since = calls[c].since
          /\ q.seen = calls[c].seen /\ q.decision = d /\ q.fetched = calls[c].fetched
      BY Known DEF Call
    <2> HIDE DEF q
    <2>6. CallOK(q, position)
      BY <1>1, <2>2, <2>3, <2>5, Known, Zenon DEF CallOK, Observed
    <2> QED
      BY <1>1, <2>1, <2>4, <2>6, CallOnly DEF q
  <1> QED
    BY <1>2, <1>3

(* CurrentAuthorizer checks the answer to a high-risk write.               *)
LEMMA ConfirmInv ==
  ASSUME IInv, NEW c \in Calls, Confirm(c)
  PROVE  IInv'
  <1> DEFINE d == calls[c].decision
             q == [calls[c] EXCEPT !.phase = "decided", !.seen = 0, !.now = clock]
  <1>1. /\ UNCHANGED <<clock, position, cache>> /\ calls[c].phase = "answered"
        /\ calls[c].key \in Keys /\ d \in Decision /\ calls[c].fetched = Null
    BY Known DEF Confirm, CallOK
  <1>2. CASE Fail(c)
    BY <1>1, <1>2, FailInv
  <1>3. ASSUME ~Fail(c) PROVE IInv'
    <2>1. /\ Become(c, q) /\ Fresh(d, clock) /\ clock - d.issued <= MaxDecisionAge
          /\ Matches(d, Feed[calls[c].seen])
      BY <1>3 DEF Confirm
    <2>2. 0 \in Positions
      BY ConfigAssumption DEF Positions
    <2>3. q \in Call
      BY <2>2, Known, Zenon DEF Call
    <2>4. /\ q.phase = "decided" /\ q.key = calls[c].key /\ q.now = clock
          /\ q.since = calls[c].since /\ q.decision = d /\ q.fetched = calls[c].fetched
      BY Known DEF Call
    <2> HIDE DEF q
    <2>5. calls[c].since <= calls[c].seen /\ calls[c].seen <= position
      BY <1>1, Known, Zenon DEF CallOK, Observed
    <2>6. NotRevoked(q, position)
      BY <2>1, <2>4, <2>5, Known DEF NotRevoked
    <2>7. LiveInTime(q)
      BY <1>1, <2>1, <2>4, Zenon DEF LiveInTime, Fresh
    <2>8. CallOK(q, position)
      BY <1>1, <2>4, <2>6, <2>7, Known, Zenon DEF CallOK, Observed
    <2> QED
      BY <1>1, <2>1, <2>3, <2>8, CallOnly
  <1> QED
    BY <1>2, <1>3

(* A request whose phase alone changes.                                    *)
LEMMA NewPhase ==
  ASSUME IInv, NEW c \in Calls, NEW ph \in {"storing", "decided"}
  PROVE  LET q == [calls[c] EXCEPT !.phase = ph]
         IN  /\ q \in Call
             /\ q.phase = ph /\ q.key = calls[c].key /\ q.now = calls[c].now
             /\ q.since = calls[c].since /\ q.decision = calls[c].decision
             /\ q.fetched = calls[c].fetched /\ q.seen = calls[c].seen
  BY Known DEF Call

(* FreshAuthorizer reads the revocation state again after a live answer.   *)
LEMMA RecheckInv ==
  ASSUME IInv, NEW c \in Calls, Recheck(c)
  PROVE  IInv'
  <1> DEFINE q == [calls[c] EXCEPT !.phase = "storing"]
  <1>1. UNCHANGED <<clock, position, cache>> /\ calls[c].phase = "checking"
    BY DEF Recheck
  <1>2. CASE Fail(c)
    BY <1>1, <1>2, FailInv
  <1>3. ASSUME ~Fail(c) PROVE IInv'
    <2>1. Become(c, q) /\ Matches(calls[c].decision, Feed[position])
      BY <1>3 DEF Recheck, To
    <2>2. /\ q \in Call
          /\ q.phase = "storing" /\ q.key = calls[c].key /\ q.now = calls[c].now
          /\ q.since = calls[c].since /\ q.decision = calls[c].decision
          /\ q.fetched = calls[c].fetched /\ q.seen = calls[c].seen
      BY NewPhase, Zenon
    <2> HIDE DEF q
    <2>3. NotRevoked(q, position)
      BY <2>1, <2>2, Known DEF NotRevoked, CallOK
    <2>4. CallOK(q, position)
      BY <1>1, <2>2, <2>3, Known, Zenon DEF CallOK, Observed
    <2> QED
      BY <1>1, <2>1, <2>2, <2>4, CallOnly
  <1> QED
    BY <1>2, <1>3

(* store, and the return of a live decision of the regular path.           *)
LEMMA StoreInv ==
  ASSUME IInv, NEW c \in Calls, Store(c)
  PROVE  IInv'
  <1> DEFINE q == [calls[c] EXCEPT !.phase = "decided"]
             k == calls[c].key
             now == calls[c].now
             d == calls[c].decision
             e == [decision |-> d, until |-> Until(d, now), fetched |-> now]
  <1>1. /\ UNCHANGED <<clock, position>> /\ calls[c].phase = "storing" /\ Become(c, q)
        /\ cache' = IF Storable(c) THEN [cache EXCEPT ![k] = e] ELSE cache
    BY DEF Store, To
  <1>2. k \in Keys /\ ~NeedsLive(k) /\ d \in Decision /\ now \in Nat /\ calls[c].fetched = Null
    BY <1>1, Known DEF CallOK
  <1>3. /\ q \in Call
        /\ q.phase = "decided" /\ q.key = k /\ q.now = now /\ q.since = calls[c].since
        /\ q.decision = d /\ q.fetched = calls[c].fetched /\ q.seen = calls[c].seen
    BY NewPhase, Zenon
  <1>4. CallOK(q, position)
    <2>1. HasRevocations => NotRevoked(q, position)
      BY <1>1, <1>3, Known DEF CallOK, NotRevoked
    <2> HIDE DEF q
    <2> QED
      BY <1>1, <1>2, <1>3, <2>1, Known, Zenon DEF CallOK, Observed
  <1>5. e \in Entry /\ e.until <= e.fetched + TTL(e.decision.outcome)
    <2>1. d.expires \in Nat
      BY <1>2 DEF Decision
    <2>2. TTL(d.outcome) \in Nat
      BY ConfigAssumption DEF TTL, FreshnessConfig
    <2>3. Until(d, now) \in Nat /\ Until(d, now) <= now + TTL(d.outcome)
      BY <1>2, <2>1, <2>2 DEF Until
    <2> QED
      BY <1>2, <2>3, Zenon DEF Entry
  <1>6. cache \in [Keys -> Entry \union {Null}] /\ \A j \in Keys : EntryOK(j)
    BY DEF IInv, TypeOK
  <1> HIDE DEF q, k, e
  <1>7. cache' \in [Keys -> Entry \union {Null}]
    BY <1>1, <1>2, <1>5, <1>6
  <1>8. ASSUME NEW j \in Keys PROVE EntryOK(j)'
    <2>1. cache'[j] = cache[j] \/ (j = k /\ cache'[j] = e)
      BY <1>1, <1>2, <1>6
    <2> QED
      BY <1>2, <1>5, <1>6, <2>1 DEF EntryOK
  <1> QED
    BY <1>1, <1>3, <1>4, <1>7, <1>8, OneCall, Zenon

(* AuthorizedExecutor.Execute.                                             *)
LEMMA ResolveInv ==
  ASSUME IInv, NEW c \in Calls, Resolve(c)
  PROVE  IInv'
  <1>1. UNCHANGED <<clock, position, cache>>
    BY DEF Resolve
  <1>2. CASE Fail(c)
    BY <1>1, <1>2, FailInv
  <1>3. ASSUME ~Fail(c) PROVE IInv'
    <2> DEFINE q == [Idle EXCEPT !.phase = "leased"]
    <2>1. Become(c, q)
      BY <1>3 DEF Resolve
    <2>2. q \in Call /\ CallOK(q, position)
      BY Known, IdleOK DEF Idle, Call, CallOK, Observed
    <2> QED
      BY <1>1, <2>1, <2>2, CallOnly
  <1> QED
    BY <1>2, <1>3

(* The revocation state the gateway observes moves on under the requests.  *)
LEMMA RevokeInv == IInv /\ Revoke => IInv'
  <1> SUFFICES ASSUME IInv, Revoke PROVE IInv'
    OBVIOUS
  <1>1. position' = position + 1 /\ UNCHANGED <<clock, cache, calls>>
    BY DEF Revoke
  <1>2. position \in Nat /\ LastPosition \in Nat /\ position' \in Positions
    BY ConfigAssumption DEF IInv, TypeOK, Revoke, Positions
  <1>3. TypeOK'
    BY <1>1, <1>2 DEF IInv, TypeOK
  <1>4. ASSUME NEW c \in Calls PROVE CallOK(calls[c], position + 1)
    <2>1. NotRevoked(calls[c], position) => NotRevoked(calls[c], position + 1)
      BY <1>2, Known DEF NotRevoked
    <2>2. Observed(calls[c], position) => Observed(calls[c], position + 1)
      BY <1>2, Known DEF Observed
    <2>3. calls[c].since <= position + 1
      BY <1>2, Known DEF CallOK
    <2> QED
      BY <2>1, <2>2, <2>3, Known, Zenon DEF CallOK
  <1>5. \A k \in Keys : EntryOK(k)'
    BY <1>1 DEF IInv, EntryOK
  <1> QED
    BY <1>1, <1>3, <1>4, <1>5 DEF IInv

(* Every step keeps the invariant.                                         *)
LEMMA NextInv == IInv /\ [Next]_vars => IInv'
  <1> SUFFICES ASSUME IInv, [Next]_vars PROVE IInv'
    OBVIOUS
  <1>1. ASSUME NEW c \in Calls, Execute(c) PROVE IInv'
    BY <1>1, FailInv DEF Execute, Fail
  <1>2. CASE Tick
    BY <1>2 DEF IInv, TypeOK, EntryOK, Tick
  <1>3. CASE UNCHANGED vars
    BY <1>3 DEF IInv, TypeOK, EntryOK, vars
  <1> QED
    BY <1>1, <1>2, <1>3, BeginInv, ObserveInv, LookupInv, AskInv, ConfirmInv, RecheckInv,
       StoreInv, ResolveInv, RevokeInv DEF Next

-----------------------------------------------------------------------------
(* The invariant holds in every state of every behaviour.                  *)
THEOREM Invariance == Spec => []IInv
  <1> QED
    BY InitInv, NextInv, PTL DEF Spec

(* No request is decided by a revoked decision, wherever the revocation    *)
(* state moves between its reads: FreshAuthorizer compares a cached        *)
(* decision with the state read before the lookup and a live one with the  *)
(* state read after it, CurrentAuthorizer with the one read before.        *)
THEOREM RevokedIsNeverUsed == Spec => []RevokedIsNotUsed
  <1>1. IInv => RevokedIsNotUsed
    BY Zenon DEF IInv, RevokedIsNotUsed, Decided, CallOK, NotRevoked
  <1> QED
    BY <1>1, Invariance, PTL

(* A decision is reused within its validity and its TTL, counted from the  *)
(* beginning of the request that fetched it (store, cached).               *)
THEOREM ReuseStaysBounded == Spec => []ReuseIsBounded
  <1>1. IInv => ReuseIsBounded
    BY Zenon DEF IInv, ReuseIsBounded, Decided, CallOK, ReusedInTime
  <1> QED
    BY <1>1, Invariance, PTL

(* A high-risk write is decided by a live, valid and recent decision that  *)
(* never comes from the cache and is never put there (CurrentAuthorizer).  *)
THEOREM HighRiskStaysLive == Spec => []HighRiskIsLive
  <1>1. IInv => HighRiskIsLive
    <2> SUFFICES ASSUME IInv PROVE HighRiskIsLive
      OBVIOUS
    <2>1. \A k \in HighRisk : cache[k] = Null
      BY ConfigAssumption DEF IInv, EntryOK, NeedsLive, CurrentAuthorizationConfig
    <2>2. \A c \in Decided : NeedsLive(calls[c].key) => LiveInTime(calls[c])
      BY Zenon DEF IInv, Decided, CallOK
    <2> QED
      BY <2>1, <2>2, Zenon DEF HighRiskIsLive, LiveInTime, NeedsLive
  <1> QED
    BY <1>1, Invariance, PTL

(* A high-risk write is never decided by a revoked decision, also where    *)
(* the regular path has no revocation state (CurrentAuthorizer reads it    *)
(* in every configuration).                                                *)
THEOREM HighRiskIsNeverRevoked ==
  Spec => [](\A c \in Decided : calls[c].key \in HighRisk => NotRevoked(calls[c], position))
  <1>1. IInv => \A c \in Decided : calls[c].key \in HighRisk => NotRevoked(calls[c], position)
    BY Zenon DEF IInv, Decided, CallOK, NeedsLive
  <1> QED
    BY <1>1, Invariance, PTL
=============================================================================
