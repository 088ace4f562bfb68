-------------------------------- MODULE Outbox --------------------------------
(***************************************************************************)
(* The transactional outbox: protected mutations enqueue messages          *)
(* (internal/adapters/postgres/protected_mutation.go) and publishers       *)
(* deliver them to a sink at least once, with leases, backoff and a dead   *)
(* letter (internal/adapters/postgres/outbox_publisher.go).  Publication   *)
(* happens outside any transaction; a claim or an owned update is one      *)
(* statement and so one step.                                              *)
(***************************************************************************)
EXTENDS Backoff, FiniteSets

CONSTANTS
  Events,       \* protected mutations, by event_id
  Messages,     \* outbox_id values, in the order of the claim query
  MessagesOf,   \* the outbox messages of an event, one per topic
  Publishers,   \* publisher processes; a publisher is its OwnerID
  Lease,        \* LeaseDuration
  MaxAttempts,
  BaseBackoff,
  MaxBackoff,
  Jitter,       \* in percent
  Skew,         \* distance of each publisher's clock from the common clock
  MaxFaults,    \* bound on crashes, failed updates and overrun leases explored
  MaxDelay,     \* bound on the delays and attempts for which backoff is computed
  Null

ASSUME OutboxAssumption ==
  /\ Messages \subseteq Nat
  /\ MessagesOf \in [Events -> SUBSET Messages]
  /\ \A e \in Events : MessagesOf[e] # {}
  /\ \A e, f \in Events : e # f => MessagesOf[e] \intersect MessagesOf[f] = {}
  /\ Lease \in Nat \ {0}
  /\ MaxAttempts \in Nat \ {0}
  /\ BaseBackoff \in Nat \ {0}
  /\ MaxBackoff \in Nat /\ MaxBackoff >= BaseBackoff
  /\ Jitter \in 0..100
  /\ Skew \in [Publishers -> Int]
  /\ MaxFaults \in Nat
  /\ MaxDelay \in Nat
  /\ Null \notin Publishers \union Messages

VARIABLES
  audit,       \* events whose mutation and audit event are committed
  messages,    \* outbox_messages
  publishers,  \* what each publisher is doing and the claim it holds
  accepted,    \* history: how often the sink accepted each message
  clock,       \* the common clock
  faults       \* history: crashes, failed updates and overrun leases

vars == <<audit, messages, publishers, accepted, clock, faults>>

Classes == {"transient", "permanent", "poison", "unknown"}

(* A publisher knows the claim it holds (message, until, attempts), the    *)
(* clock as it read it (now), and the sink's answer (verdict).             *)
Idle == [phase |-> "idle", message |-> Null, until |-> 0, attempts |-> 0,
         now |-> 0, verdict |-> "none"]

Init ==
  /\ audit = {}
  /\ messages = [m \in Messages |-> [state |-> "absent", available |-> 0,
                                     owner |-> Null, until |-> 0, attempts |-> 0]]
  /\ publishers = [p \in Publishers |-> Idle]
  /\ accepted = [m \in Messages |-> 0]
  /\ clock = 0
  /\ faults = 0

-----------------------------------------------------------------------------
(* ProtectedMutationExecutor.Execute commits: the mutation, its audit      *)
(* event and all its messages become visible together.  A failure in any   *)
(* of them, and a repeated event, rolls everything back.                   *)
Execute(e) ==
  /\ e \notin audit
  /\ audit' = audit \union {e}
  /\ messages' = [m \in Messages |->
                    IF m \in MessagesOf[e]
                      THEN [state |-> "pending", available |-> clock, owner |-> Null,
                            until |-> 0, attempts |-> 0]
                      ELSE messages[m]]
  /\ UNCHANGED <<publishers, accepted, clock, faults>>

(* PublishOne reads the clock.                                             *)
Poll(p) ==
  /\ publishers[p].phase = "idle"
  /\ publishers' = [publishers EXCEPT ![p] =
                      [Idle EXCEPT !.phase = "claiming", !.now = clock + Skew[p]]]
  /\ UNCHANGED <<audit, messages, accepted, clock, faults>>

(* Variant: a claim that was not given up is never taken over.             *)
ClaimableIfFree(m, now) ==
  /\ messages[m].state = "pending"
  /\ messages[m].available <= now
  /\ messages[m].owner = Null

(* The candidates of the claim query.                                      *)
Claimable(m, now) ==
  /\ messages[m].state = "pending"
  /\ messages[m].available <= now
  /\ messages[m].owner = Null \/ messages[m].until <= now

(* Publishers whose claim or update may have a row locked.                 *)
Locking(p) ==
  {q \in Publishers \ {p} : publishers[q].phase \in {"claiming", "settling"}}

(* ORDER BY available_at, outbox_id ... FOR UPDATE SKIP LOCKED LIMIT 1: an *)
(* earlier candidate is passed over only while it is locked.               *)
Candidate(p, m) ==
  LET now == publishers[p].now
      earlier == {n \in Messages :
                    /\ Claimable(n, now)
                    /\ \/ messages[n].available < messages[m].available
                       \/ messages[n].available = messages[m].available /\ n < m}
  IN  /\ Claimable(m, now)
      /\ Cardinality(earlier) <= Cardinality(Locking(p))

(* A publisher still works on a claim that is taken from it.               *)
Overrun(m) ==
  \E q \in Publishers :
    /\ publishers[q].phase \in {"publishing", "settling"}
    /\ publishers[q].message = m
    /\ messages[m].owner = q
    /\ publishers[q].attempts = messages[m].attempts

(* claim: lease the message and count the attempt.                         *)
Claim(p) ==
  LET q == publishers[p]
  IN  /\ q.phase = "claiming"
      /\ \E m \in Messages :
           LET r == messages[m]
           IN  /\ Candidate(p, m)
               /\ IF Overrun(m)
                    THEN faults < MaxFaults /\ faults' = faults + 1
                    ELSE UNCHANGED faults
               /\ messages' = [messages EXCEPT ![m] =
                                 [state |-> "pending", available |-> r.available,
                                  owner |-> p, until |-> q.now + Lease,
                                  attempts |-> r.attempts + 1]]
               /\ publishers' = [publishers EXCEPT ![p] =
                                   [phase |-> "publishing", message |-> m,
                                    until |-> q.now + Lease,
                                    attempts |-> r.attempts + 1,
                                    now |-> 0, verdict |-> "none"]]
      /\ UNCHANGED <<audit, accepted, clock>>

(* pgx.ErrNoRows: nothing is ready, or all that is ready is locked.        *)
NoWork(p) ==
  /\ publishers[p].phase = "claiming"
  /\ Cardinality({m \in Messages : Claimable(m, publishers[p].now)})
       <= Cardinality(Locking(p))
  /\ publishers' = [publishers EXCEPT ![p] = Idle]
  /\ UNCHANGED <<audit, messages, accepted, clock, faults>>

(* The sink answers.  An accepted message whose reference is blank counts  *)
(* as poison, and an unknown error leaves open whether it was accepted.    *)
Publish(p, verdict) ==
  LET q == publishers[p]
  IN  /\ q.phase = "publishing"
      /\ \/ /\ verdict \in {"published", "poison", "unknown"}
            /\ accepted' = [accepted EXCEPT ![q.message] = @ + 1]
         \/ verdict # "published" /\ UNCHANGED accepted
      /\ publishers' = [publishers EXCEPT ![p] =
                          [q EXCEPT !.phase = "settling", !.verdict = verdict]]
      /\ UNCHANGED <<audit, messages, clock, faults>>

(* The delays that the jitter factor allows.                               *)
Delays(attempt) ==
  LET delay == Backoff(BaseBackoff, MaxBackoff, attempt)
  IN  ((100 - Jitter) * delay) \div 100 .. ((100 + Jitter) * delay) \div 100

(* Variant of the fence of the owned updates: neither the claim nor a      *)
(* final state is compared.                                                *)
StillOwnedForEver(p) == messages[publishers[p].message].state # "absent"

(* The WHERE of the owned updates: the exact claim, and no final state.    *)
StillOwned(p) ==
  LET q == publishers[p]
      r == messages[q.message]
  IN  /\ r.state = "pending"
      /\ r.owner = p
      /\ r.until = q.until
      /\ r.attempts = q.attempts

(* Variant: an unknown answer is taken for an acceptance.                  *)
SucceededPerhaps(q) == q.verdict \in {"published", "unknown"}

(* The sink accepted the message and returned a reference.                 *)
Succeeded(q) == q.verdict = "published"

(* The verdict is final for the message.                                   *)
Dead(q) == q.verdict \in {"permanent", "poison"} \/ q.attempts >= MaxAttempts

Released(r, available) ==
  [state |-> "pending", available |-> available, owner |-> Null, until |-> 0,
   attempts |-> r.attempts]

Final(r, state) ==
  [state |-> state, available |-> r.available, owner |-> Null, until |-> 0,
   attempts |-> r.attempts]

(* markPublished, markDeadLetter or releaseForRetry, or "outbox lease is   *)
(* no longer current".                                                     *)
Settle(p) ==
  LET q == publishers[p]
      r == messages[q.message]
  IN  /\ q.phase = "settling"
      /\ IF ~StillOwned(p) THEN UNCHANGED messages
         ELSE \/ /\ Succeeded(q)
                 /\ messages' = [messages EXCEPT ![q.message] = Final(r, "published")]
              \/ /\ ~Succeeded(q) /\ Dead(q)
                 /\ messages' = [messages EXCEPT ![q.message] = Final(r, "dead")]
              \/ /\ ~Succeeded(q) /\ ~Dead(q)
                 /\ \E d \in Delays(q.attempts) :
                      messages' = [messages EXCEPT ![q.message] =
                                     Released(r, clock + Skew[p] + d)]
      /\ publishers' = [publishers EXCEPT ![p] = Idle]
      /\ UNCHANGED <<audit, accepted, clock, faults>>

(* The publisher stops, or an update fails: the claim stays until its      *)
(* lease has run out.                                                      *)
Crash(p) ==
  /\ publishers[p].phase # "idle"
  /\ faults < MaxFaults
  /\ faults' = faults + 1
  /\ publishers' = [publishers EXCEPT ![p] = Idle]
  /\ UNCHANGED <<audit, messages, accepted, clock>>

(* Time passes while some publisher waits for a lease or a backoff.        *)
Tick ==
  /\ \E m \in Messages, p \in Publishers :
       /\ messages[m].state = "pending"
       /\ \/ messages[m].available > clock + Skew[p]
          \/ messages[m].owner # Null /\ messages[m].until > clock + Skew[p]
  /\ clock' = clock + 1
  /\ UNCHANGED <<audit, messages, publishers, accepted, faults>>

Next ==
  \/ \E e \in Events : Execute(e)
  \/ \E p \in Publishers : Poll(p)
  \/ \E p \in Publishers : Claim(p)
  \/ \E p \in Publishers : NoWork(p)
  \/ \E p \in Publishers, verdict \in Classes \union {"published"} : Publish(p, verdict)
  \/ \E p \in Publishers : Settle(p)
  \/ \E p \in Publishers : Crash(p)
  \/ Tick

Spec == Init /\ [][Next]_vars

-----------------------------------------------------------------------------
(* A message recorded as published was accepted by the sink: no publisher  *)
(* settles a message with what another one learnt about a different claim. *)
(* The sink accepts a message once per claim at most, and beyond           *)
(* MaxAttempts a message is claimed only after a crash, a failed update or *)
(* an overrun lease.                                                       *)
PublishedWasAccepted ==
  \A m \in Messages :
    /\ messages[m].state = "published" => accepted[m] > 0
    /\ accepted[m] <= messages[m].attempts
    /\ messages[m].attempts <= MaxAttempts + faults

(* The outcome of a message is decided once: a late answer of a publisher  *)
(* whose lease was taken over neither revives, kills nor re-publishes it.  *)
OutcomeIsFinal ==
  [][\A m \in Messages :
       messages[m].state \in {"published", "dead"} => messages'[m] = messages[m]]_vars

(* 2^n.                                                                    *)
PowerOfTwo(n) ==
  LET power[i \in 0..n] == IF i = 0 THEN 1 ELSE 2 * power[i - 1]
  IN  power[n]

(* The delay before each attempt a message still has is base * 2^(n - 1)   *)
(* cut off at the limit, for every configuration NewOutboxPublisher        *)
(* accepts, although the loop never computes a product beyond the limit    *)
(* (backoff).                                                              *)
BackoffDoubles ==
  \A m \in Messages, base, max \in 1..MaxDelay :
    base <= max =>
      \A n \in messages[m].attempts + 1..MaxDelay :
        LET exact == base * PowerOfTwo(n - 1)
        IN  Backoff(base, max, n) = IF exact > max THEN max ELSE exact
=============================================================================
