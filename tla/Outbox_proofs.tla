---------------------------- MODULE Outbox_proofs ----------------------------
(* Proofs about the transactional outbox, for any number of mutations,     *)
(* messages and publishers, any leases, backoff and clock skews, and any   *)
(* number of crashes and overrun leases.  The invariant assumes nothing    *)
(* about the delay of a retry: the results hold whenever a message becomes *)
(* available again.  What the delay is, is proved by itself at the end.    *)
EXTENDS Outbox, WellFoundedInduction, TLAPS

Publisher ==
  [phase : {"idle", "claiming", "publishing", "settling"},
   message : Messages \union {Null}, until : Int, attempts : Nat, now : Int,
   verdict : Classes \union {"published", "none"}]

(* The types; the time at which a message is available has none.           *)
TypeOK ==
  /\ audit \subseteq Events
  /\ messages = [m \in Messages |-> messages[m]]
  /\ \A m \in Messages :
       /\ messages[m].state \in {"absent", "pending", "published", "dead"}
       /\ messages[m].attempts \in Nat
  /\ publishers \in [Publishers -> Publisher]
  /\ accepted \in [Messages -> Nat]
  /\ clock \in Nat
  /\ faults \in Nat

(* Publishers whose call of the sink for a message is under way.           *)
Publishing(m) ==
  {p \in Publishers : publishers[p].phase = "publishing" /\ publishers[p].message = m}

(* Assignments of different numbers above a to the members of P, up to b.  *)
Numbering(P, a, b) ==
  {f \in [P -> a + 1..b] : \A p, q \in P : f[p] = f[q] => p = q}

(* Of a message: every acceptance and every call under way belongs to a    *)
(* claim of its own, and a claim that nobody works on any more leaves one  *)
(* more attempt within the bound.                                          *)
MessageInv(m) ==
  LET r == messages[m]
  IN  /\ accepted[m] <= r.attempts
      /\ Numbering(Publishing(m), accepted[m], r.attempts) # {}
      /\ r.attempts <= MaxAttempts + faults
      /\ r.state = "pending" /\ ~Overrun(m) => r.attempts < MaxAttempts + faults
      /\ r.state = "published" => accepted[m] > 0

(* Of a publisher: the claim it works on is the one in the table, or has   *)
(* been taken over; what it takes for published was accepted.              *)
PublisherInv(p) ==
  LET q == publishers[p]
  IN  /\ q.phase \in {"publishing", "settling"} =>
           /\ q.message \in Messages
           /\ messages[q.message].owner = p /\ messages[q.message].attempts = q.attempts
                => messages[q.message].until = q.until
      /\ q.phase = "settling" /\ q.verdict = "published" => accepted[q.message] > 0

(* The messages of a mutation that is not committed are not in the table.  *)
Enqueued ==
  \A e \in Events \ audit : \A m \in MessagesOf[e] : messages[m].state = "absent"

(* A message that is not in the table was never claimed.                   *)
AbsentInv == \A m \in Messages : messages[m].state = "absent" => messages[m].attempts = 0

(* The inductive invariant of the outbox.                                  *)
IInv ==
  /\ TypeOK
  /\ Enqueued
  /\ AbsentInv
  /\ \A m \in Messages : MessageInv(m)
  /\ \A p \in Publishers : PublisherInv(p)

-----------------------------------------------------------------------------
(* Fewer members need no more numbers.                                     *)
LEMMA NumberingShrinks ==
  ASSUME NEW P, NEW Q \in SUBSET P, NEW a \in Nat, NEW b \in Nat, Numbering(P, a, b) # {}
  PROVE  Numbering(Q, a, b) # {}
  <1>1. PICK f \in [P -> a + 1..b] : \A p, q \in P : f[p] = f[q] => p = q
    BY DEF Numbering
  <1> DEFINE g == [q \in Q |-> f[q]]
  <1>2. g \in [Q -> a + 1..b] /\ \A p, q \in Q : g[p] = g[q] => p = q
    BY <1>1
  <1> HIDE DEF g
  <1> QED
    BY <1>2 DEF Numbering

(* A new member takes the new number.                                      *)
LEMMA NumberingGrows ==
  ASSUME NEW P, NEW a \in Nat, NEW b \in Nat, a <= b, NEW c, c \notin P,
         Numbering(P, a, b) # {}
  PROVE  Numbering(P \union {c}, a, b + 1) # {}
  <1>1. PICK f \in [P -> a + 1..b] : \A p, q \in P : f[p] = f[q] => p = q
    BY DEF Numbering
  <1> DEFINE g == [q \in P \union {c} |-> IF q = c THEN b + 1 ELSE f[q]]
  <1>2. g \in [P \union {c} -> a + 1..b + 1]
    BY <1>1
  <1>3. \A p, q \in P \union {c} : g[p] = g[q] => p = q
    BY <1>1
  <1> HIDE DEF g
  <1> QED
    BY <1>2, <1>3 DEF Numbering

(* A member that leaves takes the least number with it.                    *)
LEMMA NumberingSpends ==
  ASSUME NEW P, NEW a \in Nat, NEW b \in Nat, NEW c \in P, Numbering(P, a, b) # {}
  PROVE  a + 1 <= b /\ Numbering(P \ {c}, a + 1, b) # {}
  <1>1. PICK f \in [P -> a + 1..b] : \A p, q \in P : f[p] = f[q] => p = q
    BY DEF Numbering
  <1>2. f[c] \in a + 1..b
    BY <1>1
  <1> DEFINE g == [q \in P \ {c} |-> IF f[q] = a + 1 THEN f[c] ELSE f[q]]
  <1>3. g \in [P \ {c} -> a + 2..b]
    <2> SUFFICES ASSUME NEW q \in P \ {c}
                 PROVE  (IF f[q] = a + 1 THEN f[c] ELSE f[q]) \in a + 2..b
      OBVIOUS
    <2>1. f[q] \in a + 1..b /\ f[q] # f[c]
      BY <1>1
    <2> QED
      BY <1>2, <2>1
  <1>4. \A p, q \in P \ {c} : g[p] = g[q] => p = q
    BY <1>1
  <1>5. a + 1 + 1 = a + 2 /\ a + 1 <= b
    BY <1>2
  <1> HIDE DEF g
  <1> QED
    BY <1>3, <1>4, <1>5 DEF Numbering

-----------------------------------------------------------------------------
(* The first state satisfies the invariant.                                *)
LEMMA InitInv == Init => IInv
  <1> SUFFICES ASSUME Init PROVE IInv
    OBVIOUS
  <1>1. Idle \in Publisher
    BY DEF Idle, Publisher
  <1>2. TypeOK
    BY <1>1 DEF Init, TypeOK
  <1>3. Enqueued /\ AbsentInv
    BY OutboxAssumption DEF Init, Enqueued, AbsentInv
  <1>4. ASSUME NEW m \in Messages PROVE MessageInv(m)
    <2>1. Publishing(m) = {}
      BY DEF Init, Idle, Publishing
    <2>2. [p \in {} |-> 0] \in Numbering({}, 0, 0)
      BY DEF Numbering
    <2>3. /\ messages[m].state = "absent" /\ messages[m].attempts = 0
          /\ accepted[m] = 0 /\ faults = 0
      BY DEF Init
    <2> QED
      BY <2>1, <2>2, <2>3, OutboxAssumption DEF MessageInv
  <1>5. ASSUME NEW p \in Publishers PROVE PublisherInv(p)
    BY DEF Init, Idle, PublisherInv
  <1> QED
    BY <1>2, <1>3, <1>4, <1>5 DEF IInv

(* What is known of a message.                                             *)
LEMMA Known ==
  ASSUME IInv, NEW m \in Messages
  PROVE  /\ messages[m].attempts \in Nat /\ accepted[m] \in Nat
         /\ faults \in Nat /\ MaxAttempts \in Nat /\ MaxAttempts > 0
         /\ MessageInv(m)
  BY OutboxAssumption DEF IInv, TypeOK

(* A message that a step does not touch, though fewer publishers may be    *)
(* at work on it.                                                          *)
LEMMA Untouched ==
  ASSUME IInv, NEW m \in Messages,
         messages'[m] = messages[m], accepted'[m] = accepted[m],
         faults' \in Nat, faults <= faults',
         Publishing(m)' \subseteq Publishing(m),
         messages[m].state = "pending" /\ Overrun(m) => Overrun(m)' \/ faults < faults'
  PROVE  MessageInv(m)'
  <1>1. Numbering(Publishing(m)', accepted[m], messages[m].attempts) # {}
    BY Known, NumberingShrinks DEF MessageInv
  <1>2. messages[m].attempts <= MaxAttempts + faults'
    BY Known DEF MessageInv
  <1>3. ASSUME messages[m].state = "pending", ~Overrun(m)'
        PROVE  messages[m].attempts < MaxAttempts + faults'
    <2>1. CASE Overrun(m)
      BY <1>3, <2>1, Known DEF MessageInv
    <2>2. CASE ~Overrun(m)
      BY <1>3, <2>2, Known DEF MessageInv
    <2> QED
      BY <2>1, <2>2
  <1> QED
    BY <1>1, <1>2, <1>3, Known DEF MessageInv

(* A step in which a publisher that works on no claim, or gives up on one, *)
(* becomes q and nothing else but the count of faults changes.             *)
LEMMA PublisherOnly ==
  ASSUME IInv, NEW p \in Publishers, NEW q \in Publisher,
         publishers' = [publishers EXCEPT ![p] = q],
         q.phase \in {"idle", "claiming"},
         UNCHANGED <<audit, messages, accepted, clock>>,
         faults' \in Nat, faults <= faults',
         publishers[p].phase \in {"publishing", "settling"} => faults < faults'
  PROVE  IInv'
  <1>1. \A b \in Publishers : publishers'[b] = IF b = p THEN q ELSE publishers[b]
    BY DEF IInv, TypeOK
  <1>2. TypeOK'
    BY DEF IInv, TypeOK
  <1>3. Enqueued' /\ AbsentInv'
    BY DEF IInv, Enqueued, AbsentInv
  <1>4. ASSUME NEW m \in Messages PROVE MessageInv(m)'
    <2>1. Publishing(m)' \subseteq Publishing(m)
      BY <1>1 DEF Publishing
    <2>2. ASSUME Overrun(m) PROVE Overrun(m)' \/ faults < faults'
      <3>1. PICK b \in Publishers :
              /\ publishers[b].phase \in {"publishing", "settling"}
              /\ publishers[b].message = m
              /\ messages[m].owner = b
              /\ publishers[b].attempts = messages[m].attempts
        BY <2>2 DEF Overrun
      <3>2. CASE b = p
        BY <3>1, <3>2
      <3>3. CASE b # p
        BY <1>1, <3>1, <3>3 DEF Overrun
      <3> QED
        BY <3>2, <3>3
    <2> QED
      BY <2>1, <2>2, Untouched
  <1>5. ASSUME NEW b \in Publishers PROVE PublisherInv(b)'
    <2>1. CASE b = p
      BY <1>1, <2>1 DEF PublisherInv
    <2>2. CASE b # p
      BY <1>1, <2>2 DEF IInv, PublisherInv
    <2> QED
      BY <2>1, <2>2
  <1> QED
    BY <1>2, <1>3, <1>4, <1>5 DEF IInv

(* PublishOne reads the clock.                                             *)
LEMMA PollInv ==
  ASSUME IInv, NEW p \in Publishers, Poll(p)
  PROVE  IInv'
  <1>1. PICK now \in Int : now = clock + Skew[p]
    BY OutboxAssumption DEF IInv, TypeOK
  <1>2. Idle \in Publisher
    BY DEF Idle, Publisher
  <1> DEFINE q == [Idle EXCEPT !.phase = "claiming", !.now = now]
  <1>3. q \in Publisher /\ q.phase = "claiming"
    BY <1>2, Zenon DEF Publisher
  <1>4. faults \in Nat /\ faults <= faults
    BY DEF IInv, TypeOK
  <1>5. /\ publishers' = [publishers EXCEPT ![p] = q] /\ publishers[p].phase = "idle"
        /\ UNCHANGED <<audit, messages, accepted, clock, faults>>
    BY <1>1 DEF Poll
  <1> HIDE DEF q
  <1> QED
    BY <1>3, <1>4, <1>5, PublisherOnly, Zenon

(* Nothing is ready.                                                       *)
LEMMA NoWorkInv ==
  ASSUME IInv, NEW p \in Publishers, NoWork(p)
  PROVE  IInv'
  <1>1. Idle \in Publisher /\ Idle.phase = "idle"
    BY DEF Idle, Publisher
  <1>2. faults \in Nat /\ faults <= faults
    BY DEF IInv, TypeOK
  <1> QED
    BY <1>1, <1>2, PublisherOnly, Zenon DEF NoWork

(* A publisher stops, or its update fails.                                 *)
LEMMA CrashInv ==
  ASSUME IInv, NEW p \in Publishers, Crash(p)
  PROVE  IInv'
  <1>1. Idle \in Publisher /\ Idle.phase = "idle"
    BY DEF Idle, Publisher
  <1>2. faults' \in Nat /\ faults < faults' /\ faults <= faults'
    BY DEF IInv, TypeOK, Crash
  <1> QED
    BY <1>1, <1>2, PublisherOnly, Zenon DEF Crash

(* A protected mutation commits with its messages.                         *)
LEMMA ExecuteInv ==
  ASSUME IInv, NEW e \in Events, Execute(e)
  PROVE  IInv'
  <1> DEFINE new == [state |-> "pending", available |-> clock, owner |-> Null,
                     until |-> 0, attempts |-> 0]
  <1>1. /\ e \notin audit /\ audit' = audit \union {e}
        /\ messages' = [m \in Messages |-> IF m \in MessagesOf[e] THEN new ELSE messages[m]]
        /\ UNCHANGED <<publishers, accepted, clock, faults>>
    BY DEF Execute
  <1>2. \A m \in Messages : messages'[m] = IF m \in MessagesOf[e] THEN new ELSE messages[m]
    BY <1>1
  <1>3. /\ new.state = "pending" /\ new.attempts = 0 /\ new.owner = Null
    OBVIOUS
  <1> HIDE DEF new
  <1>4. TypeOK'
    <2>1. messages' = [m \in Messages |-> messages'[m]]
      BY <1>1
    <2>2. \A m \in Messages :
            /\ messages'[m].state \in {"absent", "pending", "published", "dead"}
            /\ messages'[m].attempts \in Nat
      BY <1>2, <1>3 DEF IInv, TypeOK
    <2> QED
      BY <1>1, <2>1, <2>2 DEF IInv, TypeOK
  <1>5. Enqueued'
    BY <1>1, <1>2, OutboxAssumption DEF IInv, Enqueued
  <1>6. AbsentInv'
    BY <1>2, <1>3 DEF IInv, AbsentInv
  <1>7. ASSUME NEW m \in Messages PROVE MessageInv(m)'
    <2>1. Publishing(m)' = Publishing(m)
      BY <1>1 DEF Publishing
    <2>2. CASE m \in MessagesOf[e]
      <3>1. messages[m].attempts = 0
        BY <1>1, <2>2 DEF IInv, Enqueued, AbsentInv
      <3>2. messages'[m].attempts = 0 /\ messages'[m].state = "pending"
        BY <1>2, <1>3, <2>2
      <3> QED
        BY <1>1, <2>1, <3>1, <3>2, Known DEF MessageInv
    <2>3. CASE m \notin MessagesOf[e]
      <3>1. messages'[m] = messages[m]
        BY <1>2, <2>3
      <3>2. Overrun(m)' <=> Overrun(m)
        BY <1>1, <3>1 DEF Overrun
      <3> QED
        BY <1>1, <2>1, <3>1, <3>2, Known DEF MessageInv
    <2> QED
      BY <2>2, <2>3
  <1>8. ASSUME NEW p \in Publishers PROVE PublisherInv(p)'
    <2>1. PublisherInv(p) /\ Null # p
      BY OutboxAssumption DEF IInv
    <2> QED
      BY <1>1, <1>2, <1>3, <2>1 DEF PublisherInv
  <1> QED
    BY <1>4, <1>5, <1>6, <1>7, <1>8 DEF IInv

(* claim: a publisher leases a message and counts the attempt.             *)
LEMMA ClaimInv ==
  ASSUME IInv, NEW p \in Publishers, Claim(p)
  PROVE  IInv'
  <1>1. publishers[p].phase = "claiming" /\ UNCHANGED <<audit, accepted, clock>>
    BY DEF Claim
  <1>2. PICK m \in Messages :
          /\ Candidate(p, m)
          /\ IF Overrun(m) THEN faults < MaxFaults /\ faults' = faults + 1 ELSE UNCHANGED faults
          /\ messages' = [messages EXCEPT ![m] =
                            [state |-> "pending", available |-> messages[m].available,
                             owner |-> p, until |-> publishers[p].now + Lease,
                             attempts |-> messages[m].attempts + 1]]
          /\ publishers' = [publishers EXCEPT ![p] =
                              [phase |-> "publishing", message |-> m,
                               until |-> publishers[p].now + Lease,
                               attempts |-> messages[m].attempts + 1,
                               now |-> 0, verdict |-> "none"]]
    BY Zenon DEF Claim
  <1>3. messages[m].state = "pending"
    BY <1>2 DEF Candidate, Claimable
  <1>4. PICK until \in Int : until = publishers[p].now + Lease
    BY OutboxAssumption DEF IInv, TypeOK, Publisher
  <1>5. PICK n \in Nat : n = messages[m].attempts + 1
    BY Known
  <1> DEFINE r == [state |-> "pending", available |-> messages[m].available, owner |-> p,
                   until |-> until, attempts |-> n]
             q == [phase |-> "publishing", message |-> m, until |-> until, attempts |-> n,
                   now |-> 0, verdict |-> "none"]
  <1>6. q \in Publisher
    BY DEF Publisher
  <1>7. /\ r.state = "pending" /\ r.owner = p /\ r.until = until /\ r.attempts = n
        /\ q.phase = "publishing" /\ q.message = m /\ q.until = until /\ q.attempts = n
    OBVIOUS
  <1>8. messages' = [messages EXCEPT ![m] = r] /\ publishers' = [publishers EXCEPT ![p] = q]
    BY <1>2, <1>4, <1>5
  <1> HIDE DEF r, q
  <1>9. /\ \A j \in Messages : messages'[j] = IF j = m THEN r ELSE messages[j]
        /\ \A b \in Publishers : publishers'[b] = IF b = p THEN q ELSE publishers[b]
        /\ messages' = [j \in Messages |-> messages'[j]]
    BY <1>8 DEF IInv, TypeOK
  <1>10. faults' \in Nat /\ faults \in Nat /\ faults <= faults' /\ (Overrun(m) => faults' = faults + 1)
    BY <1>2, Known
  <1>11. TypeOK'
    <2>1. publishers' \in [Publishers -> Publisher]
      BY <1>6, <1>8 DEF IInv, TypeOK
    <2>2. \A j \in Messages :
            /\ messages'[j].state \in {"absent", "pending", "published", "dead"}
            /\ messages'[j].attempts \in Nat
      BY <1>7, <1>9 DEF IInv, TypeOK
    <2> QED
      BY <1>1, <1>9, <1>10, <2>1, <2>2 DEF IInv, TypeOK
  <1>12. Enqueued' /\ AbsentInv'
    BY <1>1, <1>3, <1>7, <1>9, OutboxAssumption DEF IInv, Enqueued, AbsentInv
  <1>13. MessageInv(m)'
    <2>1. Publishing(m)' = Publishing(m) \union {p} /\ p \notin Publishing(m)
      BY <1>1, <1>7, <1>9 DEF Publishing
    <2>2. Numbering(Publishing(m) \union {p}, accepted[m], messages[m].attempts + 1) # {}
      BY <2>1, Known, NumberingGrows DEF MessageInv
    <2>3. Overrun(m)'
      BY <1>7, <1>9 DEF Overrun
    <2>4. n <= MaxAttempts + faults'
      BY <1>3, <1>5, <1>10, Known DEF MessageInv
    <2>5. accepted[m] <= n
      BY <1>5, Known DEF MessageInv
    <2>6. messages'[m].attempts = n /\ messages'[m].state = "pending"
      BY <1>7, <1>9
    <2> QED
      BY <1>1, <1>5, <2>1, <2>2, <2>3, <2>4, <2>5, <2>6, Zenon DEF MessageInv
  <1>14. ASSUME NEW j \in Messages, j # m PROVE MessageInv(j)'
    <2>1. messages'[j] = messages[j] /\ accepted'[j] = accepted[j]
      BY <1>1, <1>9, <1>14
    <2>2. Publishing(j)' \subseteq Publishing(j)
      BY <1>7, <1>9, <1>14 DEF Publishing
    <2>3. Overrun(j) => Overrun(j)'
      BY <1>1, <1>9, <2>1 DEF Overrun
    <2> QED
      BY <1>10, <2>1, <2>2, <2>3, Untouched
  <1>15. ASSUME NEW b \in Publishers PROVE PublisherInv(b)'
    <2>1. CASE b = p
      BY <1>7, <1>9, <2>1 DEF PublisherInv
    <2>2. CASE b # p
      <3>1. publishers'[b] = publishers[b] /\ PublisherInv(b)
        BY <1>9, <2>2 DEF IInv
      <3> QED
        BY <1>1, <1>7, <1>9, <2>2, <3>1 DEF PublisherInv
    <2> QED
      BY <2>1, <2>2
  <1> QED
    BY <1>11, <1>12, <1>13, <1>14, <1>15 DEF IInv

(* The sink answers.                                                       *)
LEMMA PublishInv ==
  ASSUME IInv, NEW p \in Publishers, NEW verdict \in Classes \union {"published"},
         Publish(p, verdict)
  PROVE  IInv'
  <1>1. /\ publishers[p] \in Publisher /\ publishers[p].phase = "publishing"
        /\ UNCHANGED <<audit, messages, clock, faults>>
    BY DEF IInv, TypeOK, Publish
  <1>2. PICK m \in Messages : m = publishers[p].message
    BY <1>1 DEF IInv, PublisherInv
  <1> DEFINE q == [publishers[p] EXCEPT !.phase = "settling", !.verdict = verdict]
  <1>3. /\ q \in Publisher /\ q.phase = "settling" /\ q.verdict = verdict
        /\ q.message = m /\ q.until = publishers[p].until /\ q.attempts = publishers[p].attempts
    BY <1>1, <1>2, Zenon DEF Publisher
  <1>4. publishers' = [publishers EXCEPT ![p] = q]
    BY DEF Publish
  <1>5. /\ accepted' = accepted /\ verdict # "published"
        \/ accepted' = [accepted EXCEPT ![m] = accepted[m] + 1]
    BY <1>2 DEF Publish
  <1> HIDE DEF q
  <1>6. \A b \in Publishers : publishers'[b] = IF b = p THEN q ELSE publishers[b]
    BY <1>4 DEF IInv, TypeOK
  <1>7. /\ accepted' \in [Messages -> Nat]
        /\ \A j \in Messages : j # m => accepted'[j] = accepted[j]
        /\ accepted'[m] = accepted[m] + 1 \/ (accepted'[m] = accepted[m] /\ verdict # "published")
    BY <1>5 DEF IInv, TypeOK
  <1>8. TypeOK'
    BY <1>1, <1>3, <1>4, <1>7 DEF IInv, TypeOK
  <1>9. Enqueued' /\ AbsentInv'
    BY <1>1 DEF IInv, Enqueued, AbsentInv
  <1>10. ASSUME NEW j \in Messages PROVE Overrun(j)' <=> Overrun(j)
    <2>1. \A b \in Publishers :
            /\ publishers'[b].phase \in {"publishing", "settling"} <=>
                 publishers[b].phase \in {"publishing", "settling"}
            /\ publishers'[b].message = publishers[b].message
            /\ publishers'[b].attempts = publishers[b].attempts
      BY <1>1, <1>2, <1>3, <1>6
    <2> QED
      BY <1>1, <2>1 DEF Overrun
  <1>11. ASSUME NEW j \in Messages, j # m PROVE MessageInv(j)'
    <2>1. Publishing(j)' \subseteq Publishing(j)
      BY <1>3, <1>6, <1>11 DEF Publishing
    <2>2. faults' \in Nat /\ faults <= faults'
      BY <1>1, Known
    <2> QED
      BY <1>1, <1>7, <1>10, <1>11, <2>1, <2>2, Untouched
  <1>12. MessageInv(m)'
    <2>1. p \in Publishing(m) /\ Publishing(m)' = Publishing(m) \ {p}
      BY <1>1, <1>2, <1>3, <1>6 DEF Publishing
    <2>2. CASE accepted'[m] = accepted[m]
      <3>1. faults' \in Nat /\ faults <= faults'
        BY <1>1, Known
      <3> QED
        BY <1>1, <1>10, <2>1, <2>2, <3>1, Untouched
    <2>3. CASE accepted'[m] = accepted[m] + 1
      <3>1. /\ accepted[m] + 1 <= messages[m].attempts
            /\ Numbering(Publishing(m) \ {p}, accepted[m] + 1, messages[m].attempts) # {}
        BY <2>1, Known, NumberingSpends, Zenon DEF MessageInv
      <3>2. accepted'[m] > 0
        BY <2>3, Known
      <3> QED
        BY <1>1, <1>10, <2>1, <2>3, <3>1, <3>2, Known, Zenon DEF MessageInv
    <2> QED
      BY <1>7, <2>2, <2>3
  <1>13. \A j \in Messages : accepted[j] > 0 => accepted'[j] > 0
    BY <1>7, Known
  <1>14. ASSUME NEW b \in Publishers PROVE PublisherInv(b)'
    <2>1. PublisherInv(b) /\ PublisherInv(p)
      BY DEF IInv
    <2>2. CASE b = p
      <3>1. verdict = "published" => accepted'[m] > 0
        BY <1>7, Known
      <3> QED
        BY <1>1, <1>2, <1>3, <1>6, <2>1, <2>2, <3>1, Zenon DEF PublisherInv
    <2>3. CASE b # p
      BY <1>1, <1>6, <1>13, <2>1, <2>3, Zenon DEF PublisherInv
    <2> QED
      BY <2>2, <2>3
  <1> QED
    BY <1>8, <1>9, <1>11, <1>12, <1>14 DEF IInv

(* markPublished, markDeadLetter or releaseForRetry of the claim q gives   *)
(* its message a row that is not available to it any more.                 *)
LEMMA SettledRow ==
  ASSUME IInv, NEW p \in Publishers, Settle(p), StillOwned(p),
         NEW m \in Messages, m = publishers[p].message
  PROVE  /\ messages[m].state = "pending"
         /\ messages' = [j \in Messages |-> messages'[j]]
         /\ \A j \in Messages : j # m => messages'[j] = messages[j]
         /\ messages'[m].state \in {"pending", "published", "dead"}
         /\ messages'[m].owner = Null
         /\ messages'[m].attempts = messages[m].attempts
         /\ messages'[m].state = "pending" => messages[m].attempts < MaxAttempts
         /\ messages'[m].state = "published" => publishers[p].verdict = "published"
  <1> DEFINE q == publishers[p]
             r == messages[m]
  <1>1. r.state = "pending" /\ r.attempts = q.attempts
    BY DEF StillOwned
  <1>2. messages = [j \in Messages |-> messages[j]]
    BY DEF IInv, TypeOK
  <1>3. CASE Succeeded(q) /\ messages' = [messages EXCEPT ![m] = Final(r, "published")]
    BY <1>1, <1>2, <1>3, Zenon DEF Succeeded, Final
  <1>4. CASE ~Succeeded(q) /\ messages' = [messages EXCEPT ![m] = Final(r, "dead")]
    BY <1>1, <1>2, <1>4, Zenon DEF Final
  <1>5. CASE ~Dead(q) /\ \E d \in Delays(q.attempts) :
               messages' = [messages EXCEPT ![m] = Released(r, clock + Skew[p] + d)]
    <2>1. PICK available : messages' = [messages EXCEPT ![m] = Released(r, available)]
      BY <1>5, Zenon
    <2>2. r.attempts < MaxAttempts
      BY <1>1, <1>5, Known DEF Dead
    <2> QED
      BY <1>1, <1>2, <2>1, <2>2, Zenon DEF Released
  <1> QED
    BY <1>3, <1>4, <1>5, Zenon DEF Settle

(* A publisher settles its message, or finds that its lease was taken.     *)
LEMMA SettleInv ==
  ASSUME IInv, NEW p \in Publishers, Settle(p)
  PROVE  IInv'
  <1>1. /\ publishers[p].phase = "settling"
        /\ publishers' = [publishers EXCEPT ![p] = Idle]
        /\ UNCHANGED <<audit, accepted, clock, faults>>
        /\ ~StillOwned(p) => UNCHANGED messages
    BY DEF Settle
  <1>2. PublisherInv(p)
    BY DEF IInv
  <1>3. PICK m \in Messages : m = publishers[p].message
    BY <1>1, <1>2 DEF PublisherInv
  <1>4. Idle \in Publisher /\ Idle.phase = "idle"
    BY DEF Idle, Publisher
  <1>5. \A b \in Publishers : publishers'[b] = IF b = p THEN Idle ELSE publishers[b]
    BY <1>1 DEF IInv, TypeOK
  <1>6. publishers' \in [Publishers -> Publisher]
    BY <1>1, <1>4 DEF IInv, TypeOK
  <1>7. \A j \in Messages : Publishing(j)' \subseteq Publishing(j)
    BY <1>4, <1>5 DEF Publishing
  <1>8. faults' \in Nat /\ faults <= faults'
    BY <1>1 DEF IInv, TypeOK
  <1>9. ASSUME NEW j \in Messages, j # m, messages'[j] = messages[j] PROVE MessageInv(j)'
    <2>1. Overrun(j) => Overrun(j)'
      BY <1>1, <1>3, <1>5, <1>9 DEF Overrun
    <2> QED
      BY <1>1, <1>7, <1>8, <1>9, <2>1, Untouched
  <1>10. CASE ~StillOwned(p)
    <2>1. UNCHANGED messages
      BY <1>1, <1>10
    <2>2. messages[m].state = "pending" /\ Overrun(m) => Overrun(m)'
      <3> SUFFICES ASSUME messages[m].state = "pending", Overrun(m) PROVE Overrun(m)'
        OBVIOUS
      <3>1. PICK b \in Publishers :
              /\ publishers[b].phase \in {"publishing", "settling"}
              /\ publishers[b].message = m
              /\ messages[m].owner = b
              /\ publishers[b].attempts = messages[m].attempts
        BY DEF Overrun
      <3>2. b # p
        BY <1>1, <1>2, <1>3, <1>10, <3>1, Zenon DEF StillOwned, PublisherInv
      <3> QED
        BY <1>5, <2>1, <3>1, <3>2 DEF Overrun
    <2>3. MessageInv(m)'
      BY <1>1, <1>7, <1>8, <2>1, <2>2, Untouched, Zenon
    <2>4. TypeOK' /\ Enqueued' /\ AbsentInv'
      BY <1>1, <1>6, <2>1 DEF IInv, TypeOK, Enqueued, AbsentInv
    <2>5. ASSUME NEW b \in Publishers PROVE PublisherInv(b)'
      <3>1. CASE b = p
        BY <1>4, <1>5, <3>1 DEF PublisherInv
      <3>2. CASE b # p
        BY <1>1, <1>5, <2>1, <3>2 DEF IInv, PublisherInv
      <3> QED
        BY <3>1, <3>2
    <2> QED
      BY <1>9, <2>1, <2>3, <2>4, <2>5 DEF IInv
  <1>11. CASE StillOwned(p)
    <2>1. /\ messages[m].state = "pending"
          /\ messages' = [j \in Messages |-> messages'[j]]
          /\ \A j \in Messages : j # m => messages'[j] = messages[j]
          /\ messages'[m].state \in {"pending", "published", "dead"}
          /\ messages'[m].owner = Null
          /\ messages'[m].attempts = messages[m].attempts
          /\ messages'[m].state = "pending" => messages[m].attempts < MaxAttempts
          /\ messages'[m].state = "published" => publishers[p].verdict = "published"
      BY <1>3, <1>11, SettledRow
    <2>2. TypeOK'
      <3>1. \A j \in Messages :
              /\ messages'[j].state \in {"absent", "pending", "published", "dead"}
              /\ messages'[j].attempts \in Nat
        BY <2>1 DEF IInv, TypeOK
      <3> QED
        BY <1>1, <1>6, <2>1, <3>1 DEF IInv, TypeOK
    <2>3. Enqueued' /\ AbsentInv'
      BY <1>1, <2>1, OutboxAssumption DEF IInv, Enqueued, AbsentInv
    <2>4. MessageInv(m)'
      <3>1. Numbering(Publishing(m)', accepted[m], messages[m].attempts) # {}
        BY <1>7, Known, NumberingShrinks, Zenon DEF MessageInv
      <3>2. messages'[m].state = "published" => accepted[m] > 0
        BY <1>1, <1>2, <1>3, <2>1, Zenon DEF PublisherInv
      <3>3. messages'[m].state = "pending" => messages[m].attempts < MaxAttempts + faults
        BY <2>1, Known
      <3> QED
        BY <1>1, <2>1, <3>1, <3>2, <3>3, Known DEF MessageInv
    <2>5. ASSUME NEW b \in Publishers PROVE PublisherInv(b)'
      <3>1. CASE b = p
        BY <1>4, <1>5, <3>1 DEF PublisherInv
      <3>2. CASE b # p
        <4>1. publishers'[b] = publishers[b] /\ PublisherInv(b) /\ b # Null
          BY <1>5, <3>2, OutboxAssumption, Zenon DEF IInv
        <4> QED
          BY <1>1, <2>1, <4>1 DEF PublisherInv
      <3> QED
        BY <3>1, <3>2
    <2> QED
      BY <1>9, <2>1, <2>2, <2>3, <2>4, <2>5 DEF IInv
  <1> QED
    BY <1>10, <1>11

(* Every step keeps the invariant.                                         *)
LEMMA NextInv == IInv /\ [Next]_vars => IInv'
  <1> SUFFICES ASSUME IInv, [Next]_vars PROVE IInv'
    OBVIOUS
  <1>1. ASSUME UNCHANGED <<audit, messages, publishers, accepted, faults>>, clock' \in Nat
        PROVE  IInv'
    <2>1. TypeOK' /\ Enqueued' /\ AbsentInv'
      BY <1>1 DEF IInv, TypeOK, Enqueued, AbsentInv
    <2>2. \A m \in Messages : MessageInv(m)'
      BY <1>1, Zenon DEF IInv, MessageInv, Overrun, Publishing
    <2>3. \A p \in Publishers : PublisherInv(p)'
      BY <1>1, Zenon DEF IInv, PublisherInv
    <2> QED
      BY <2>1, <2>2, <2>3 DEF IInv
  <1>2. CASE Tick
    BY <1>1, <1>2 DEF Tick, IInv, TypeOK
  <1>3. CASE UNCHANGED vars
    BY <1>1, <1>3 DEF vars, IInv, TypeOK
  <1> QED
    BY <1>2, <1>3, ExecuteInv, PollInv, ClaimInv, NoWorkInv, PublishInv, SettleInv, CrashInv
       DEF Next

-----------------------------------------------------------------------------
(* The invariant holds in every state of every behaviour.                  *)
THEOREM Invariance == Spec => []IInv
  <1> QED
    BY InitInv, NextInv, PTL DEF Spec

(* A message recorded as published was accepted by the sink; it is         *)
(* accepted once per claim at most, and claimed at most MaxAttempts times  *)
(* plus once for every crash, failed update or overrun lease (claim,       *)
(* releaseForRetry, markPublished, markDeadLetter).                        *)
THEOREM PublishedMeansAccepted == Spec => []PublishedWasAccepted
  <1>1. IInv => PublishedWasAccepted
    BY DEF IInv, MessageInv, PublishedWasAccepted
  <1> QED
    BY <1>1, Invariance, PTL

(* The outcome of a message is final: an owned update needs the exact      *)
(* claim and a pending row, a claim a pending row, and the messages of an  *)
(* event are inserted once.                                                *)
THEOREM OutcomesAreFinal == Spec => OutcomeIsFinal
  <1> DEFINE Kept == \A m \in Messages :
                       messages[m].state \in {"published", "dead"} => messages'[m] = messages[m]
  <1>1. IInv /\ [Next]_vars => [Kept]_vars
    <2> SUFFICES ASSUME IInv, Next, NEW m \in Messages,
                        messages[m].state \in {"published", "dead"}
                 PROVE  messages'[m] = messages[m]
      BY Zenon DEF IInv
    <2>1. messages = [j \in Messages |-> messages[j]]
      BY DEF IInv, TypeOK
    <2>2. ASSUME NEW e \in Events, Execute(e) PROVE messages'[m] = messages[m]
      BY <2>2 DEF Execute, IInv, Enqueued
    <2>3. ASSUME NEW p \in Publishers, Claim(p) PROVE messages'[m] = messages[m]
      BY <2>1, <2>3, Zenon DEF Claim, Candidate, Claimable
    <2>4. ASSUME NEW p \in Publishers, Settle(p) PROVE messages'[m] = messages[m]
      <3>1. CASE ~StillOwned(p)
        BY <2>4, <3>1, Zenon DEF Settle
      <3>2. CASE StillOwned(p)
        <4>1. PICK j \in Messages : j = publishers[p].message
          BY <2>4, Zenon DEF IInv, PublisherInv, Settle
        <4> QED
          BY <2>4, <3>2, <4>1, SettledRow
      <3> QED
        BY <3>1, <3>2
    <2> QED
      BY <2>2, <2>3, <2>4, Zenon DEF Next, Poll, NoWork, Publish, Crash, Tick
  <1> QED
    BY <1>1, Invariance, PTL DEF Spec, OutcomeIsFinal

-----------------------------------------------------------------------------
(* A set of natural numbers has a least member.                            *)
LEMMA LeastNumber ==
  ASSUME NEW T \in SUBSET Nat, T # {}
  PROVE  \E x \in T : \A y \in T : x <= y
  <1> DEFINE less == {ss \in Nat \X Nat : ss[1] < ss[2]}
  <1>1. IsWellFoundedOn(less, Nat)
    BY NatLessThanWellFounded, Zenon DEF OpToRel
  <1>2. PICK x \in T : \A y \in T : ~(<<y, x>> \in less)
    BY <1>1, WFMin
  <1>3. ASSUME NEW y \in T, y < x PROVE FALSE
    <2>1. <<y, x>> \in Nat \X Nat /\ <<y, x>>[1] = y /\ <<y, x>>[2] = x
      OBVIOUS
    <2>2. <<y, x>> \in less
      BY <1>3, <2>1, Zenon
    <2> QED
      BY <1>2, <2>2
  <1> QED
    BY <1>3

(* A set with 0 and with every successor holds every number.               *)
LEMMA SetInduction ==
  ASSUME NEW S \in SUBSET Nat, 0 \in S, \A n \in S : n + 1 \in S
  PROVE  S = Nat
  <1> SUFFICES ASSUME S # Nat PROVE FALSE
    OBVIOUS
  <1>1. PICK x \in Nat \ S : \A y \in Nat \ S : x <= y
    BY LeastNumber
  <1>2. x # 0 /\ x - 1 \in Nat
    BY <1>1
  <1>3. x - 1 \in S
    BY <1>1, <1>2
  <1> QED
    BY <1>3

(* d holds the delays of the first n + 1 attempts, before the limit is     *)
(* applied (the loop of backoff).                                          *)
Loop(base, max, n, d) ==
  d = [i \in 0..n |-> IF i = 0 THEN base ELSE Double(d[i - 1], max)]

(* There are such delays for every number of attempts.                     *)
LEMMA LoopExists ==
  ASSUME NEW base, NEW max, NEW n \in Nat
  PROVE  \E d : Loop(base, max, n, d)
  <1> DEFINE S == {m \in Nat : \E d : Loop(base, max, m, d)}
  <1>1. 0 \in S
    <2> DEFINE d == [i \in 0..0 |-> base]
    <2>1. Loop(base, max, 0, d)
      BY DEF Loop
    <2> QED
      BY <2>1
  <1>2. ASSUME NEW m \in S PROVE m + 1 \in S
    <2>1. PICK d : Loop(base, max, m, d)
      OBVIOUS
    <2> DEFINE e == [i \in 0..m + 1 |-> IF i = m + 1 THEN Double(d[m], max) ELSE d[i]]
    <2>2. ASSUME NEW i \in 0..m + 1
          PROVE  e[i] = IF i = 0 THEN base ELSE Double(e[i - 1], max)
      <3>1. CASE i = m + 1
        BY <3>1
      <3>2. CASE i # m + 1
        <4>1. i \in 0..m
          BY <3>2
        <4>2. d[i] = IF i = 0 THEN base ELSE Double(d[i - 1], max)
          BY <2>1, <4>1, Zenon DEF Loop
        <4>3. e[i] = d[i] /\ (i # 0 => e[i - 1] = d[i - 1])
          BY <3>2, <4>1
        <4> QED
          BY <4>2, <4>3, Zenon
      <3> QED
        BY <3>1, <3>2
    <2>3. Loop(base, max, m + 1, e)
      <3>1. e = [i \in 0..m + 1 |-> e[i]]
        OBVIOUS
      <3> HIDE DEF e
      <3> QED
        BY <2>2, <3>1, Zenon DEF Loop
    <2> QED
      BY <2>3
  <1>3. S = Nat
    <2> HIDE DEF S
    <2>1. S \in SUBSET Nat
      BY DEF S
    <2> QED
      BY <1>1, <1>2, <2>1, SetInduction
  <1> QED
    BY <1>3

(* The delay of an attempt is the last of them, cut off at the limit.      *)
LEMMA BackoffLoop ==
  ASSUME NEW base, NEW max, NEW n \in Nat
  PROVE  \E d : /\ Loop(base, max, n, d)
                /\ Backoff(base, max, n + 1) = IF d[n] > max THEN max ELSE d[n]
  <1> DEFINE delay == CHOOSE d : d = [i \in Rounds(n + 1) |->
                                        IF i = 0 THEN base ELSE Double(d[i - 1], max)]
  <1>1. Rounds(n + 1) = 0..n
    BY DEF Rounds
  <1>2. Loop(base, max, n, delay)
    <2>1. \E d : d = [i \in Rounds(n + 1) |-> IF i = 0 THEN base ELSE Double(d[i - 1], max)]
      <3>1. PICK d : Loop(base, max, n, d)
        BY LoopExists
      <3>2. d = [i \in Rounds(n + 1) |-> IF i = 0 THEN base ELSE Double(d[i - 1], max)]
        BY <1>1, <3>1, Zenon DEF Loop
      <3> QED
        BY <3>2, Zenon
    <2> QED
      BY <1>1, <2>1, Zenon DEF Loop
  <1>3. (CHOOSE i \in Rounds(n + 1) : \A j \in Rounds(n + 1) : j <= i) = n
    BY <1>1
  <1>4. Backoff(base, max, n + 1) = IF delay[n] > max THEN max ELSE delay[n]
    <2> DEFINE top == CHOOSE i \in Rounds(n + 1) : \A j \in Rounds(n + 1) : j <= i
    <2>1. Backoff(base, max, n + 1) = IF delay[top] > max THEN max ELSE delay[top]
      BY DEF Backoff
    <2>2. top = n
      BY <1>3
    <2> HIDE DEF top, delay
    <2> QED
      BY <2>1, <2>2, Zenon
  <1> QED
    BY <1>2, <1>4, Zenon

(* The loop starts at the base delay, and each turn doubles.               *)
Turns(base, max, n, d) ==
  d[0] = base /\ \A i \in 0..n : i # 0 => d[i] = Double(d[i - 1], max)

(* The delays of the loop take these turns.                                *)
LEMMA LoopTurn ==
  ASSUME NEW base, NEW max, NEW n \in Nat, NEW d, Loop(base, max, n, d)
  PROVE  Turns(base, max, n, d)
  <1>1. \A i \in 0..n : d[i] = IF i = 0 THEN base ELSE Double(d[i - 1], max)
    BY Zenon DEF Loop
  <1>2. 0 \in 0..n
    OBVIOUS
  <1> QED
    BY <1>1, <1>2, Zenon DEF Turns

(* One more turn does not change the delays before it.                     *)
LEMMA LoopsAgree ==
  ASSUME NEW base, NEW max, NEW n \in Nat, NEW d, NEW e,
         Loop(base, max, n, d), Loop(base, max, n + 1, e)
  PROVE  d[n] = e[n]
  <1> DEFINE S == {i \in Nat : i <= n => d[i] = e[i]}
  <1>0. /\ d[0] = base /\ \A i \in 0..n : i # 0 => d[i] = Double(d[i - 1], max)
        /\ e[0] = base /\ \A i \in 0..n + 1 : i # 0 => e[i] = Double(e[i - 1], max)
    <2>1. n + 1 \in Nat
      OBVIOUS
    <2>2. Turns(base, max, n, d) /\ Turns(base, max, n + 1, e)
      BY <2>1, LoopTurn, Zenon
    <2> QED
      BY <2>2, Zenon DEF Turns
  <1>1. 0 \in S
    BY <1>0
  <1>2. ASSUME NEW i \in S PROVE i + 1 \in S
    <2> SUFFICES ASSUME i + 1 <= n PROVE d[i + 1] = e[i + 1]
      OBVIOUS
    <2>1. /\ i \in Nat /\ d[i] = e[i] /\ (i + 1) - 1 = i /\ i + 1 # 0
          /\ i + 1 \in 0..n /\ i + 1 \in 0..n + 1
      OBVIOUS
    <2>2. d[i + 1] = Double(d[(i + 1) - 1], max) /\ e[i + 1] = Double(e[(i + 1) - 1], max)
      BY <1>0, <2>1, Zenon
    <2> QED
      BY <2>1, <2>2, Zenon
  <1>3. S = Nat
    <2> HIDE DEF S
    <2>1. S \in SUBSET Nat
      BY DEF S
    <2> QED
      BY <1>1, <1>2, <2>1, SetInduction
  <1> QED
    BY <1>3

(* The delays stay between the base delay and the limit.                   *)
LEMMA LoopBounds ==
  ASSUME NEW max \in Nat, NEW base \in 1..max, NEW n \in Nat, NEW d, Loop(base, max, n, d)
  PROVE  d[n] \in base..max
  <1> DEFINE S == {i \in Nat : i <= n => d[i] \in base..max}
  <1>0. d[0] = base /\ \A i \in 0..n : i # 0 => d[i] = Double(d[i - 1], max)
    <2>1. Turns(base, max, n, d)
      BY LoopTurn, Zenon
    <2> QED
      BY <2>1, Zenon DEF Turns
  <1>1. 0 \in S
    BY <1>0
  <1>2. ASSUME NEW i \in S PROVE i + 1 \in S
    <2> SUFFICES ASSUME i + 1 <= n PROVE d[i + 1] \in base..max
      OBVIOUS
    <2>1. /\ i \in Nat /\ d[i] \in base..max /\ (i + 1) - 1 = i /\ i + 1 # 0
          /\ i + 1 \in 0..n
      OBVIOUS
    <2>2. d[i + 1] = Double(d[i], max)
      <3>1. d[i + 1] = Double(d[(i + 1) - 1], max)
        BY <1>0, <2>1, Zenon
      <3> QED
        BY <2>1, <3>1, Zenon
    <2> QED
      BY <2>1, <2>2 DEF Double
  <1>3. S = Nat
    <2> HIDE DEF S
    <2>1. S \in SUBSET Nat
      BY DEF S
    <2> QED
      BY <1>1, <1>2, <2>1, SetInduction
  <1> QED
    BY <1>3

(* A turn doubles up to the limit, though it never computes a product      *)
(* beyond it.                                                              *)
LEMMA Doubled ==
  ASSUME NEW max \in Nat, NEW delay \in 1..max
  PROVE  Double(delay, max) = IF 2 * delay > max THEN max ELSE 2 * delay
  BY DEF Double

(* The delay of the first attempt is the base delay, and every later one   *)
(* is twice the one before it, cut off at the limit: it never falls below  *)
(* the base delay or exceeds the limit, for every configuration            *)
(* NewOutboxPublisher accepts and any number of attempts (backoff).        *)
THEOREM BackoffIsExponential ==
  ASSUME NEW max \in Nat, NEW base \in 1..max
  PROVE  /\ Backoff(base, max, 1) = base
         /\ \A n \in Nat \ {0} :
              LET twice == 2 * Backoff(base, max, n)
              IN  /\ Backoff(base, max, n) \in base..max
                  /\ Backoff(base, max, n + 1) = IF twice > max THEN max ELSE twice
  <1>1. ASSUME NEW n \in Nat, NEW d, Loop(base, max, n, d),
               Backoff(base, max, n + 1) = IF d[n] > max THEN max ELSE d[n]
        PROVE  Backoff(base, max, n + 1) = d[n] /\ d[n] \in base..max
    BY <1>1, LoopBounds
  <1>2. Backoff(base, max, 1) = base
    <2>1. PICK d : /\ Loop(base, max, 0, d)
                   /\ Backoff(base, max, 0 + 1) = IF d[0] > max THEN max ELSE d[0]
      BY BackoffLoop
    <2>2. d[0] = base
      <3>1. 0 \in Nat
        OBVIOUS
      <3>2. Turns(base, max, 0, d)
        BY <2>1, <3>1, LoopTurn, Zenon
      <3> QED
        BY <3>2, Zenon DEF Turns
    <2>3. 0 + 1 = 1
      OBVIOUS
    <2> QED
      BY <1>1, <2>1, <2>2, <2>3
  <1>3. ASSUME NEW n \in Nat \ {0}
        PROVE  LET twice == 2 * Backoff(base, max, n)
               IN  /\ Backoff(base, max, n) \in base..max
                   /\ Backoff(base, max, n + 1) = IF twice > max THEN max ELSE twice
    <2>1. PICK m \in Nat : n = m + 1
      <3>1. n - 1 \in Nat /\ n = (n - 1) + 1
        OBVIOUS
      <3> QED
        BY <3>1
    <2>2. PICK d : /\ Loop(base, max, m, d)
                   /\ Backoff(base, max, m + 1) = IF d[m] > max THEN max ELSE d[m]
      BY BackoffLoop
    <2>3. n \in Nat
      OBVIOUS
    <2>4. PICK e : /\ Loop(base, max, n, e)
                   /\ Backoff(base, max, n + 1) = IF e[n] > max THEN max ELSE e[n]
      BY <2>3, BackoffLoop
    <2>5. Backoff(base, max, n) = d[m] /\ d[m] \in base..max
      BY <1>1, <2>1, <2>2, Zenon
    <2>6. Backoff(base, max, n + 1) = e[n]
      BY <1>1, <2>3, <2>4, Zenon
    <2>7. e[n] = Double(e[m], max)
      <3>1. n \in 0..n /\ n # 0 /\ n - 1 = m
        BY <2>1
      <3>2. \A i \in 0..n : i # 0 => e[i] = Double(e[i - 1], max)
        <4>1. Turns(base, max, n, e)
          BY <2>3, <2>4, LoopTurn, Zenon
        <4> QED
          BY <4>1, Zenon DEF Turns
      <3>3. e[n] = Double(e[n - 1], max)
        BY <3>1, <3>2, Zenon
      <3> QED
        BY <3>1, <3>3, Zenon
    <2>8. d[m] = e[m]
      BY <2>1, <2>2, <2>4, LoopsAgree
    <2>9. d[m] \in 1..max
      BY <2>5
    <2>10. Double(d[m], max) = IF 2 * d[m] > max THEN max ELSE 2 * d[m]
      BY <2>9, Doubled, Zenon
    <2> QED
      BY <2>5, <2>6, <2>7, <2>8, <2>10, Zenon
  <1> QED
    BY <1>2, <1>3, Zenon

(* p holds the powers of two up to the n-th.                               *)
Powers(n, p) == p = [i \in 0..n |-> IF i = 0 THEN 1 ELSE 2 * p[i - 1]]

(* There are such powers for every number.                                 *)
LEMMA PowersExist ==
  ASSUME NEW n \in Nat
  PROVE  \E p : Powers(n, p)
  <1> DEFINE S == {m \in Nat : \E p : Powers(m, p)}
  <1>1. 0 \in S
    <2> DEFINE p == [i \in 0..0 |-> 1]
    <2>1. Powers(0, p)
      BY DEF Powers
    <2> QED
      BY <2>1
  <1>2. ASSUME NEW m \in S PROVE m + 1 \in S
    <2>1. PICK p : Powers(m, p)
      OBVIOUS
    <2> DEFINE q == [i \in 0..m + 1 |-> IF i = m + 1 THEN 2 * p[m] ELSE p[i]]
    <2>2. ASSUME NEW i \in 0..m + 1
          PROVE  q[i] = IF i = 0 THEN 1 ELSE 2 * q[i - 1]
      <3>1. CASE i = m + 1
        BY <3>1
      <3>2. CASE i # m + 1
        <4>1. i \in 0..m
          BY <3>2
        <4>2. p[i] = IF i = 0 THEN 1 ELSE 2 * p[i - 1]
          BY <2>1, <4>1, Zenon DEF Powers
        <4>3. q[i] = p[i] /\ (i # 0 => q[i - 1] = p[i - 1])
          BY <3>2, <4>1
        <4> QED
          BY <4>2, <4>3, Zenon
      <3> QED
        BY <3>1, <3>2
    <2>3. Powers(m + 1, q)
      <3>1. q = [i \in 0..m + 1 |-> q[i]]
        OBVIOUS
      <3> HIDE DEF q
      <3> QED
        BY <2>2, <3>1, Zenon DEF Powers
    <2> QED
      BY <2>3
  <1>3. S = Nat
    <2> HIDE DEF S
    <2>1. S \in SUBSET Nat
      BY DEF S
    <2> QED
      BY <1>1, <1>2, <2>1, SetInduction
  <1> QED
    BY <1>3

LEMMA PowerIsLast ==
  ASSUME NEW n \in Nat
  PROVE  \E p : Powers(n, p) /\ PowerOfTwo(n) = p[n]
  <1> DEFINE power == CHOOSE p : p = [i \in 0..n |-> IF i = 0 THEN 1 ELSE 2 * p[i - 1]]
  <1>1. Powers(n, power)
    BY PowersExist, Zenon DEF Powers
  <1>2. PowerOfTwo(n) = power[n]
    BY DEF PowerOfTwo
  <1> QED
    BY <1>1, <1>2, Zenon

(* What a delay is after the limit is applied.                             *)
Cut(exact, max) == IF exact > max THEN max ELSE exact

(* A turn of the loop and a doubling agree up to the limit.                *)
LEMMA TurnCut ==
  ASSUME NEW max \in Nat, NEW base \in 1..max, NEW power \in Nat \ {0}
  PROVE  Double(Cut(base * power, max), max) = Cut(base * (2 * power), max)
  <1>1. PICK exact \in Nat \ {0} : exact = base * power
    <2>1. base * power \in Nat /\ base * power # 0
      OBVIOUS
    <2> QED
      BY <2>1
  <1>2. base * (2 * power) = 2 * exact
    BY <1>1
  <1>3. Cut(exact, max) \in 1..max
    BY DEF Cut
  <1>4. Double(Cut(exact, max), max)
          = IF 2 * Cut(exact, max) > max THEN max ELSE 2 * Cut(exact, max)
    BY <1>3, Doubled
  <1>5. Double(Cut(exact, max), max) = Cut(2 * exact, max)
    BY <1>4 DEF Cut
  <1> QED
    BY <1>1, <1>2, <1>5

(* The loop of backoff computes base * 2^n cut off at the limit, although  *)
(* it compares with half the limit before it doubles and so never computes *)
(* a product beyond the limit.                                             *)
THEOREM BackoffClosedForm ==
  ASSUME NEW max \in Nat, NEW base \in 1..max, NEW n \in Nat
  PROVE  Backoff(base, max, n + 1) = Cut(base * PowerOfTwo(n), max)
  <1>1. PICK d : /\ Loop(base, max, n, d)
                 /\ Backoff(base, max, n + 1) = IF d[n] > max THEN max ELSE d[n]
    BY BackoffLoop
  <1>2. PICK p : Powers(n, p) /\ PowerOfTwo(n) = p[n]
    BY PowerIsLast
  <1>3. d[0] = base /\ \A i \in 0..n : i # 0 => d[i] = Double(d[i - 1], max)
    <2>1. Turns(base, max, n, d)
      BY <1>1, LoopTurn, Zenon
    <2> QED
      BY <2>1, Zenon DEF Turns
  <1>4. p[0] = 1 /\ \A i \in 0..n : i # 0 => p[i] = 2 * p[i - 1]
    <2>1. \A i \in 0..n : p[i] = IF i = 0 THEN 1 ELSE 2 * p[i - 1]
      BY <1>2, Zenon DEF Powers
    <2> QED
      BY <2>1
  <1> DEFINE S == {i \in Nat : i <= n => p[i] \in Nat \ {0} /\ d[i] = Cut(base * p[i], max)}
  <1>5. 0 \in S
    BY <1>3, <1>4 DEF Cut
  <1>6. ASSUME NEW i \in S PROVE i + 1 \in S
    <2> SUFFICES ASSUME i + 1 <= n
                 PROVE  p[i + 1] \in Nat \ {0} /\ d[i + 1] = Cut(base * p[i + 1], max)
      OBVIOUS
    <2>1. p[i] \in Nat \ {0} /\ d[i] = Cut(base * p[i], max)
      OBVIOUS
    <2>2. d[i + 1] = Double(d[i], max) /\ p[i + 1] = 2 * p[i]
      <3>1. i + 1 \in 0..n /\ i + 1 # 0 /\ (i + 1) - 1 = i
        OBVIOUS
      <3> QED
        BY <1>3, <1>4, <3>1
    <2>3. d[i + 1] = Cut(base * (2 * p[i]), max)
      BY <2>1, <2>2, TurnCut
    <2> QED
      BY <2>1, <2>2, <2>3
  <1>7. S = Nat
    <2> HIDE DEF S
    <2>1. S \in SUBSET Nat
      BY DEF S
    <2> QED
      BY <1>5, <1>6, <2>1, SetInduction
  <1>8. p[n] \in Nat \ {0} /\ d[n] = Cut(base * p[n], max)
    BY <1>7
  <1>9. d[n] \in base..max
    BY <1>1, LoopBounds
  <1> QED
    BY <1>1, <1>2, <1>8, <1>9

(* The delay before each attempt that a message still has is               *)
(* base * 2^(n - 1), cut off at the limit (backoff, releaseForRetry).      *)
THEOREM BackoffAlwaysDoubles == Spec => []BackoffDoubles
  <1>1. IInv => BackoffDoubles
    <2> SUFFICES ASSUME IInv, NEW m \in Messages, NEW base \in 1..MaxDelay, NEW max \in 1..MaxDelay,
                        base <= max, NEW n \in messages[m].attempts + 1..MaxDelay
                 PROVE  Backoff(base, max, n) = Cut(base * PowerOfTwo(n - 1), max)
      BY DEF BackoffDoubles, Cut
    <2>1. MaxDelay \in Nat /\ messages[m].attempts \in Nat
      BY OutboxAssumption DEF IInv, TypeOK
    <2>2. n - 1 \in Nat /\ (n - 1) + 1 = n /\ max \in Nat /\ base \in 1..max
      BY <2>1
    <2> QED
      BY <2>2, BackoffClosedForm
  <1> QED
    BY <1>1, Invariance, PTL
=============================================================================
