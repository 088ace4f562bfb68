-------------------------- MODULE Invocation_proofs --------------------------
(* Proofs about the durable life of an invocation: its fenced attempts,    *)
(* for any number of workers and attempts, any leases and clock skews      *)
(* (AttemptClaiming), and its transitions, for any number of holders of a  *)
(* snapshot and any last version (InvocationState).  The two models share  *)
(* no state.                                                               *)
EXTENDS AttemptClaiming, InvocationState, TLAPS

(* The fence of an attempt is its number, and an unfinished attempt still  *)
(* has the lease it was claimed with.                                      *)
AttemptInv(i) ==
  /\ attempts[i].fence = i
  /\ attempts[i].outcome = Null => attempts[i].expires = spans[i].until

(* A worker's claim names an attempt that exists, under its fence.         *)
WorkerInv(w) ==
  workers[w].no # 0 =>
    workers[w].no <= Len(attempts) /\ workers[w].fence = workers[w].no

(* The inductive invariant of the claiming protocol.                       *)
IInv ==
  /\ TypeOK
  /\ \A i \in 1..Len(attempts) : AttemptInv(i)
  /\ \A w \in Workers : WorkerInv(w)
  /\ \A v, w \in Workers : workers[v].no # 0 /\ workers[v].no = workers[w].no => v = w
  /\ LeasesRespected

(* The first state satisfies the invariant.                                *)
LEMMA InitInv == Init => IInv
  <1> SUFFICES ASSUME Init PROVE IInv
    OBVIOUS
  <1>1. TypeOK
    BY DEF Init, TypeOK, Worker, Idle
  <1>2. Len(attempts) = 0 /\ \A w \in Workers : workers[w].no = 0
    BY DEF Init, Idle
  <1> QED
    BY <1>1, <1>2 DEF IInv, WorkerInv, LeasesRespected

(* What a step does to the claims of the workers: worker w keeps its claim *)
(* or gives it up, the others keep theirs.                                 *)
ClaimsKept(w) ==
  /\ workers' \in [Workers -> Worker]
  /\ \A v \in Workers : v # w => workers'[v] = workers[v]
  /\ \/ workers'[w].no = 0
     \/ workers'[w].no = workers[w].no /\ workers'[w].fence = workers[w].fence

(* A step that adds no attempt and takes no claim keeps what is known of   *)
(* the claims.                                                             *)
LEMMA WorkersKept ==
  ASSUME IInv, NEW w \in Workers, ClaimsKept(w), Len(attempts') = Len(attempts)
  PROVE  /\ \A v \in Workers : WorkerInv(v)'
         /\ \A u, v \in Workers : workers'[u].no # 0 /\ workers'[u].no = workers'[v].no => u = v
  <1>1. \A v \in Workers :
          workers'[v].no = 0 \/ (/\ workers'[v].no = workers[v].no
                                 /\ workers'[v].fence = workers[v].fence)
    BY DEF ClaimsKept
  <1>2. \A v \in Workers : WorkerInv(v)'
    BY <1>1 DEF IInv, WorkerInv
  <1> QED
    BY <1>1, <1>2 DEF IInv

(* A step that changes no attempt keeps the invariant when it keeps the    *)
(* claims.                                                                 *)
LEMMA AttemptsKept ==
  ASSUME IInv, NEW w \in Workers, ClaimsKept(w),
         UNCHANGED <<eligible, attempts, clock, spans>>
  PROVE  IInv'
  <1>1. TypeOK'
    BY DEF IInv, TypeOK, ClaimsKept
  <1>2. (\A i \in 1..Len(attempts) : AttemptInv(i))' /\ LeasesRespected'
    BY DEF IInv, AttemptInv, LeasesRespected
  <1> QED
    BY <1>1, <1>2, WorkersKept DEF IInv

(* Giving up or keeping a claim, whatever the worker does next.            *)
LEMMA ReleasedClaim ==
  ASSUME IInv, NEW w \in Workers, workers' = [workers EXCEPT ![w] = Idle]
  PROVE  ClaimsKept(w)
  BY DEF IInv, TypeOK, ClaimsKept, Idle, Worker

LEMMA KeptClaim ==
  ASSUME IInv, NEW w \in Workers,
         NEW phase \in {"claim", "check", "finalize", "cleared", "sent"}, NEW now \in Int,
         workers' = [workers EXCEPT ![w] = [phase |-> phase, no |-> workers[w].no,
                                            fence |-> workers[w].fence, now |-> now]]
  PROVE  ClaimsKept(w)
  <1> DEFINE a == [phase |-> phase, no |-> workers[w].no, fence |-> workers[w].fence,
                   now |-> now]
  <1>1. workers \in [Workers -> Worker] /\ workers[w] \in Worker
    BY DEF IInv, TypeOK
  <1>2. a \in Worker /\ a.no = workers[w].no /\ a.fence = workers[w].fence
    BY <1>1 DEF Worker
  <1>3. workers' = [workers EXCEPT ![w] = a]
    OBVIOUS
  <1> HIDE DEF a
  <1> QED
    BY <1>1, <1>2, <1>3 DEF ClaimsKept

(* A worker reads its clock.                                               *)
LEMMA RequestInv ==
  ASSUME IInv, NEW w \in Workers, NEW op \in {"claim", "check", "finalize"}, Request(w, op)
  PROVE  IInv'
  <1>1. clock + Skew[w] \in Int
    <2>1. clock \in Nat /\ Skew[w] \in Int
      BY WorkersAssumption DEF IInv, TypeOK
    <2> QED
      BY <2>1
  <1>2. ClaimsKept(w)
    <2>1. PICK now \in Int : now = clock + Skew[w]
      BY <1>1
    <2> QED
      BY <2>1, KeptClaim DEF Request
  <1> QED
    BY <1>2, AttemptsKept DEF Request

(* IsCurrent and Send keep the worker's claim or drop it.                  *)
LEMMA IsCurrentInv ==
  ASSUME IInv, NEW w \in Workers, IsCurrent(w) \/ Send(w)
  PROVE  IInv'
  <1>1. ClaimsKept(w)
    BY ReleasedClaim, KeptClaim DEF IsCurrent, Send, Enter
  <1> QED
    BY <1>1, AttemptsKept DEF IsCurrent, Send

(* A worker that stops leaves its attempt alone.                           *)
LEMMA CrashInv ==
  ASSUME IInv, NEW w \in Workers, Crash(w)
  PROVE  IInv'
  BY ReleasedClaim, AttemptsKept DEF Crash

(* A claim of an invocation that is not to be executed, or is busy.        *)
LEMMA RefusedInv ==
  ASSUME IInv, NEW w \in Workers, Claim(w), ~eligible \/ Busy(workers[w].now)
  PROVE  IInv'
  <1>1. /\ workers' = [workers EXCEPT ![w] = Idle]
        /\ UNCHANGED <<eligible, attempts, clock, spans>>
    BY DEF Claim
  <1> QED
    BY <1>1, ReleasedClaim, AttemptsKept

(* A successful claim takes the next number and fence, which no worker     *)
(* holds yet, after the lease of an unfinished predecessor.                *)
LEMMA ClaimedInv ==
  ASSUME IInv, NEW w \in Workers, Claim(w), eligible, ~Busy(workers[w].now)
  PROVE  IInv'
  <1> DEFINE q == workers[w]
             n == Len(attempts) + 1
             a == [fence |-> NextFence, owner |-> w, expires |-> q.now + Lease[w],
                   outcome |-> Null]
             s == [from |-> q.now, until |-> q.now + Lease[w]]
  <1>1. /\ attempts' = Append(attempts, a)
        /\ spans' = Append(spans, s)
        /\ \/ workers' = [workers EXCEPT ![w] = [phase |-> "holding", no |-> n,
                                                 fence |-> NextFence, now |-> 0]]
           \/ workers' = [workers EXCEPT ![w] = Idle]
        /\ UNCHANGED <<eligible, clock>>
    BY DEF Claim
  <1>2. /\ q \in Worker /\ q.now \in Int /\ Lease[w] \in Nat /\ q.now + Lease[w] \in Int
        /\ attempts \in Seq(Attempt) /\ Len(attempts) \in Nat /\ n \in Nat
        /\ spans \in Seq(Span) /\ Len(spans) = Len(attempts)
    BY WorkersAssumption DEF IInv, TypeOK, Worker
  <1>3. NextFence = n
    <2>1. CASE attempts = <<>>
      BY <2>1 DEF NextFence
    <2>2. CASE attempts # <<>>
      <3>1. Len(attempts) \in 1..Len(attempts)
        BY <1>2, <2>2
      <3>2. attempts[Len(attempts)].fence = Len(attempts)
        BY <3>1 DEF IInv, AttemptInv
      <3> QED
        BY <2>2, <3>2 DEF NextFence
    <2> QED
      BY <2>1, <2>2
  <1>4. a \in Attempt /\ s \in Span
    BY <1>2, <1>3 DEF Attempt, Span
  <1>5. a.fence = n /\ a.expires = s.until /\ s.from = q.now
    BY <1>3
  <1> HIDE DEF a, s
  <1>6. /\ attempts' \in Seq(Attempt) /\ Len(attempts') = n /\ attempts'[n] = a
        /\ spans' \in Seq(Span) /\ Len(spans') = n /\ spans'[n] = s
        /\ \A i \in 1..Len(attempts) : attempts'[i] = attempts[i] /\ spans'[i] = spans[i]
    BY <1>1, <1>2, <1>4
  <1>7. /\ workers' \in [Workers -> Worker]
        /\ \A v \in Workers : v # w => workers'[v] = workers[v]
        /\ \/ workers'[w].no = n /\ workers'[w].fence = n
           \/ workers'[w].no = 0
    <2> DEFINE h == [phase |-> "holding", no |-> n, fence |-> NextFence, now |-> 0]
    <2>1. workers \in [Workers -> Worker]
      BY DEF IInv, TypeOK
    <2>2. CASE workers' = [workers EXCEPT ![w] = h]
      <3>1. h \in Worker /\ h.no = n /\ h.fence = n
        BY <1>2, <1>3 DEF Worker
      <3> HIDE DEF h
      <3> QED
        BY <2>1, <2>2, <3>1
    <2>3. CASE workers' = [workers EXCEPT ![w] = Idle]
      BY <2>1, <2>3 DEF Worker, Idle
    <2> QED
      BY <1>1, <2>2, <2>3
  <1>8. TypeOK'
    BY <1>1, <1>6, <1>7 DEF IInv, TypeOK
  <1>9. ASSUME NEW i \in 1..Len(attempts') PROVE AttemptInv(i)'
    <2>1. CASE i = n
      BY <1>5, <1>6, <2>1 DEF AttemptInv
    <2>2. CASE i \in 1..Len(attempts)
      BY <1>6, <2>2 DEF IInv, AttemptInv
    <2> QED
      BY <1>2, <1>6, <2>1, <2>2
  <1>10. \A v \in Workers : workers[v].no \in Nat /\ workers[v].no < n
    <2> SUFFICES ASSUME NEW v \in Workers PROVE workers[v].no \in Nat /\ workers[v].no < n
      OBVIOUS
    <2>1. workers[v].no \in Nat
      BY DEF IInv, TypeOK, Worker
    <2>2. workers[v].no = 0 \/ workers[v].no <= Len(attempts)
      BY DEF IInv, WorkerInv
    <2> QED
      BY <1>2, <2>1, <2>2
  <1>11. ASSUME NEW v \in Workers PROVE WorkerInv(v)'
    <2>1. CASE v = w
      BY <1>2, <1>6, <1>7, <2>1 DEF WorkerInv
    <2>2. CASE v # w
      <3>1. workers'[v] = workers[v] /\ WorkerInv(v) /\ workers[v].no < n
        BY <1>7, <1>10, <2>2 DEF IInv
      <3> QED
        BY <1>2, <1>6, <1>10, <3>1 DEF WorkerInv
    <2> QED
      BY <2>1, <2>2
  <1>12. ASSUME NEW u \in Workers, NEW v \in Workers,
                workers'[u].no # 0, workers'[u].no = workers'[v].no
         PROVE  u = v
    <2> HIDE DEF n
    <2>1. CASE u # w /\ v # w
      BY <1>7, <1>12, <2>1 DEF IInv
    <2>2. CASE u = w /\ v # w
      BY <1>7, <1>10, <1>12, <2>2
    <2>3. CASE u # w /\ v = w
      BY <1>7, <1>10, <1>12, <2>3
    <2> QED
      BY <2>1, <2>2, <2>3
  <1>13. LeasesRespected'
    <2> SUFFICES ASSUME NEW i \in 1..Len(attempts') - 1
                 PROVE  attempts'[i].outcome # Null \/ spans'[i].until <= spans'[i + 1].from
      BY DEF LeasesRespected
    <2>1. i \in 1..Len(attempts) /\ attempts'[i] = attempts[i] /\ spans'[i] = spans[i]
      BY <1>2, <1>6
    <2>2. CASE i = Len(attempts)
      <3>1. spans'[i + 1] = s
        BY <1>6, <2>2
      <3>2. attempts # <<>>
        BY <1>2, <2>1
      <3>3. attempts[i].outcome # Null \/ ~(attempts[i].expires > q.now)
        BY <2>2, <3>2 DEF Busy
      <3>4. attempts[i].outcome = Null => attempts[i].expires = spans[i].until
        BY <2>1 DEF IInv, AttemptInv
      <3>5. spans[i].until \in Int
        <4>1. spans \in Seq(Span) /\ i \in 1..Len(spans)
          BY <1>2, <2>1
        <4>2. spans[i] \in Span
          BY <4>1
        <4> QED
          BY <4>2 DEF Span
      <3>6. attempts[i].outcome # Null \/ spans[i].until <= q.now
        <4>1. q.now \in Int
          BY <1>2
        <4> HIDE DEF q
        <4> QED
          BY <3>3, <3>4, <3>5, <4>1
      <3> QED
        BY <1>5, <2>1, <3>1, <3>6
    <2>3. CASE i # Len(attempts)
      <3>1. i \in 1..Len(attempts) - 1 /\ i + 1 \in 1..Len(attempts)
        BY <1>2, <2>1, <2>3
      <3> QED
        BY <1>6, <2>1, <3>1 DEF IInv, LeasesRespected
    <2> QED
      BY <2>2, <2>3
  <1> QED
    BY <1>8, <1>9, <1>11, <1>12, <1>13 DEF IInv

(* A final outcome is recorded for the worker's own attempt, the last one. *)
LEMMA FinalizeInv ==
  ASSUME IInv, NEW w \in Workers, NEW o \in Outcomes, Finalize(w, o)
  PROVE  IInv'
  <1> DEFINE q == workers[w]
             b == Finished(attempts[q.no], o)
  <1>1. ClaimsKept(w)
    BY ReleasedClaim, KeptClaim DEF Finalize, Enter
  <1>2. CASE ~Current(w)
    BY <1>1, <1>2, AttemptsKept DEF Finalize
  <1>3. CASE Current(w)
    <2>1. /\ q.no \in 1..Len(attempts)
          /\ attempts' = [attempts EXCEPT ![q.no] = b]
          /\ UNCHANGED <<eligible, clock, spans>>
      BY <1>3 DEF Finalize, Current
    <2>2. attempts \in Seq(Attempt) /\ attempts[q.no] \in Attempt
      BY <2>1 DEF IInv, TypeOK
    <2>3. b \in Attempt /\ b.fence = attempts[q.no].fence /\ b.outcome # Null
      BY <2>2, WorkersAssumption DEF Finished, Attempt
    <2> HIDE DEF b
    <2>4. /\ attempts' \in Seq(Attempt) /\ Len(attempts') = Len(attempts)
          /\ \A i \in 1..Len(attempts) :
               attempts'[i] = IF i = q.no THEN b ELSE attempts[i]
      BY <2>1, <2>2, <2>3
    <2>5. TypeOK'
      BY <1>1, <2>1, <2>4 DEF IInv, TypeOK, ClaimsKept
    <2>6. (\A i \in 1..Len(attempts) : AttemptInv(i))'
      BY <2>1, <2>3, <2>4 DEF IInv, AttemptInv
    <2>7. LeasesRespected'
      <3> SUFFICES ASSUME NEW i \in 1..Len(attempts) - 1
                   PROVE  attempts'[i].outcome # Null \/ spans'[i].until <= spans'[i + 1].from
        BY <2>4 DEF LeasesRespected
      <3>1. i \in 1..Len(attempts)
        BY <2>2
      <3> QED
        BY <2>1, <2>3, <2>4, <3>1 DEF IInv, LeasesRespected
    <2> QED
      BY <1>1, <2>4, <2>5, <2>6, <2>7, WorkersKept DEF IInv
  <1> QED
    BY <1>2, <1>3

(* Moves of the invocation and the passing of time touch no attempt.       *)
LEMMA OutsideInv ==
  ASSUME IInv, Move \/ Tick \/ UNCHANGED vars
  PROVE  IInv'
  <1>1. UNCHANGED <<attempts, workers, spans>>
    BY DEF Move, Tick, vars
  <1>2. TypeOK'
    <2>1. eligible' \in BOOLEAN
      BY DEF IInv, TypeOK, Move, Tick, vars
    <2>2. clock' \in Nat
      BY DEF IInv, TypeOK, Move, Tick, vars
    <2> QED
      BY <1>1, <2>1, <2>2 DEF IInv, TypeOK
  <1> QED
    BY <1>1, <1>2 DEF IInv, AttemptInv, WorkerInv, LeasesRespected

(* Every step of the claiming protocol keeps the invariant.                *)
LEMMA NextInv == IInv /\ [Next]_vars => IInv'
  <1> SUFFICES ASSUME IInv, [Next]_vars PROVE IInv'
    OBVIOUS
  <1>1. ASSUME NEW w \in Workers, Claim(w) PROVE IInv'
    BY <1>1, RefusedInv, ClaimedInv
  <1> QED
    BY <1>1, RequestInv, IsCurrentInv, FinalizeInv, CrashInv, OutsideInv DEF Next

(* The claiming protocol keeps its inductive invariant.                    *)
THEOREM Invariance == Spec => []IInv
  BY InitInv, NextInv, PTL DEF Spec

(* An attempt is started only when the one before it is finished or its    *)
(* lease has run out on the new claimant's clock (claim, AttemptClaimBusy).*)
THEOREM LeasesAreRespected == Spec => []LeasesRespected
  <1>1. IInv => LeasesRespected
    BY DEF IInv
  <1> QED
    BY <1>1, Invariance, PTL

(* Fences grow, a worker's claim names an attempt under its fence, and no  *)
(* two workers hold the same attempt, after any crashes and lost answers.  *)
THEOREM FencesStayUnique == Spec => []FencesAreUnique
  <1>1. IInv => FencesAreUnique
    <2> SUFFICES ASSUME IInv PROVE FencesAreUnique
      OBVIOUS
    <2>1. \A i \in 1..Len(attempts) : attempts[i].fence = i
      BY DEF IInv, AttemptInv
    <2>2. ASSUME NEW w \in Workers, workers[w].no # 0
          PROVE  /\ workers[w].no <= Len(attempts)
                 /\ attempts[workers[w].no].fence = workers[w].fence
      <3>1. workers[w].no <= Len(attempts) /\ workers[w].fence = workers[w].no
        BY <2>2 DEF IInv, WorkerInv
      <3>2. workers[w].no \in Nat /\ Len(attempts) \in Nat
        BY DEF IInv, TypeOK, Worker
      <3>3. workers[w].no \in 1..Len(attempts)
        BY <2>2, <3>1, <3>2
      <3> QED
        BY <2>1, <3>1, <3>3
    <2> QED
      BY <2>1, <2>2 DEF FencesAreUnique, IInv
  <1> QED
    BY <1>1, Invariance, PTL

(* Stale workers affect zero rows: only the last attempt can change, only  *)
(* while it has no outcome, and no attempt is removed (Finalize, claim).   *)
THEOREM EvidenceIsFrozen == Spec => EvidenceFrozen
  <1> DEFINE A == /\ Len(attempts') >= Len(attempts)
                  /\ \A i \in 1..Len(attempts) :
                       i < Len(attempts) \/ attempts[i].outcome # Null
                         => attempts'[i] = attempts[i]
  <1>1. ASSUME IInv, [Next]_vars PROVE [A]_vars
    <2>0. attempts \in Seq(Attempt) /\ Len(attempts) \in Nat
      BY <1>1 DEF IInv, TypeOK
    <2>1. CASE UNCHANGED attempts
      BY <2>0, <2>1
    <2>2. ASSUME NEW w \in Workers, Claim(w) PROVE A
      <3>1. UNCHANGED attempts \/ \E a : attempts' = Append(attempts, a)
        BY <2>2 DEF Claim
      <3> QED
        BY <2>0, <2>1, <3>1
    <2>3. ASSUME NEW w \in Workers, NEW o \in Outcomes, Finalize(w, o) PROVE A
      <3>1. CASE Current(w)
        <4>1. /\ attempts' = [attempts EXCEPT ![workers[w].no] =
                                Finished(attempts[workers[w].no], o)]
              /\ workers[w].no = Len(attempts)
              /\ attempts[workers[w].no].outcome = Null
          BY <2>3, <3>1 DEF Finalize, Current
        <4> QED
          BY <2>0, <4>1
      <3> QED
        BY <2>1, <2>3, <3>1 DEF Finalize
    <2> QED
      BY <1>1, <2>1, <2>2, <2>3
      DEF Next, Request, IsCurrent, Send, Crash, Move, Tick, vars
  <1>2. IInv /\ [Next]_vars => [A]_vars
    BY <1>1
  <1>3. Spec => [][A]_vars
    BY <1>2, Invariance, PTL DEF Spec
  <1> QED
    BY <1>3 DEF EvidenceFrozen

-----------------------------------------------------------------------------
(* The states in which an invocation has passed its controls.              *)
Running == {"ready", "executing", "retry_wait", "ambiguous", "reconciling",
            "manual_review", "post_tool", "succeeded"}

(* What the table says about an edge: the controls come in their order, an *)
(* awaited approval is needed, and an unknown outcome is left only with a  *)
(* fence or a resolution.                                                  *)
EdgeOK(r) ==
  /\ r.needs \subseteq Evidence
  /\ r.to \in States \ {"received"}
  /\ r.to = "authorized" => r.from = "validated"
  /\ r.to = "pre_tool_passed" => r.from = "authorized"
  /\ r.to = "waiting_for_approval" => r.from = "pre_tool_passed"
  /\ r.to = "ready" =>
       r.from = "pre_tool_passed" \/ (r.from = "waiting_for_approval" /\ "approval" \in r.needs)
  /\ r.to \in Running \ {"ready"} => r.from \in Running
  /\ r.from = "ambiguous" => r.to \in {"reconciling", "manual_review"}
  /\ r.from = "reconciling" => "fence" \in r.needs
  /\ r.from = "manual_review" => "resolution" \in r.needs

(* What a snapshot of a holder says about the invocation.                  *)
SeenInv(h) ==
  /\ seen[h].version \in Int /\ seen[h].version <= snapshot.version
  /\ seen[h].version = snapshot.version => seen[h].state = snapshot.state

(* The controls passed since the last return to "validated".               *)
PassedInv ==
  LET awaited == "waiting_for_approval" \in passed
  IN  /\ snapshot.state \in {"received", "validated"} => passed = {}
      /\ snapshot.state = "authorized" => "authorized" \in passed /\ ~awaited
      /\ snapshot.state = "pre_tool_passed" =>
           {"authorized", "pre_tool_passed"} \subseteq passed /\ ~awaited
      /\ snapshot.state = "waiting_for_approval" =>
           {"authorized", "pre_tool_passed"} \subseteq passed
      /\ ControlledExecution

(* The inductive invariant of the transitions.                             *)
StateInv ==
  /\ snapshot \in [state : States, version : 0..MaxVersion]
  /\ seen = [h \in Holders |-> seen[h]]
  /\ \A h \in Holders : SeenInv(h)
  /\ PassedInv
  /\ NoBlindRetry

-----------------------------------------------------------------------------
(* The edges that Allow puts into the table.                               *)
LEMMA AllowedEdge ==
  ASSUME NEW from, NEW targets, NEW actors, NEW needs,
         NEW r \in Allow(from, targets, actors, needs)
  PROVE  r.from = from /\ r.to \in targets /\ r.needs = needs
  BY DEF Allow

(* The edges up to the end of the controls.                                *)
LEMMA ControlEdges == \A r \in ControlRules : EdgeOK(r)
  <1> SUFFICES ASSUME NEW r \in ControlRules PROVE EdgeOK(r)
    OBVIOUS
  <1>1. \/ r.from = "received" /\ r.to \in {"validated", "failed", "cancelled"} /\ r.needs = {}
        \/ r.from = "validated" /\ r.to \in {"authorized", "denied"} /\ r.needs = {}
        \/ r.from = "validated" /\ r.to \in {"failed", "cancelled"} /\ r.needs = {}
        \/ /\ r.from = "authorized" /\ r.needs = {}
           /\ r.to \in {"pre_tool_passed", "validated", "failed", "blocked"}
        \/ r.from = "authorized" /\ r.to \in {"cancelled"} /\ r.needs = {}
        \/ /\ r.from = "pre_tool_passed" /\ r.needs = {}
           /\ r.to \in {"waiting_for_approval", "ready", "validated", "failed", "blocked"}
        \/ r.from = "pre_tool_passed" /\ r.to \in {"cancelled"} /\ r.needs = {}
    BY AllowedEdge DEF ControlRules
  <1> QED
    BY <1>1 DEF EdgeOK, Running, States, Terminal

(* The edges of an awaited approval.                                       *)
LEMMA ApprovalEdges == \A r \in ApprovalRules : EdgeOK(r)
  <1> SUFFICES ASSUME NEW r \in ApprovalRules PROVE EdgeOK(r)
    OBVIOUS
  <1>1. \/ r.from = "waiting_for_approval" /\ r.to \in {"ready"} /\ r.needs = {"approval"}
        \/ /\ r.from = "waiting_for_approval" /\ r.needs = {}
           /\ r.to \in {"validated", "failed", "blocked"}
        \/ r.from = "waiting_for_approval" /\ r.to \in {"cancelled"} /\ r.needs = {}
    BY AllowedEdge DEF ApprovalRules
  <1> QED
    BY <1>1 DEF EdgeOK, Running, States, Terminal, Evidence

(* The edges of the execution.                                             *)
LEMMA ExecutionEdges == \A r \in ExecutionRules : EdgeOK(r)
  <1> SUFFICES ASSUME NEW r \in ExecutionRules PROVE EdgeOK(r)
    OBVIOUS
  <1>1. \/ r.from = "ready" /\ r.to \in {"executing"} /\ r.needs = {"fence"}
        \/ r.from = "ready" /\ r.to \in {"failed"} /\ r.needs = {}
        \/ r.from = "ready" /\ r.to \in {"cancelled"} /\ r.needs = {}
        \/ /\ r.from = "executing" /\ r.needs = {"fence"}
           /\ r.to \in {"post_tool", "retry_wait", "ambiguous", "failed"}
        \/ r.from = "retry_wait" /\ r.to \in {"executing"} /\ r.needs = {"fence"}
        \/ r.from = "retry_wait" /\ r.to \in {"failed", "cancelled"} /\ r.needs = {}
    BY AllowedEdge DEF ExecutionRules
  <1> QED
    BY <1>1 DEF EdgeOK, Running, States, Terminal, Evidence

(* The edges out of an unknown or a confirmed outcome.                     *)
LEMMA ResolutionEdges == \A r \in ResolutionRules : EdgeOK(r)
  <1> SUFFICES ASSUME NEW r \in ResolutionRules PROVE EdgeOK(r)
    OBVIOUS
  <1>1. \/ r.from = "ambiguous" /\ r.to \in {"reconciling"} /\ r.needs = {"fence"}
        \/ r.from = "ambiguous" /\ r.to \in {"manual_review"} /\ r.needs = {}
        \/ /\ r.from = "reconciling" /\ r.needs = {"fence"}
           /\ r.to \in {"post_tool", "retry_wait", "manual_review", "failed", "cancelled"}
        \/ /\ r.from = "manual_review" /\ r.needs = {"resolution"}
           /\ r.to \in {"post_tool", "retry_wait", "failed", "cancelled"}
        \/ r.from = "post_tool" /\ r.to \in {"succeeded", "failed", "blocked"} /\ r.needs = {}
    BY AllowedEdge DEF ResolutionRules
  <1> QED
    BY <1>1 DEF EdgeOK, Running, States, Terminal, Evidence

(* The whole table.                                                        *)
LEMMA Edges == \A r \in Rules : EdgeOK(r)
  BY ControlEdges, ApprovalEdges, ExecutionEdges, ResolutionEdges DEF Rules

(* An accepted command follows an edge of the table with its evidence, and *)
(* was decided on the current version, which is not the last one.          *)
LEMMA Accepted ==
  ASSUME NEW s, NEW c, Check(s, c) = "accepted"
  PROVE  /\ c.expected = s.version /\ s.version # MaxVersion
         /\ \E r \in Rules : r.from = s.state /\ r.to = c.target /\ r.needs \subseteq c.evidence
  <1> DEFINE edge == {r \in Rules : r.from = s.state /\ r.to = c.target}
             missing == UNION {r.needs \ c.evidence : r \in edge}
  <1>1. c.expected = s.version /\ CheckEdge(s, c) = "accepted"
    BY DEF Check
  <1>2. /\ s.version # MaxVersion /\ edge # {}
        /\ "approval" \notin missing /\ "fence" \notin missing /\ "resolution" \notin missing
    BY <1>1 DEF CheckEdge
  <1>3. PICK r \in Rules : r \in edge
    BY <1>2
  <1>4. r.needs \subseteq Evidence
    BY Edges DEF EdgeOK
  <1>5. r.needs \ c.evidence \subseteq missing
    BY <1>3
  <1>6. r.needs \subseteq c.evidence
    BY <1>2, <1>4, <1>5 DEF Evidence
  <1> QED
    BY <1>1, <1>2, <1>3, <1>6

-----------------------------------------------------------------------------
(* The first state satisfies the invariant.                                *)
LEMMA StateInitInv == StateInit => StateInv
  <1> SUFFICES ASSUME StateInit PROVE StateInv
    OBVIOUS
  <1>1. 0 \in 0..MaxVersion
    BY VersionAssumption
  <1>2. snapshot \in [state : States, version : 0..MaxVersion]
    BY <1>1 DEF StateInit, States
  <1>3. seen = [h \in Holders |-> seen[h]] /\ \A h \in Holders : SeenInv(h)
    BY DEF StateInit, SeenInv
  <1>4. PassedInv /\ NoBlindRetry
    BY DEF StateInit, PassedInv, ControlledExecution, NoBlindRetry
  <1> QED
    BY <1>2, <1>3, <1>4 DEF StateInv

(* A holder loads the invocation.                                          *)
LEMMA ReadInv ==
  ASSUME StateInv, NEW h \in Holders, Read(h)
  PROVE  StateInv'
  <1>1. UNCHANGED <<snapshot, passed, doubt>> /\ seen' = [seen EXCEPT ![h] = snapshot]
    BY DEF Read
  <1>2. snapshot.version \in Int
    BY VersionAssumption DEF StateInv
  <1>3. seen' = [b \in Holders |-> seen'[b]]
    BY <1>1 DEF StateInv
  <1>4. ASSUME NEW b \in Holders PROVE SeenInv(b)'
    BY <1>1, <1>2 DEF StateInv, SeenInv
  <1>5. PassedInv' /\ NoBlindRetry'
    BY <1>1 DEF StateInv, PassedInv, ControlledExecution, NoBlindRetry
  <1> QED
    BY <1>1, <1>3, <1>4, <1>5 DEF StateInv

(* What an accepted command does.                                          *)
LEMMA Step ==
  ASSUME StateInv, NEW h \in Holders, NEW target \in States, NEW actor \in Actors,
         NEW evidence \in Offered, Transition(h, target, actor, evidence)
  PROVE  \/ UNCHANGED <<snapshot, basis, passed, doubt>>
         \/ /\ snapshot.version \in Nat /\ snapshot.version < MaxVersion
            /\ snapshot' = [state |-> target, version |-> snapshot.version + 1]
            /\ seen[h].version = snapshot.version
            /\ basis' = seen[h].state
            /\ passed' = IF target = "validated" THEN {}
                         ELSE passed \union {target} \union (evidence \intersect {"approval"})
            /\ \E r \in Rules : r.from = snapshot.state /\ r.to = target /\ r.needs \subseteq evidence
            /\ doubt' => \/ target = "ambiguous"
                         \/ /\ doubt
                            /\ ~(snapshot.state = "reconciling" /\ "fence" \in evidence
                                 /\ target # "manual_review")
                            /\ ~(snapshot.state = "manual_review" /\ "resolution" \in evidence)
  <1> PICK c : c = [target |-> target, actor |-> actor, expected |-> seen[h].version,
                    evidence |-> evidence]
    OBVIOUS
  <1>1. c.target = target /\ c.expected = seen[h].version /\ c.evidence = evidence
    OBVIOUS
  <1>2. CASE Check(snapshot, c) # "accepted"
    BY <1>2 DEF Transition
  <1>3. CASE Check(snapshot, c) = "accepted"
    <2>1. /\ c.expected = snapshot.version /\ snapshot.version # MaxVersion
          /\ \E r \in Rules : /\ r.from = snapshot.state /\ r.to = c.target
                              /\ r.needs \subseteq c.evidence
      BY <1>3, Accepted
    <2>2. snapshot' = Moved(snapshot, c) /\ basis' = seen[h].state
      BY <1>3 DEF Transition
    <2>3. snapshot' = [state |-> target, version |-> snapshot.version + 1]
      BY <1>1, <2>1, <2>2 DEF Moved
    <2>4. snapshot.version \in Nat /\ snapshot.version < MaxVersion
      BY <2>1, VersionAssumption DEF StateInv
    <2>5. passed' = IF target = "validated" THEN {}
                    ELSE passed \union {target} \union (evidence \intersect {"approval"})
      BY <1>3 DEF Transition
    <2>6. doubt' => \/ target = "ambiguous"
                    \/ /\ doubt
                       /\ ~(snapshot.state = "reconciling" /\ "fence" \in evidence
                            /\ target # "manual_review")
                       /\ ~(snapshot.state = "manual_review" /\ "resolution" \in evidence)
      BY <1>3, Zenon DEF Transition
    <2> QED
      BY <1>1, <2>1, <2>2, <2>3, <2>4, <2>5, <2>6
  <1> QED
    BY <1>2, <1>3

(* A command is accepted or refused.                                       *)
LEMMA TransitionInv ==
  ASSUME StateInv, NEW h \in Holders, NEW target \in States, NEW actor \in Actors,
         NEW evidence \in Offered, Transition(h, target, actor, evidence)
  PROVE  StateInv'
  <1>1. seen' = seen
    BY DEF Transition
  <1>2. CASE UNCHANGED <<snapshot, basis, passed, doubt>>
    BY <1>1, <1>2 DEF StateInv, SeenInv, PassedInv, ControlledExecution, NoBlindRetry
  <1>3. CASE ~UNCHANGED <<snapshot, basis, passed, doubt>>
    <2>1. /\ snapshot.version \in Nat /\ snapshot.version < MaxVersion
          /\ snapshot' = [state |-> target, version |-> snapshot.version + 1]
          /\ passed' = IF target = "validated" THEN {}
                       ELSE passed \union {target} \union (evidence \intersect {"approval"})
          /\ doubt' => \/ target = "ambiguous"
                       \/ /\ doubt
                          /\ ~(snapshot.state = "reconciling" /\ "fence" \in evidence
                               /\ target # "manual_review")
                          /\ ~(snapshot.state = "manual_review" /\ "resolution" \in evidence)
      BY <1>3, Step
    <2>2. PICK r \in Rules : r.from = snapshot.state /\ r.to = target /\ r.needs \subseteq evidence
      BY <1>3, Step
    <2>3. EdgeOK(r)
      BY Edges
    <2>4. snapshot' \in [state : States, version : 0..MaxVersion]
      BY <2>1, VersionAssumption
    <2>5. snapshot'.state = target /\ snapshot'.version = snapshot.version + 1
      BY <2>1
    <2>6. ASSUME NEW b \in Holders PROVE SeenInv(b)'
      BY <1>1, <2>1, <2>5 DEF StateInv, SeenInv
    <2>7. ControlledExecution'
      <3> SUFFICES ASSUME target \in Running
                   PROVE  /\ {"authorized", "pre_tool_passed", "ready"} \subseteq passed'
                          /\ "waiting_for_approval" \in passed' => "approval" \in passed'
        BY <2>5 DEF ControlledExecution, Running
      <3>1. passed' = passed \union {target} \union (evidence \intersect {"approval"})
        BY <2>1 DEF Running
      <3>2. CASE target = "ready"
        BY <2>2, <2>3, <3>1, <3>2 DEF EdgeOK, StateInv, PassedInv
      <3>3. CASE target # "ready"
        <4>1. snapshot.state \in Running
          BY <2>2, <2>3, <3>3 DEF EdgeOK
        <4>2. /\ {"authorized", "pre_tool_passed", "ready"} \subseteq passed
              /\ "waiting_for_approval" \in passed => "approval" \in passed
          BY <4>1 DEF StateInv, PassedInv, ControlledExecution, Running
        <4> QED
          BY <3>1, <4>2 DEF Running
      <3> QED
        BY <3>2, <3>3
    <2>8. PassedInv'
      <3>1. target # "received"
        BY <2>2, <2>3 DEF EdgeOK
      <3>2. target = "authorized" => snapshot.state = "validated"
        BY <2>2, <2>3 DEF EdgeOK
      <3>3. target = "pre_tool_passed" => snapshot.state = "authorized"
        BY <2>2, <2>3 DEF EdgeOK
      <3>4. target = "waiting_for_approval" => snapshot.state = "pre_tool_passed"
        BY <2>2, <2>3 DEF EdgeOK
      <3> QED
        BY <2>1, <2>5, <2>7, <3>1, <3>2, <3>3, <3>4 DEF StateInv, PassedInv
    <2>9. NoBlindRetry'
      BY <2>1, <2>2, <2>3, <2>5 DEF EdgeOK, StateInv, NoBlindRetry
    <2> QED
      BY <1>1, <2>4, <2>6, <2>8, <2>9 DEF StateInv
  <1> QED
    BY <1>2, <1>3

(* Every step keeps the invariant.                                         *)
LEMMA StateNextInv == StateInv /\ [StateNext]_stateVars => StateInv'
  <1> SUFFICES ASSUME StateInv, [StateNext]_stateVars PROVE StateInv'
    OBVIOUS
  <1>1. CASE UNCHANGED stateVars
    BY <1>1 DEF stateVars, StateInv, SeenInv, PassedInv, ControlledExecution, NoBlindRetry
  <1> QED
    BY <1>1, ReadInv, TransitionInv DEF StateNext

-----------------------------------------------------------------------------
(* The invariant holds in every state of every behaviour.                  *)
THEOREM StateInvariance == StateSpec => []StateInv
  <1> QED
    BY StateInitInv, StateNextInv, PTL DEF StateSpec

(* An invocation executes only after the controls for its current          *)
(* arguments, and after an awaited approval (rules).                       *)
THEOREM ExecutionIsControlled == StateSpec => []ControlledExecution
  <1>1. StateInv => ControlledExecution
    BY DEF StateInv, PassedInv
  <1> QED
    BY <1>1, StateInvariance, PTL

(* An unknown outcome is never retried or reported before a reconciler or  *)
(* an operator has settled it (rules).                                     *)
THEOREM UnknownIsNotRetried == StateSpec => []NoBlindRetry
  <1>1. StateInv => NoBlindRetry
    BY DEF StateInv
  <1> QED
    BY <1>1, StateInvariance, PTL

(* A command moves the invocation only from the state its holder decided   *)
(* on, and to a higher version (Transition, ExpectedVersion).              *)
THEOREM CommandsDecideOnCurrent == StateSpec => DecidedOnCurrent
  <1> DEFINE OnCurrent == snapshot' # snapshot =>
                          basis' = snapshot.state /\ snapshot'.version > snapshot.version
  <1>1. StateInv /\ [StateNext]_stateVars => [OnCurrent]_stateVars
    <2> SUFFICES ASSUME StateInv, StateNext, snapshot' # snapshot
                 PROVE  basis' = snapshot.state /\ snapshot'.version > snapshot.version
      OBVIOUS
    <2>1. PICK h \in Holders, target \in States, actor \in Actors, evidence \in Offered :
            Transition(h, target, actor, evidence)
      BY DEF StateNext, Read
    <2>2. /\ snapshot.version \in Nat
          /\ snapshot' = [state |-> target, version |-> snapshot.version + 1]
          /\ seen[h].version = snapshot.version
          /\ basis' = seen[h].state
      BY <2>1, Step
    <2> QED
      BY <2>2 DEF StateInv, SeenInv
  <1> QED
    BY <1>1, StateInvariance, PTL DEF StateSpec, DecidedOnCurrent
=============================================================================
