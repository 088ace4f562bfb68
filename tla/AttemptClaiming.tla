--------------------------- MODULE AttemptClaiming ---------------------------
(***************************************************************************)
(* Fenced attempts of one invocation                                       *)
(* (internal/adapters/postgres/attempt_claiming.go).  A worker claims a    *)
(* numbered attempt under a lease, checks that it is still current,        *)
(* sends downstream and finalises the attempt.  Each operation is given a  *)
(* time the worker read before, and the workers' clocks differ.  Claim     *)
(* locks the invocation row; Finalize is one UPDATE; a Finalize that runs  *)
(* beside a Claim has the effect of one before or after it.  So each is    *)
(* one step.                                                               *)
(***************************************************************************)
EXTENDS Integers, Sequences

CONSTANTS
  Workers,      \* workers; a worker is its owner_id
  Outcomes,     \* the outcome classifications explored
  Lease,        \* LeaseDuration of each worker's claims
  Skew,         \* distance of each worker's clock from the common clock
  MaxAttempts,  \* bound on the attempts explored, not a limit of the code
  Null

ASSUME WorkersAssumption ==
  /\ Lease \in [Workers -> Nat \ {0}]
  /\ Skew \in [Workers -> Int]
  /\ MaxAttempts \in Nat
  /\ Outcomes \subseteq {"not_sent", "definitely_rejected", "confirmed_success",
                          "transient_safe", "unknown"}
  /\ Null \notin Workers \union Outcomes

VARIABLES
  eligible,  \* invocations.state is ready or retry_wait
  attempts,  \* invocation_attempts in attempt_no order
  workers,   \* what each worker is doing and the attempt it claimed
  clock,     \* the common clock
  spans      \* history: the lease each attempt was claimed with

vars == <<eligible, attempts, workers, clock, spans>>

(* An attempt has an owner and a lease until it has an outcome.            *)
Attempt ==
  [fence : Nat \ {0}, owner : Workers, expires : Int, outcome : {Null}]
  \union [fence : Nat \ {0}, owner : {Null}, expires : {0}, outcome : Outcomes]

Worker == [phase : {"idle", "claim", "holding", "check", "cleared", "sent", "finalize"},
           no : Nat, fence : Nat, now : Int]

Span == [from : Int, until : Int]

(* The rows satisfy the CHECKs of migration 00003; workers and history     *)
(* keep their types.                                                       *)
TypeOK ==
  /\ eligible \in BOOLEAN
  /\ attempts \in Seq(Attempt)
  /\ workers \in [Workers -> Worker]
  /\ clock \in Nat
  /\ spans \in Seq(Span)
  /\ Len(spans) = Len(attempts)

Idle == [phase |-> "idle", no |-> 0, fence |-> 0, now |-> 0]

Init ==
  /\ eligible = TRUE
  /\ attempts = <<>>
  /\ workers = [w \in Workers |-> Idle]
  /\ clock = 0
  /\ spans = <<>>

-----------------------------------------------------------------------------
Enter(w, phase) ==
  workers' = [workers EXCEPT ![w] =
                [phase |-> phase, no |-> workers[w].no, fence |-> workers[w].fence,
                 now |-> 0]]

(* The worker reads its clock for the operation it is about to request.    *)
Request(w, op) ==
  LET q == workers[w]
  IN  /\ \/ op = "claim" /\ q.phase = "idle"
         \/ op = "check" /\ q.phase = "holding"
         \/ op = "finalize" /\ q.phase \in {"holding", "cleared", "sent"}
      /\ workers' = [workers EXCEPT ![w] =
                       [phase |-> op, no |-> q.no, fence |-> q.fence,
                        now |-> clock + Skew[w]]]
      /\ UNCHANGED <<eligible, attempts, clock, spans>>

(* Variants: a lease ends a moment early; an expired lease still keeps     *)
(* others away.                                                            *)
BusyOffByOne(now) ==
  /\ attempts # <<>>
  /\ LET a == attempts[Len(attempts)]
     IN  a.outcome = Null /\ a.expires > now + 1

BusyWhileUnfinished(now) ==
  /\ attempts # <<>>
  /\ attempts[Len(attempts)].outcome = Null

(* The latest attempt is unfinished and its lease has not run out.         *)
Busy(now) ==
  /\ attempts # <<>>
  /\ LET a == attempts[Len(attempts)]
     IN  a.outcome = Null /\ a.expires > now

(* Variant: the fence restarts for a worker that follows a finished attempt. *)
NextFenceReset ==
  IF attempts = <<>> \/ attempts[Len(attempts)].outcome # Null
    THEN 1 ELSE attempts[Len(attempts)].fence + 1

NextFence == IF attempts = <<>> THEN 1 ELSE attempts[Len(attempts)].fence + 1

(* Claim: the next number and fence under a new lease, or AttemptIneligible *)
(* or AttemptClaimBusy.  A commit whose acknowledgement is lost leaves the *)
(* attempt without a worker.                                               *)
Claim(w) ==
  LET q == workers[w]
      n == Len(attempts) + 1
  IN  /\ q.phase = "claim"
      /\ n <= MaxAttempts
      /\ IF ~eligible \/ Busy(q.now)
           THEN /\ workers' = [workers EXCEPT ![w] = Idle]
                /\ UNCHANGED <<attempts, spans>>
           ELSE /\ attempts' = Append(attempts, [fence |-> NextFence, owner |-> w,
                                                 expires |-> q.now + Lease[w],
                                                 outcome |-> Null])
                /\ spans' = Append(spans, [from |-> q.now, until |-> q.now + Lease[w]])
                /\ \/ workers' = [workers EXCEPT ![w] =
                                    [phase |-> "holding", no |-> n, fence |-> NextFence,
                                     now |-> 0]]
                   \/ workers' = [workers EXCEPT ![w] = Idle]
      /\ UNCHANGED <<eligible, clock>>

(* Variant: a newer attempt is not looked for.                             *)
CurrentThoughSuperseded(w) ==
  LET q == workers[w]
  IN  /\ q.no \in 1..Len(attempts)
      /\ attempts[q.no].fence = q.fence
      /\ attempts[q.no].owner = w
      /\ attempts[q.no].outcome = Null
      /\ attempts[q.no].expires > q.now

(* The WHERE shared by IsCurrent and Finalize: the exact attempt, fence    *)
(* and owner, unfinished, under lease, and no newer attempt.               *)
Current(w) ==
  LET q == workers[w]
  IN  /\ q.no \in 1..Len(attempts)
      /\ attempts[q.no].fence = q.fence
      /\ attempts[q.no].owner = w
      /\ attempts[q.no].outcome = Null
      /\ attempts[q.no].expires > q.now
      /\ q.no = Len(attempts)

(* IsCurrent: "a worker must check this immediately before an external     *)
(* send".                                                                  *)
IsCurrent(w) ==
  /\ workers[w].phase = "check"
  /\ IF Current(w) THEN Enter(w, "cleared") ELSE workers' = [workers EXCEPT ![w] = Idle]
  /\ UNCHANGED <<eligible, attempts, clock, spans>>

(* The worker's external send.                                             *)
Send(w) ==
  /\ workers[w].phase = "cleared"
  /\ Enter(w, "sent")
  /\ UNCHANGED <<eligible, attempts, clock, spans>>

(* The SET of Finalize.                                                    *)
Finished(a, o) == [fence |-> a.fence, owner |-> Null, expires |-> 0, outcome |-> o]

(* Finalize: records the outcome of the current attempt or reports a       *)
(* conflict.  When the answer is lost the worker may ask again.            *)
Finalize(w, o) ==
  LET q == workers[w]
  IN  /\ q.phase = "finalize"
      /\ IF Current(w)
           THEN attempts' = [attempts EXCEPT ![q.no] = Finished(attempts[q.no], o)]
           ELSE UNCHANGED attempts
      /\ \/ workers' = [workers EXCEPT ![w] = Idle]
         \/ Enter(w, "sent")
      /\ UNCHANGED <<eligible, clock, spans>>

(* A worker stops; its attempt keeps its lease.                            *)
Crash(w) ==
  /\ workers[w].phase # "idle"
  /\ workers' = [workers EXCEPT ![w] = Idle]
  /\ UNCHANGED <<eligible, attempts, clock, spans>>

(* The invocation moves along the transition table, which leads out of     *)
(* ready, through executing, and back to retry_wait; in a terminal state   *)
(* there is no further move.  No operation of the claimer moves it, and    *)
(* none waits for it to move.                                              *)
Move ==
  /\ eligible' = ~eligible
  /\ UNCHANGED <<attempts, workers, clock, spans>>

(* Time passes while some worker still sees a lease; no guard depends on   *)
(* time otherwise.                                                         *)
Tick ==
  /\ \E w \in Workers, i \in 1..Len(attempts) :
       /\ i = Len(attempts)
       /\ attempts[i].outcome = Null
       /\ attempts[i].expires > clock + Skew[w]
  /\ clock' = clock + 1
  /\ UNCHANGED <<eligible, attempts, workers, spans>>

Next ==
  \/ \E w \in Workers, op \in {"claim", "check", "finalize"} : Request(w, op)
  \/ \E w \in Workers : Claim(w)
  \/ \E w \in Workers : IsCurrent(w)
  \/ \E w \in Workers : Send(w)
  \/ \E w \in Workers, o \in Outcomes : Finalize(w, o)
  \/ \E w \in Workers : Crash(w)
  \/ Move
  \/ Tick

Spec == Init /\ [][Next]_vars

-----------------------------------------------------------------------------
(* A superseded or finished attempt is never changed again: the outcome of *)
(* a worker that was overtaken affects no row, and a repeated Finalize     *)
(* does not overwrite the first ("Stale workers affect zero rows").        *)
EvidenceFrozen ==
  [][/\ Len(attempts') >= Len(attempts)
     /\ \A i \in 1..Len(attempts) :
          i < Len(attempts) \/ attempts[i].outcome # Null => attempts'[i] = attempts[i]]_vars

(* An attempt is started only when the one before it is finished or its    *)
(* lease has run out on the new claimant's clock (claim, AttemptClaimBusy).*)
LeasesRespected ==
  \A i \in 1..Len(attempts) - 1 :
    attempts[i].outcome # Null \/ spans[i].until <= spans[i + 1].from

(* A worker holds an attempt that exists under exactly its fence, two      *)
(* workers never hold the same attempt, and a later attempt has a greater  *)
(* fence, also after crashes and lost acknowledgements (claim, the triggers*)
(* of migration 00003).                                                    *)
FencesAreUnique ==
  /\ \A i, j \in 1..Len(attempts) : i < j => attempts[i].fence < attempts[j].fence
  /\ \A w \in Workers : workers[w].no # 0 =>
       /\ workers[w].no <= Len(attempts)
       /\ attempts[workers[w].no].fence = workers[w].fence
  /\ \A v, w \in Workers : workers[v].no # 0 /\ workers[v].no = workers[w].no => v = w

(* What the transaction contract promises of a finalised attempt: the      *)
(* result and the state of the invocation change together, so an           *)
(* invocation with a confirmed success is not claimed again.               *)
NoAttemptAfterSuccess ==
  \A i \in 1..Len(attempts) - 1 : attempts[i].outcome # "confirmed_success"
=============================================================================
