----------------------------- MODULE LogicalCall -----------------------------
(***************************************************************************)
(* What an idempotent tool call promises, without leases, clocks, tables   *)
(* or transactions.  A logical call is created once, with one invocation   *)
(* and the digest of its request; its ownership passes on a bounded number *)
(* of times; its current owner finishes it, once.  Whatever a caller is    *)
(* told is true at one instant between its request and its answer.         *)
(* LogicalInvocation implements this specification.                        *)
(***************************************************************************)
EXTENDS Naturals

CONSTANTS
  Callers,
  OwnerOf,      \* the owner on whose behalf a caller asks
  Keys, Digests, Invocations, Envelopes,
  MaxTransfers, \* how often the ownership of a call may pass on
  Null

VARIABLES
  logical,      \* the logical calls
  told          \* the requests of the callers, and what they were told

Unused == [digest |-> Null, invocation |-> Null, owner |-> Null, left |-> 0, envelope |-> Null]

Init ==
  /\ logical = [k \in Keys |-> Unused]
  /\ told = [c \in Callers |-> [key |-> Null, digest |-> Null, kind |-> "none",
                                invocation |-> Null, envelope |-> Null]]

Tell(c, kind, invocation, envelope) ==
  told' = [told EXCEPT ![c] = [key |-> told[c].key, digest |-> told[c].digest, kind |-> kind,
                               invocation |-> invocation, envelope |-> envelope]]

(* The answer to a change may be lost.                                     *)
TellOrLose(c, kind, invocation) ==
  Tell(c, kind, invocation, Null) \/ Tell(c, "error", Null, Null)

Ask(c, k, d) ==
  /\ told' = [told EXCEPT ![c] = [key |-> k, digest |-> d, kind |-> "asked",
                                  invocation |-> Null, envelope |-> Null]]
  /\ UNCHANGED logical

Create(c, id, n) ==
  LET k == told[c].key
  IN  /\ told[c].kind = "asked"
      /\ logical[k] = Unused
      /\ \A other \in Keys : logical[other].invocation # id
      /\ logical' = [logical EXCEPT ![k] =
                       [digest |-> told[c].digest, invocation |-> id, owner |-> OwnerOf[c],
                        left |-> n, envelope |-> Null]]
      /\ TellOrLose(c, "owned", id)

TakeOver(c) ==
  LET k == told[c].key
      l == logical[k]
  IN  /\ told[c].kind = "asked"
      /\ l.owner # Null /\ l.digest = told[c].digest /\ l.left > 0
      /\ logical' = [logical EXCEPT ![k] =
                       [digest |-> l.digest, invocation |-> l.invocation, owner |-> OwnerOf[c],
                        left |-> l.left - 1, envelope |-> Null]]
      /\ TellOrLose(c, "recovered", l.invocation)

(* A caller is told of a conflict exactly if the call was created for      *)
(* another request, and is given the envelope exactly if it is finished.   *)
Refer(c, kind) ==
  LET l == logical[told[c].key]
  IN  /\ told[c].kind = "asked"
      /\ l # Unused
      /\ kind = "conflict" <=> l.digest # told[c].digest
      /\ kind = "replay" <=> l.digest = told[c].digest /\ l.envelope # Null
      /\ kind = "recovery_exhausted" => l.left = 0
      /\ Tell(c, kind, l.invocation, IF kind = "replay" THEN l.envelope ELSE Null)
      /\ UNCHANGED logical

(* Only an owner that is still the owner finishes a call.                  *)
Finish(c, v) ==
  LET k == told[c].key
      l == logical[k]
  IN  /\ told[c].kind \in {"owned", "recovered"}
      /\ l.owner = OwnerOf[c] /\ l.digest = told[c].digest
      /\ logical' = [logical EXCEPT ![k] =
                       [digest |-> l.digest, invocation |-> l.invocation, owner |-> Null,
                        left |-> l.left, envelope |-> v]]
      /\ TellOrLose(c, "completed", told[c].invocation)

(* A caller whose ownership has passed on, or whose call is finished.      *)
Refuse(c) ==
  /\ told[c].kind \in {"owned", "recovered"}
  /\ logical[told[c].key].owner # OwnerOf[c]
  /\ Tell(c, "not_current", told[c].invocation, Null)
  /\ UNCHANGED logical

(* A request or the completion of a call fails, or an owner gives up.      *)
Leave(c) ==
  /\ \/ told[c].kind \in {"asked", "owned", "recovered"} /\ Tell(c, "error", Null, Null)
     \/ /\ told[c].kind \in {"owned", "recovered"}
        /\ Tell(c, "none", told[c].invocation, Null)
  /\ UNCHANGED logical

Next ==
  \/ \E c \in Callers, k \in Keys, d \in Digests : Ask(c, k, d)
  \/ \E c \in Callers, id \in Invocations, n \in 0..MaxTransfers : Create(c, id, n)
  \/ \E c \in Callers : TakeOver(c) \/ Refuse(c) \/ Leave(c)
  \/ \E c \in Callers, kind \in {"conflict", "replay", "pending", "recovery_exhausted"} :
       Refer(c, kind)
  \/ \E c \in Callers, v \in Envelopes : Finish(c, v)

Spec == Init /\ [][Next]_<<logical, told>>
=============================================================================
