----------------------- MODULE AuthorizationConstraints -----------------------
(***************************************************************************)
(* How the constraints of an authorization decision narrow the envelope of *)
(* a tool version (internal/app/authorization_constraints.go).  An empty   *)
(* set and a zero limit stand for no restriction.                          *)
(***************************************************************************)
EXTENDS Naturals

SetFields == {"repositories", "resources", "actions"}
LimitFields == {"maxResultBytes", "maxDuration"}

(* AuthorizationConstraints and ConstraintCeiling, over some members and   *)
(* argument names.                                                         *)
ConstraintsOver(members, names) ==
  [sets : [SetFields -> SUBSET members],
   arguments : UNION {[some -> Nat] : some \in SUBSET names},
   limits : [LimitFields -> Nat]]

NarrowSet(ceiling, restriction) ==
  IF restriction = {} THEN ceiling ELSE ceiling \intersect restriction

(* An intersection that leaves nothing of the ceiling is refused.          *)
SetNarrows(ceiling, restriction) ==
  ceiling # {} => NarrowSet(ceiling, restriction) # {}

(* Variant: a restriction replaces the ceiling.                            *)
NarrowToRestriction(ceiling, restriction) == IF restriction > 0 THEN restriction ELSE ceiling

(* narrowInt64 and narrowDuration.                                         *)
NarrowLimit(ceiling, restriction) ==
  IF restriction > 0 /\ (ceiling = 0 \/ restriction < ceiling) THEN restriction ELSE ceiling

NarrowArguments(ceiling, restriction) ==
  [a \in DOMAIN ceiling |->
    IF a \in DOMAIN restriction /\ restriction[a] < ceiling[a]
      THEN restriction[a] ELSE ceiling[a]]

(* The narrowing succeeds; a limit for an unknown argument is refused.     *)
Enforceable(ceiling, decision) ==
  /\ \A f \in SetFields : SetNarrows(ceiling.sets[f], decision.sets[f])
  /\ DOMAIN decision.arguments \subseteq DOMAIN ceiling.arguments

NarrowAuthorizationConstraints(ceiling, decision) ==
  [sets |-> [f \in SetFields |-> NarrowSet(ceiling.sets[f], decision.sets[f])],
   arguments |-> NarrowArguments(ceiling.arguments, decision.arguments),
   limits |-> [f \in LimitFields |-> NarrowLimit(ceiling.limits[f], decision.limits[f])]]

(* What a set that the ceiling restricts may become: nothing that the      *)
(* ceiling or the decision leaves out, and not the empty set, which would  *)
(* mean no restriction.  Of a set that the ceiling leaves open nothing is  *)
(* said: its narrowing is empty, whatever the decision restricts it to.    *)
SetRestricted(narrowed, ceiling, decision) ==
  ceiling # {} =>
    /\ narrowed # {}
    /\ narrowed \subseteq ceiling
    /\ decision # {} => narrowed \subseteq decision

(* What the contract says of every set that a decision restricts: narrowed *)
(* to nothing it is refused, and so it stays restricted.                   *)
StaysRestricted(narrowed, decision) ==
  \A f \in SetFields : decision.sets[f] # {} => narrowed.sets[f] # {}

(* What a limit may become: none above either bound, and no bound is lost. *)
LimitRestricted(narrowed, ceiling, decision) ==
  /\ ceiling > 0 => narrowed \in 1..ceiling
  /\ decision > 0 => narrowed \in 1..decision

Restricts(narrowed, ceiling, decision) ==
  /\ \A f \in SetFields :
       SetRestricted(narrowed.sets[f], ceiling.sets[f], decision.sets[f])
  /\ \A f \in LimitFields :
       LimitRestricted(narrowed.limits[f], ceiling.limits[f], decision.limits[f])
  /\ \A a \in DOMAIN ceiling.arguments :
       /\ narrowed.arguments[a] <= ceiling.arguments[a]
       /\ a \in DOMAIN decision.arguments => narrowed.arguments[a] <= decision.arguments[a]
=============================================================================
