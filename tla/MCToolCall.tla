------------------------------ MODULE MCToolCall ------------------------------
(* Instances of ToolCall for TLC.                                          *)
EXTENDS ToolCall, TLC

CONSTANTS p1, p2, c1, c2, a1, a2, a3, a4

MCProcessOf == c1 :> p1 @@ c2 :> p2
MCLease == p1 :> 1 @@ p2 :> 1
MCMaxRecoveries == p1 :> 1 @@ p2 :> 1
MCSkew == p1 :> 0 @@ p2 :> 0

MCConstraints(repositories, resources, actions, bytes, duration) ==
  [sets |-> "repositories" :> repositories @@ "resources" :> resources @@ "actions" :> actions,
   arguments |-> <<>>,
   limits |-> "maxResultBytes" :> bytes @@ "maxDuration" :> duration]

(* Create leaves the repositories and the arguments of the ceiling empty.  *)
MCCeiling == MCConstraints({}, {"r1", "r2"}, {"operation"}, 2, 2)

(* The constraints of a4 have nothing in common with the ceiling; the      *)
(* others restrict every set.                                              *)
MCGranted ==
  [a \in Decisions |->
    IF a = a4 THEN MCConstraints({}, {"r3"}, {}, 0, 0)
    ELSE MCConstraints({"r2"}, {"r1", "r3"}, {"operation"}, 3, 1)]

(* Decisions with the same outcome and constraints are interchangeable,    *)
(* and so are the arguments of the request.                                *)
Symmetry == Permutations({a1, a2}) \union Permutations(Digests)
=============================================================================
