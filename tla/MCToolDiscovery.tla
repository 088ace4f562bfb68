--------------------------- MODULE MCToolDiscovery ---------------------------
(* The instance of ToolDiscovery for TLC.                                  *)
EXTENDS ToolDiscovery

MCPlain ==
  [risk |-> "read", sideEffect |-> FALSE, retry |-> "safe", approval |-> "never",
   description |-> DescriptionParts, input |-> "object", output |-> "object",
   profile |-> "jcs-v1",
   projection |-> {[name |-> "repository", required |-> TRUE, sources |-> {"pointer"}]},
   maxFields |-> 0, charge |-> "attempt", scope |-> "attempt", qualified |-> TRUE,
   bound |-> TRUE, limited |-> TRUE, selected |-> TRUE]

(* The other one fails the validation for publication and cannot be shown. *)
MCContent ==
  [d \in Definitions |->
    CASE d = "plain" -> MCPlain
      [] d = "draft" -> [MCPlain EXCEPT !.sideEffect = TRUE, !.input = "boolean"]]
=============================================================================
