----------------------------- MODULE ToolCatalog -----------------------------
(***************************************************************************)
(* The tool catalog of one tenant: tool versions (draft, published,        *)
(* retired) and their exposure, as the administration handler and the      *)
(* repositories change them (internal/adapters/http/administration.go,     *)
(* internal/adapters/postgres/tool_versions.go and repositories.go,        *)
(* internal/domain/tool_catalog.go).  A handler or repository call that is *)
(* refused changes nothing and is not an action.                           *)
(***************************************************************************)
EXTENDS Naturals, FiniteSets

CONSTANTS
  LastKey,       \* how many (tool ID, version) pairs there are
  Definitions,   \* the definitions that administrators write, by their digest
  Content        \* what they hold

(* (tool ID, version) pairs, by their rank in the order of the two strings. *)
Keys == 1..LastKey

Risks == {"read", "bounded_write", "consequential_write", "privileged"}
Retries == {"safe", "downstream_idempotency", "gateway_deduplicated",
            "reconcile_before_retry", "at_least_once_accepted", "non_retryable"}
Approvals == {"never", "policy", "always"}
ChargePoints == {"attempt", "confirmed_side_effect", "result", "provider_unit", "tool_specific"}
Scopes == {"logical_invocation", "attempt", "provider_unit"}
DescriptionParts == {"title", "description", "review_reference"}
MaxFields == 32
Compilable == {"object", "boolean"}   \* the schemas that compile, by their JSON type

(* ToolVersionDefinition.  description: the parts that are filled in.      *)
(* sources of a projection field: where its value comes from.  bound: the  *)
(* connector's keys are registry keys.  limited: sizes, deadline,          *)
(* concurrency and attempts are within the platform's capacity.  selected: *)
(* the credential selector is a registry key.                              *)
Definition ==
  [risk : STRING, sideEffect : BOOLEAN, retry : STRING, approval : STRING,
   description : SUBSET DescriptionParts, input : STRING, output : STRING, profile : STRING,
   projection : SUBSET [name : STRING, required : BOOLEAN,
                        sources : SUBSET {"pointer", "literal"}],
   maxFields : Nat, charge : STRING, scope : STRING, qualified : BOOLEAN,
   bound : BOOLEAN, limited : BOOLEAN, selected : BOOLEAN]

ValidateProjection(d) ==
  LET max == IF d.maxFields = 0 THEN MaxFields ELSE d.maxFields
  IN  /\ Cardinality(d.projection) \in 1..max /\ max <= MaxFields
      /\ \A f, g \in d.projection : f.name = g.name => f = g
      /\ \A f \in d.projection : Cardinality(f.sources) = 1

ValidateToolVersionDefinition(d) ==
  /\ d.risk \in Risks /\ d.retry \in Retries /\ d.approval \in Approvals
  /\ d.sideEffect => d.risk # "read" /\ d.retry # "safe"
  /\ d.bound
  /\ ValidateProjection(d)
  /\ d.limited

ValidateReviewedDescription(d) == d.description = DescriptionParts

ValidateMetering(d) == d.charge \in ChargePoints /\ d.scope \in Scopes

ValidateToolPublication(d) ==
  /\ ValidateToolVersionDefinition(d)
  /\ ValidateReviewedDescription(d)
  /\ d.profile = "jcs-v1"
  /\ {d.input, d.output} \subseteq Compilable
  /\ d.selected /\ d.qualified
  /\ \E f \in d.projection : f.required
  /\ ValidateMetering(d)

(* projectDiscoveryTool, on a published row: schemas have to be objects.   *)
ProjectDiscoveryTool(d) ==
  /\ "description" \in d.description
  /\ d.input = "object" /\ d.output = "object"
  /\ d.risk \in Risks /\ d.retry \in Retries /\ d.approval \in Approvals

ASSUME CatalogAssumption ==
  /\ LastKey \in Nat
  /\ DOMAIN Content = Definitions
  /\ \A d \in Definitions : Content[d] \in Definition

VARIABLES
  versions,   \* tool_versions
  enabled,    \* the keys with an enabled row in tenant_tool_exposures
  granted     \* the keys the discovery policy allows the caller (ThinkPixelAG)

catalogVars == <<versions, enabled, granted>>

Absent == [state |-> "absent"]
Row(state, d) == [state |-> state, definition |-> d]

CatalogInit ==
  /\ versions = [k \in Keys |-> Absent]
  /\ enabled = {}
  /\ granted \in SUBSET Keys

-----------------------------------------------------------------------------
(* Variant: the upsert without its condition on the state of the row.      *)
EditableAlways(k) == TRUE

(* The upsert inserts a row or replaces a draft.                           *)
Editable(k) == versions[k].state \in {"absent", "draft"}

SaveDraft(k, d) ==
  /\ Editable(k)
  /\ versions' = [versions EXCEPT ![k] = Row("draft", d)]
  /\ UNCHANGED <<enabled, granted>>

(* The repository's transition, whatever the draft is by then.             *)
Publish(k) ==
  /\ versions[k].state = "draft"
  /\ versions' = [versions EXCEPT ![k] = Row("published", versions[k].definition)]
  /\ UNCHANGED <<enabled, granted>>

(* The handler validates the document it was sent; the administration      *)
(* service (external) then saves that definition as the draft and          *)
(* publishes it.                                                           *)
PublishToolVersion(k, d) ==
  /\ ValidateToolPublication(Content[d])
  /\ Editable(k)
  /\ versions' = [versions EXCEPT ![k] = Row("published", d)]
  /\ UNCHANGED <<enabled, granted>>

Retire(k) ==
  /\ versions[k].state = "published"
  /\ versions' = [versions EXCEPT ![k] = Row("retired", versions[k].definition)]
  /\ UNCHANGED <<enabled, granted>>

(* NewToolExposure, which a trigger repeats; an existing version is        *)
(* required by a foreign key.                                              *)
ExposureAllowed(k, on) ==
  IF on THEN versions[k].state = "published" ELSE versions[k].state # "absent"

(* Retiring a version leaves its exposure.                                 *)
SetExposure(k, on) ==
  /\ ExposureAllowed(k, on)
  /\ enabled' = IF on THEN enabled \union {k} ELSE enabled \ {k}
  /\ UNCHANGED <<versions, granted>>

(* The visibility policy changes in ThinkPixelAG.                          *)
ChangePolicy(k) ==
  /\ granted' = IF k \in granted THEN granted \ {k} ELSE granted \union {k}
  /\ UNCHANGED <<versions, enabled>>

CatalogNext ==
  \E k \in Keys :
    \/ \E d \in Definitions : SaveDraft(k, d) \/ PublishToolVersion(k, d)
    \/ Publish(k) \/ Retire(k)
    \/ \E on \in BOOLEAN : SetExposure(k, on)
    \/ ChangePolicy(k)

(* GetExposedVersion and ListExposedForDiscovery.                          *)
Exposed == {k \in enabled : versions[k].state = "published"}
=============================================================================
