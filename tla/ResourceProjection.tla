-------------------------- MODULE ResourceProjection --------------------------
(***************************************************************************)
(* The resources that a call is authorized for: the fields that a tool     *)
(* version selects from the arguments of the call                          *)
(* (internal/resourceprojection/projection.go).                            *)
(*                                                                         *)
(* A JSON value is [type, value], or [type, members] for an object or an   *)
(* array, whose members are named by their index.  The length of the       *)
(* output and the signs that strconv.Atoi accepts in an index are left     *)
(* out.                                                                    *)
(***************************************************************************)
EXTENDS Naturals, FiniteSets

LOCAL INSTANCE SequencesExt

Types == {"any", "string", "number", "boolean", "object", "array", "null"}

Missing == [type |-> "missing"]

Member(node, token) ==
  IF node.type \in {"object", "array"} /\ token \in DOMAIN node.members
    THEN node.members[token] ELSE Missing

(* resolve, along the tokens of a pointer.                                 *)
ResolvePointer(root, tokens) == FoldLeft(Member, root, tokens)

(* compile: a literal null is no source.                                   *)
HasLiteral(field) == field.literal.type \notin {"missing", "null"}

Compiles(definition) ==
  LET max == IF definition.maxFields = 0 THEN 32 ELSE definition.maxFields
  IN  /\ Cardinality(definition.fields) \in 1..max
      /\ \A f, g \in definition.fields : f.name = g.name => f = g
      /\ \A f \in definition.fields :
           HasLiteral(f) = (f.tokens = <<>>) /\ f.type \in Types

Matches(type, value) == type \in {"any", value.type}

Selected(field, arguments) ==
  IF HasLiteral(field) THEN field.literal
  ELSE ResolvePointer([type |-> "object", members |-> arguments], field.tokens)

(* Project succeeds: what is required is there, and what is there has the  *)
(* type of its field.                                                      *)
Projectable(definition, arguments) ==
  /\ Compiles(definition)
  /\ \A f \in definition.fields :
       LET value == Selected(f, arguments)
       IN  IF value = Missing THEN ~f.required ELSE Matches(f.type, value)

(* The members of the projected object.                                    *)
Project(definition, arguments) ==
  LET found == {f \in definition.fields : Selected(f, arguments) # Missing}
  IN  [name \in {f.name : f \in found} |->
        Selected(CHOOSE f \in found : f.name = name, arguments)]
=============================================================================
