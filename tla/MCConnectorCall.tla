--------------------------- MODULE MCConnectorCall ---------------------------
(* The instance of ConnectorCall for TLC: two tenants whose instances have *)
(* the same selector, the executors built with the first one's.            *)
EXTENDS ConnectorCall

CONSTANTS t1, t2, home, other, foreign, repo1, repo2, n1, text

JSON(type, value) == [type |-> type, value |-> value]

MCField(name, tokens, literal, required, type) ==
  [name |-> name, tokens |-> tokens, literal |-> literal, required |-> required, type |-> type]

Number(required) == MCField("pull_number", <<"pull_number">>, Missing, required, "number")

(* The target itself, always the first repository, and a nested field.     *)
Faithful == [fields |-> {MCField("repository", <<"repository">>, Missing, TRUE, "string"),
                         Number(TRUE)}, maxFields |-> 0]
Pinned == [fields |-> {MCField("repository", <<>>, JSON("string", repo1), TRUE, "string"),
                       Number(FALSE)}, maxFields |-> 2]
Nested == [fields |-> {MCField("repository", <<"targets", "0">>, Missing, FALSE, "any"),
                       Number(TRUE)}, maxFields |-> 2]

MCProjections == {Faithful, Pinned, Nested}

Target(repository) ==
  [repository |-> JSON("string", repository), pull_number |-> JSON("number", n1)]

Comment(repository) ==
  [repository |-> JSON("string", repository), pull_number |-> JSON("number", n1),
   body |-> JSON("string", text)]

MCArguments ==
  {Target(repo1), Target(repo2), Comment(repo1), Comment(repo2),
   [repository |-> JSON("string", repo1)],
   [pull_number |-> JSON("number", n1),
    targets |-> [type |-> "array", members |-> [i \in {"0"} |-> JSON("string", repo1)]]]}

MCTool(operation, effect, retry, projection) ==
  [operation |-> operation, selector |-> "main", sideEffect |-> effect, retry |-> retry,
   projection |-> projection]

MCDeduplicated == MCTool("pull.comment", TRUE, "gateway_deduplicated", Faithful)

MCTools ==
  {MCTool("pull.get", FALSE, "safe", Faithful), MCTool("pull.get", FALSE, "safe", Pinned),
   MCTool("pull.get", FALSE, "safe", Nested),
   MCTool("pull.comment", TRUE, "non_retryable", Pinned),
   MCTool("pull.comment", TRUE, "non_retryable", Faithful),
   MCDeduplicated, MCTool("other", FALSE, "safe", Faithful)}

MCInstance(tenant, id, owner) ==
  [id |-> id, tenant |-> tenant, selector |-> "main", host |-> home, owner |-> owner,
   enabled |-> TRUE]

MCInstances == {MCInstance(t1, "i1", "o1"), MCInstance(t2, "i2", "o2")}

MCConnectors == [o \in {"pull.get", "pull.comment"} |-> MCInstance(t1, "i1", "o1")]

MCBinding(tenant, id, tools, kind, owner, on) ==
  [tenant |-> tenant, instance |-> id, tools |-> tools, kind |-> kind,
   audiences |-> {home}, resources |-> {<<owner, repo1>>}, delegated |-> FALSE,
   ttl |-> 1, skew |-> 0, enabled |-> on]

MCToken(issued, expires) ==
  [issuer |-> "cluster", audiences |-> {home}, issued |-> issued, expires |-> expires]

(* A token and its renewal, one too long lived, one for another audience,  *)
(* one of another issuer.                                                  *)
MCTokens ==
  {MCToken(0, 2), MCToken(2, 4), MCToken(1, 9),
   [MCToken(0, 2) EXCEPT !.audiences = {other}], [MCToken(0, 2) EXCEPT !.issuer = "elsewhere"]}

(* The first tenant's binding for a tool that the writer does not serve is *)
(* of a kind the provider refuses; of the second one's, one is disabled.   *)
MCBindings ==
  {MCBinding(t1, "i1", MCTools \ {MCDeduplicated}, "api_token", "o1", TRUE),
   MCBinding(t1, "i1", {MCDeduplicated}, "mtls", "o1", TRUE),
   MCBinding(t2, "i2", MCTools, "api_token", "o2", TRUE),
   MCBinding(t2, "i2", MCTools, "api_token", "o1", FALSE)}
=============================================================================
