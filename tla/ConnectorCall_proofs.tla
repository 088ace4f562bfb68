------------------------- MODULE ConnectorCall_proofs -------------------------
(***************************************************************************)
(* The properties of ConnectorCall, for all instances, bindings, tokens,   *)
(* projections, arguments, hosts, addresses and limits.                    *)
(***************************************************************************)
EXTENDS ConnectorCall, TLAPS

(* The phases in which the connector has called the client.                *)
Calling == {"sending", "sent", "answered", "redirected"}

(* What is known of the provider: a request that was answered created at   *)
(* most one comment, and only a POST does; the first request of a comment  *)
(* is one, and its answer tells whether it created the comment if it is a  *)
(* 201 or a documented rejection.                                          *)
ProviderInv ==
  /\ call.phase \in {"idle", "leased"} => applied = 0 /\ call.redirects = 0
  /\ call.phase \in {"sending", "sent"} => applied <= call.redirects
  /\ call.phase \in Calling /\ call.redirects = 0 =>
       call.writes = (call.tool.operation = "pull.comment")
  /\ call.phase = "answered" /\ call.redirects = 0 /\ call.writes =>
       /\ call.status = "created" => applied = 1
       /\ call.status \in Rejections => applied = 0
  /\ call.writes => call.phase \in Calling /\ call.tool.operation = "pull.comment"
  /\ call.phase # "ended" => call.outcome = Null

(* The first request of an execution.                                      *)
First == call.phase = "sending" /\ call.redirects = 0

(* What is known of a routed call, its credential and the request.         *)
RoutedInv ==
  /\ call.phase = "idle" => call = Idle /\ trusted = {}
  /\ call.phase = "leased" => trusted = {}
  /\ call.phase # "idle" =>
       /\ call.tool \in Tools /\ call.tool.operation \in Operations
       /\ call.binding \in Bindings /\ call.binding.tenant = call.tenant
  /\ call.phase \in Calling =>
       /\ ValidCredential(Connectors[call.tool.operation], call.binding, call.repository)
       /\ Project(call.tool.projection, call.arguments)["repository"].value = call.repository
  /\ call.secret =>
       call.phase \in Calling /\ call.host = Connectors[call.tool.operation].host
  /\ First => trusted = {} /\ call.secret /\ call.path = call.repository
  /\ call.phase \in Calling /\ ~First => trusted # {}
  /\ call.phase = "sending" /\ ~First => call.host \in AllowedHosts

(* What is known of a capability that has not been used.                   *)
LeaseInv ==
  call.phase = "leased" =>
    /\ call.token \in Tokens
    /\ call.resolved <= clock
    /\ call.token.issued <= call.resolved + ClockSkew
    /\ call.expires <= call.token.expires
    /\ call.binding.ttl > 0 => call.expires <= call.resolved + call.binding.ttl

(* The inductive invariant.                                                *)
Inv ==
  /\ TypeOK
  /\ ProviderInv
  /\ RoutedInv
  /\ LeaseInv
  /\ ClassificationIsSound
  /\ CredentialStaysHome
  /\ DestinationsArePermitted

-----------------------------------------------------------------------------
(* The facts about the constants that the proofs use.                      *)
LEMMA ConstantFacts ==
  /\ \A t \in Tools : t \in Tool
  /\ \A b \in Bindings : b \in Binding
  /\ \A t \in Tokens : t \in Token
  /\ \A o \in Operations : Connectors[o] \in Instance
  /\ AllowedHosts \subseteq Hosts
  /\ MaxRedirects \in Nat /\ ClockSkew \in Nat /\ MaxTime \in Nat
  /\ Null \notin Outcomes
BY ConfigAssumption
DEF ConfigAssumption, RegistryConfig, ConnectorConfig, PolicyConfig, ProviderConfig, ValidBinding

(* The repository of a request is the one of the projection.               *)
LEMMA NamedIsProjected ==
  ASSUME NEW tool, NEW arguments, Named(tool, arguments)
  PROVE  /\ arguments["repository"].value \in Repositories
         /\ Project(tool.projection, arguments)["repository"].value =
              arguments["repository"].value
<1> DEFINE projection == Project(tool.projection, arguments)
<1>1. /\ DecodeTarget(arguments) = DecodeTarget(projection)
      /\ ValidTarget(DecodeTarget(arguments))
  BY DEF Named, ValidateTarget, ValidateComment
<1> HIDE DEF projection
<1>2. ASSUME NEW members, ValidTarget(DecodeTarget(members))
      PROVE  /\ DecodeTarget(members)["repository"] = members["repository"]
             /\ members["repository"].value \in Repositories
  BY <1>2 DEF ValidTarget, DecodeTarget, TargetFields, Missing
<1>3. /\ DecodeTarget(arguments)["repository"] = arguments["repository"]
      /\ DecodeTarget(projection)["repository"] = projection["repository"]
  BY <1>1, <1>2
<1> QED  BY <1>1, <1>2, <1>3 DEF projection

(* A call with one field replaced; the four lemmas after it are the        *)
(* replacements the actions make.                                          *)
LEMMA Update ==
  ASSUME NEW q \in Call
  PROVE  /\ \A x \in {"sending", "answered", "redirected", "ended"} :
              [q EXCEPT !.phase = x] \in Call
         /\ \A x \in Repositories : [q EXCEPT !.repository = x] \in Call
         /\ \A x \in Hosts \union {Null} : [q EXCEPT !.host = x] \in Call
         /\ \A x \in Paths : [q EXCEPT !.path = x] \in Call
         /\ \A x \in Paths : [q EXCEPT !.at = x] \in Call
         /\ \A x \in BOOLEAN : [q EXCEPT !.secret = x] \in Call
         /\ \A x \in BOOLEAN : [q EXCEPT !.writes = x] \in Call
         /\ \A x \in Statuses \union {"moved", "see_other", Null} :
              [q EXCEPT !.status = x] \in Call
         /\ \A x \in Hosts \union {Null} : [q EXCEPT !.to = x] \in Call
         /\ \A x \in Outcomes : [q EXCEPT !.outcome = x] \in Call
<1>1. ASSUME NEW x \in {"sending", "answered", "redirected", "ended"}
      PROVE  [q EXCEPT !.phase = x] \in Call
  BY SMT DEF Call
<1>2. ASSUME NEW x \in Repositories PROVE [q EXCEPT !.repository = x] \in Call
  BY SMT DEF Call
<1>3. ASSUME NEW x \in Hosts \union {Null} PROVE [q EXCEPT !.host = x] \in Call
  BY SMT DEF Call
<1>4. ASSUME NEW x \in BOOLEAN PROVE [q EXCEPT !.secret = x] \in Call
  BY SMT DEF Call
<1>5. ASSUME NEW x \in BOOLEAN PROVE [q EXCEPT !.writes = x] \in Call
  BY SMT DEF Call
<1>6. ASSUME NEW x \in Statuses \union {"moved", "see_other", Null}
      PROVE  [q EXCEPT !.status = x] \in Call
  BY SMT DEF Call
<1>7. ASSUME NEW x \in Hosts \union {Null} PROVE [q EXCEPT !.to = x] \in Call
  BY SMT DEF Call
<1>8. ASSUME NEW x \in Outcomes PROVE [q EXCEPT !.outcome = x] \in Call
  BY SMT DEF Call
<1>9. ASSUME NEW x \in Paths PROVE [q EXCEPT !.path = x] \in Call
  BY SMT DEF Call
<1>10. ASSUME NEW x \in Paths PROVE [q EXCEPT !.at = x] \in Call
  BY SMT DEF Call
<1> QED
  BY <1>1, <1>2, <1>3, <1>4, <1>5, <1>6, <1>7, <1>8, <1>9, <1>10, Zenon

(* End.                                                                    *)
LEMMA EndedType ==
  ASSUME NEW q \in Call, NEW o \in Outcomes
  PROVE  [q EXCEPT !.phase = "ended", !.host = Null, !.path = Null, !.secret = FALSE,
                   !.writes = FALSE, !.status = Null, !.to = Null, !.at = Null,
                   !.outcome = o] \in Call
<1>0. Null \in Paths
  BY DEF Paths
<1>1. PICK a \in Call : a = [q EXCEPT !.phase = "ended"]
  BY Update, Zenon
<1>2. PICK b \in Call : b = [a EXCEPT !.host = Null]
  BY Update, Zenon
<1>3. PICK c \in Call : c = [b EXCEPT !.path = Null]
  BY <1>0, Update, Zenon
<1>4. PICK d \in Call : d = [c EXCEPT !.secret = FALSE]
  BY Update, Zenon
<1>5. PICK e \in Call : e = [d EXCEPT !.writes = FALSE]
  BY Update, Zenon
<1>6. PICK f \in Call : f = [e EXCEPT !.status = Null]
  BY Update, Zenon
<1>7. PICK g \in Call : g = [f EXCEPT !.to = Null]
  BY Update, Zenon
<1>8. PICK h \in Call : h = [g EXCEPT !.at = Null]
  BY <1>0, Update, Zenon
<1>9. PICK i \in Call : i = [h EXCEPT !.outcome = o]
  BY Update, Zenon
<1> QED
  BY <1>1, <1>2, <1>3, <1>4, <1>5, <1>6, <1>7, <1>8, <1>9, Zenon

(* The client is called (Execute).                                         *)
LEMMA SendingType ==
  ASSUME NEW q \in Call, NEW h \in Hosts, NEW r \in Repositories, NEW w \in BOOLEAN
  PROVE  [q EXCEPT !.phase = "sending", !.host = h, !.path = r, !.secret = TRUE,
                   !.repository = r, !.writes = w] \in Call
<1>0. r \in Paths
  BY DEF Paths
<1>1. PICK a \in Call : a = [q EXCEPT !.phase = "sending"]
  BY Update, Zenon
<1>2. PICK b \in Call : b = [a EXCEPT !.host = h]
  BY Update, Zenon
<1>3. PICK c \in Call : c = [b EXCEPT !.path = r]
  BY <1>0, Update, Zenon
<1>4. PICK d \in Call : d = [c EXCEPT !.secret = TRUE]
  BY Update, Zenon
<1>5. PICK e \in Call : e = [d EXCEPT !.repository = r]
  BY Update, Zenon
<1>6. PICK f \in Call : f = [e EXCEPT !.writes = w]
  BY Update, Zenon
<1> QED
  BY <1>1, <1>2, <1>3, <1>4, <1>5, <1>6, Zenon

(* The provider answers.                                                   *)
LEMMA AnsweredType ==
  ASSUME NEW q \in Call, NEW s \in Statuses
  PROVE  [q EXCEPT !.phase = "answered", !.status = s] \in Call
<1>1. PICK a \in Call : a = [q EXCEPT !.phase = "answered"]
  BY Update, Zenon
<1>2. PICK b \in Call : b = [a EXCEPT !.status = s]
  BY Update, Zenon
<1> QED
  BY <1>1, <1>2, Zenon

(* The provider redirects.                                                 *)
LEMMA RedirectedType ==
  ASSUME NEW q \in Call, NEW s \in {"moved", "see_other"}, NEW h \in Hosts, NEW p \in Paths
  PROVE  [q EXCEPT !.phase = "redirected", !.status = s, !.to = h, !.at = p] \in Call
<1>1. PICK a \in Call : a = [q EXCEPT !.phase = "redirected"]
  BY Update, Zenon
<1>2. PICK b \in Call : b = [a EXCEPT !.status = s]
  BY Update, Zenon
<1>3. PICK c \in Call : c = [b EXCEPT !.to = h]
  BY Update, Zenon
<1>4. PICK d \in Call : d = [c EXCEPT !.at = p]
  BY Update, Zenon
<1> QED
  BY <1>1, <1>2, <1>3, <1>4, Zenon

(* The call ends with an outcome that is true of the provider.             *)
LEMMA EndPreservesInv ==
  ASSUME Inv, call.phase # "idle", NEW outcome \in Outcomes, End(outcome),
         UNCHANGED <<clock, reached, trusted>>,
         applied' \in Nat,
         call.tool.operation # "pull.comment" => applied' = 0,
         outcome \in {"cancelled_pre_send", "transient_safe"} => applied' = 0,
         applied' <= 1 + call.redirects,
         call.redirects = 0 =>
           /\ outcome = "definitely_rejected" => applied' = 0
           /\ outcome = "confirmed_success" /\ call.tool.operation = "pull.comment" =>
                applied' = 1
  PROVE  Inv'
<1>1. /\ call'.phase = "ended" /\ call'.outcome = outcome /\ call'.tool = call.tool
      /\ call'.binding = call.binding /\ call'.tenant = call.tenant
      /\ call'.repository = call.repository /\ call'.redirects = call.redirects
      /\ call'.arguments = call.arguments
      /\ ~call'.secret /\ ~call'.writes
  BY DEF Inv, TypeOK, Call, End
<1>2. TypeOK'
  <2>1. call' \in Call
    <3>1. call \in Call
      BY Zenon DEF Inv, TypeOK
    <3> QED
      BY <3>1, EndedType, Zenon DEF End
  <2> QED
    BY <2>1, Zenon DEF Inv, TypeOK
<1>3. ProviderInv'
  BY <1>1 DEF ProviderInv, Calling
<1>4. RoutedInv'
  BY <1>1, Zenon DEF Inv, RoutedInv, Calling, First
<1>5. LeaseInv'
  BY <1>1 DEF LeaseInv
<1>6. ClassificationIsSound'
  BY <1>1 DEF ClassificationIsSound
<1>7. CredentialStaysHome'
  BY <1>1, Zenon DEF Inv, CredentialStaysHome
<1>8. DestinationsArePermitted'
  BY <1>1 DEF Inv, DestinationsArePermitted, Permitted
<1> QED  BY <1>2, <1>3, <1>4, <1>5, <1>6, <1>7, <1>8 DEF Inv

(* An error after the client was called claims nothing: the request on its *)
(* way may create a comment.                                               *)
LEMMA FailedPreservesInv ==
  ASSUME Inv, call.phase \in Calling, End(Failed),
         UNCHANGED <<clock, reached, trusted>>,
         \/ UNCHANGED applied
         \/ call.phase = "sent" /\ call.writes /\ applied' = applied + 1
  PROVE  Inv'
<1>1. Failed \in {"unknown", "error"} /\ Failed \in Outcomes
  BY DEF Failed, Outcomes
<1>2. /\ applied \in Nat /\ call.redirects \in Nat
      /\ applied <= 1 + call.redirects
      /\ call.phase = "sent" => applied <= call.redirects
      /\ call.tool.operation # "pull.comment" => applied = 0 /\ ~call.writes
  BY ConstantFacts DEF Inv, TypeOK, Call, ClassificationIsSound, ProviderInv, Calling
<1>3. /\ applied' \in Nat /\ applied' <= 1 + call.redirects
      /\ call.tool.operation # "pull.comment" => applied' = 0
  BY <1>2
<1> QED  BY <1>1, <1>3, EndPreservesInv DEF Calling

LEMMA InitInv == Init => Inv
<1> SUFFICES ASSUME Init PROVE Inv
  OBVIOUS
<1>1. TypeOK
  BY ConstantFacts DEF Init, TypeOK, Call, Idle, Paths
<1>2. ProviderInv /\ RoutedInv /\ LeaseInv
  BY DEF Init, ProviderInv, RoutedInv, LeaseInv, Idle, Calling, First
<1>3. ClassificationIsSound /\ CredentialStaysHome /\ DestinationsArePermitted
  BY ConstantFacts
  DEF Init, Idle, ClassificationIsSound, CredentialStaysHome, DestinationsArePermitted, Outcomes
<1> QED  BY <1>1, <1>2, <1>3 DEF Inv

LEMMA ResolveCredentialPreservesInv ==
  ASSUME Inv, NEW tenant \in Tenants, NEW tool \in Tools, NEW arguments \in Arguments,
         ResolveCredential(tenant, tool, arguments)
  PROVE  Inv'
<1>0. PICK i \in Resolve(tenant, tool) : \E b \in SelectBinding(tenant, i, tool) :
        \E token \in Tokens :
          /\ Usable(b, token)
          /\ call' = [Idle EXCEPT !.phase = "leased", !.tenant = tenant, !.tool = tool,
                                  !.binding = b, !.expires = Expiry(b, token),
                                  !.token = token, !.resolved = clock, !.arguments = arguments]
  BY Zenon DEF ResolveCredential
<1>1. PICK b \in SelectBinding(tenant, i, tool), token \in Tokens :
        /\ Usable(b, token)
        /\ call' = [Idle EXCEPT !.phase = "leased", !.tenant = tenant, !.tool = tool,
                                !.binding = b, !.expires = Expiry(b, token),
                                !.token = token, !.resolved = clock, !.arguments = arguments]
  BY <1>0, Zenon
<1>2. b \in Bindings /\ b.tenant = tenant
  BY Zenon DEF SelectBinding
<1>3. tool.operation \in Operations
  BY ConfigAssumption DEF ConfigAssumption, ConnectorConfig, Resolve
<1>4. /\ clock \in Nat /\ b.ttl \in Nat
      /\ token.issued \in Nat /\ token.expires \in Nat
  BY <1>2, ConstantFacts DEF Inv, TypeOK, Binding, Token
<1>5. /\ Expiry(b, token) \in Nat
      /\ Expiry(b, token) <= token.expires
      /\ b.ttl > 0 => Expiry(b, token) <= clock + b.ttl
  BY <1>4 DEF Expiry
<1>6. call' = [phase |-> "leased", tenant |-> tenant, tool |-> tool, binding |-> b,
               expires |-> Expiry(b, token), token |-> token, resolved |-> clock,
               redirects |-> 0, arguments |-> arguments, repository |-> Null,
               host |-> Null, path |-> Null, secret |-> FALSE, writes |-> FALSE,
               status |-> Null, to |-> Null, at |-> Null, outcome |-> Null]
  BY <1>1, Zenon DEF Idle
<1>7. applied = 0 /\ trusted = {} /\ UNCHANGED <<clock, applied, reached, trusted>>
  BY DEF Inv, ProviderInv, RoutedInv, ResolveCredential, Idle
<1>8. TypeOK'
  BY <1>2, <1>4, <1>5, <1>6, <1>7, ConstantFacts DEF Inv, TypeOK, Call, Paths
<1>9. ProviderInv' /\ RoutedInv'
  BY <1>2, <1>3, <1>6, <1>7, Zenon DEF ProviderInv, RoutedInv, Calling, First
<1>10. LeaseInv'
  BY <1>1, <1>4, <1>5, <1>6, <1>7, ConstantFacts DEF LeaseInv, Usable
<1>11. ClassificationIsSound' /\ CredentialStaysHome' /\ DestinationsArePermitted'
  <2>1. /\ call'.outcome = Null /\ call'.redirects = 0
        /\ applied' = 0 /\ trusted' = {} /\ reached' = reached
    BY <1>6, <1>7, Zenon
  <2>2. Null \notin Outcomes /\ MaxRedirects \in Nat
    BY ConstantFacts
  <2>3. ClassificationIsSound' /\ call'.redirects <= MaxRedirects
    BY <2>1, <2>2 DEF ClassificationIsSound, Outcomes
  <2>4. CredentialStaysHome' /\ DestinationsArePermitted'
    BY <2>1, <2>3, Zenon DEF Inv, CredentialStaysHome, DestinationsArePermitted, Permitted
  <2> QED  BY <2>3, <2>4
<1> QED  BY <1>8, <1>9, <1>10, <1>11 DEF Inv

LEMMA ExecutePreservesInv ==
  ASSUME Inv, Execute
  PROVE  Inv'
<1> DEFINE connector == Connectors[call.tool.operation]
           repository == call.arguments["repository"].value
<1>1. call.phase = "leased" /\ UNCHANGED <<clock, applied, reached, trusted>>
  BY DEF Execute
<1>2. applied = 0 /\ trusted = {} /\ call.redirects = 0
  BY <1>1, Zenon DEF Inv, ProviderInv, RoutedInv
<1>3. ASSUME NEW outcome \in {"error", "cancelled_pre_send"}, End(outcome)
      PROVE  Inv'
  BY <1>1, <1>2, <1>3, EndPreservesInv DEF Outcomes
<1>4. ASSUME Named(call.tool, call.arguments),
             ValidCredential(connector, call.binding, repository),
             call' = [call EXCEPT !.phase = "sending", !.host = connector.host,
                                  !.path = repository, !.secret = TRUE,
                                  !.repository = repository,
                                  !.writes = call.tool.operation = "pull.comment"]
      PROVE  Inv'
  <2>0. /\ repository \in Repositories
        /\ Project(call.tool.projection, call.arguments)["repository"].value = repository
    BY <1>4, NamedIsProjected
  <2> HIDE DEF repository
  <2>1. /\ call.tool \in Tools /\ call.tool.operation \in Operations
        /\ call.binding \in Bindings /\ call.binding.tenant = call.tenant
        /\ call.outcome = Null
    BY <1>1, Zenon DEF Inv, RoutedInv, ProviderInv
  <2>2. connector.host \in Hosts
    BY <2>1, ConstantFacts DEF Instance
  <2>3. /\ call'.phase = "sending" /\ call'.host = connector.host
        /\ call'.path = repository /\ call'.secret
        /\ call'.repository = repository /\ call'.tool = call.tool
        /\ call'.arguments = call.arguments
        /\ call'.binding = call.binding /\ call'.tenant = call.tenant
        /\ call'.redirects = call.redirects /\ call'.outcome = call.outcome
        /\ call'.writes = (call.tool.operation = "pull.comment")
    BY <1>4 DEF Inv, TypeOK, Call
  <2>4. TypeOK'
    <3>1. PICK w \in BOOLEAN : w = (call.tool.operation = "pull.comment")
      BY Zenon
    <3>2. PICK r \in Repositories : r = repository
      BY <2>0
    <3>3. call' = [call EXCEPT !.phase = "sending", !.host = connector.host, !.path = r,
                               !.secret = TRUE, !.repository = r, !.writes = w]
      BY <1>4, <3>1, <3>2, Zenon
    <3>4. call' \in Call
      <4>1. call \in Call /\ connector.host \in Hosts
        BY <2>2 DEF Inv, TypeOK
      <4> QED
        BY <3>1, <3>2, <3>3, <4>1, SendingType, Zenon
    <3> QED  BY <1>1, <3>4 DEF Inv, TypeOK
  <2>5. ProviderInv' /\ LeaseInv'
    <3>1. applied' <= call'.redirects
      BY <1>1, <1>2, <2>3
    <3> QED
      BY <1>1, <1>2, <2>1, <2>3, <3>1, Zenon DEF ProviderInv, LeaseInv, Calling
  <2>6. RoutedInv'
    BY <1>1, <1>2, <1>4, <2>0, <2>1, <2>3, Zenon DEF RoutedInv, Calling, First
  <2>7. ClassificationIsSound'
    BY <1>1, <1>2, <2>1, <2>3, ConstantFacts DEF ClassificationIsSound, Outcomes
  <2>8. CredentialStaysHome' /\ DestinationsArePermitted'
    BY <1>1, <1>2, <2>1, <2>3, Zenon
    DEF Inv, CredentialStaysHome, DestinationsArePermitted, Permitted
  <2> QED  BY <2>4, <2>5, <2>6, <2>7, <2>8 DEF Inv
<1> QED  BY <1>3, <1>4 DEF Execute

LEMMA ConnectPreservesInv ==
  ASSUME Inv, Connect
  PROVE  Inv'
<1>1. PICK answer \in SUBSET Addresses, a \in Addresses :
        /\ AllPermitted(answer) /\ a \in answer
        /\ reached' = reached \union {<<call.host, a>>}
  BY DEF Connect
<1>2. /\ call.phase = "sending"
      /\ call.redirects = 0 => ValidateURL(call.host)
      /\ call' = [call EXCEPT !.phase = "sent"]
      /\ trusted' = IF call.secret THEN trusted \union {<<call.host, call.path>>} ELSE trusted
      /\ UNCHANGED <<clock, applied>>
  BY DEF Connect
<1>3. /\ call'.phase = "sent" /\ call'.tool = call.tool /\ call'.binding = call.binding
      /\ call'.tenant = call.tenant /\ call'.repository = call.repository
      /\ call'.arguments = call.arguments
      /\ call'.redirects = call.redirects /\ call'.outcome = call.outcome
      /\ call'.secret = call.secret /\ call'.writes = call.writes /\ call'.host = call.host
  BY <1>2 DEF Inv, TypeOK, Call
<1>4. call.host \in AllowedHosts /\ Permitted(a)
  BY <1>1, <1>2 DEF ValidateURL, AllPermitted, Inv, RoutedInv, First
<1>5. TypeOK'
  <2>1. call' \in Call
    BY <1>2 DEF Inv, TypeOK, Call
  <2>2. <<call.host, call.path>> \in Hosts \X Paths /\ <<call.host, a>> \in Hosts \X Addresses
    BY <1>1, <1>4, ConstantFacts DEF Inv, TypeOK, Call
  <2> QED  BY <1>1, <1>2, <2>1, <2>2, Zenon DEF Inv, TypeOK
<1>6. ProviderInv' /\ LeaseInv'
  BY <1>2, <1>3 DEF Inv, ProviderInv, LeaseInv, Calling
<1>7. trusted' # {} /\ (First => trusted' = {<<call.host, call.repository>>})
  <2>1. CASE First
    BY <1>2, <2>1, Zenon DEF Inv, RoutedInv
  <2>2. CASE ~First
    <3>1. trusted # {}
      BY <1>2, <2>2, Zenon DEF Inv, RoutedInv, Calling
    <3> QED  BY <1>2, <2>2, <3>1, Zenon
  <2> QED  BY <2>1, <2>2
<1>8. RoutedInv'
  BY <1>2, <1>3, <1>7, Zenon DEF Inv, RoutedInv, Calling, First
<1>9. ClassificationIsSound'
  BY <1>2, <1>3 DEF Inv, ClassificationIsSound
<1>10. CredentialStaysHome'
  <2>1. CASE First
    <3>1. call.host = Connectors[call.tool.operation].host
      BY <2>1, Zenon DEF Inv, RoutedInv
    <3>2. trusted' = {<<Connectors[call.tool.operation].host, call.repository>>}
      BY <1>7, <2>1, <3>1, Zenon
    <3>3. \A t \in trusted' : t[1] = Connectors[call.tool.operation].host
      BY <3>2
    <3>4. /\ call.binding.tenant = call.tenant
          /\ ValidCredential(Connectors[call.tool.operation], call.binding, call.repository)
          /\ Project(call.tool.projection, call.arguments)["repository"].value =
               call.repository
      BY <1>2, Zenon DEF Inv, RoutedInv, Calling
    <3> QED
      BY <1>3, <3>2, <3>3, <3>4, Zenon DEF CredentialStaysHome, ValidCredential
  <2>2. CASE ~First
    <3>1. trusted # {} /\ call.redirects # 0
      BY <1>2, <2>2, Zenon DEF Inv, RoutedInv, Calling, First
    <3>2. call.secret => call.host = Connectors[call.tool.operation].host
      BY Zenon DEF Inv, RoutedInv
    <3>3. \A t \in trusted' : t[1] = Connectors[call.tool.operation].host
      <4>1. \A t \in trusted : t[1] = Connectors[call.tool.operation].host
        BY <3>1, Zenon DEF Inv, CredentialStaysHome
      <4> QED  BY <1>2, <3>2, <4>1
    <3>4. trusted \subseteq trusted'
      BY <1>2, Zenon
    <3> QED
      BY <1>2, <1>3, <3>1, <3>3, <3>4, Zenon DEF Inv, CredentialStaysHome
  <2> QED  BY <2>1, <2>2
<1>11. DestinationsArePermitted'
  BY <1>1, <1>3, <1>4 DEF Inv, DestinationsArePermitted, Permitted
<1> QED  BY <1>5, <1>6, <1>8, <1>9, <1>10, <1>11 DEF Inv

(* What a request does at the provider, by its answer.                     *)
LEMMA EffectFacts ==
  ASSUME NEW status, NEW n \in Effects(status)
  PROVE  /\ n \in {0, 1}
         /\ ~call.writes => n = 0
         /\ call.writes /\ status = "created" => n = 1
         /\ call.writes /\ status \in Rejections => n = 0
BY DEF Effects, Rejections

LEMMA ServePreservesInv ==
  ASSUME Inv, Serve
  PROVE  Inv'
<1>1. /\ call.phase = "sent" /\ call.outcome = Null
      /\ UNCHANGED <<clock, reached, trusted>>
  BY Zenon DEF Serve, Inv, ProviderInv
<1>2. /\ applied \in Nat /\ call.redirects \in Nat /\ applied <= call.redirects
      /\ call.tool.operation # "pull.comment" => applied = 0 /\ ~call.writes
      /\ call.redirects = 0 => call.writes = (call.tool.operation = "pull.comment")
  BY <1>1, ConstantFacts DEF Inv, TypeOK, Call, ClassificationIsSound, ProviderInv, Calling
<1>3. ASSUME NEW status, NEW n \in Effects(status), applied' = applied + n,
             call' \in Call, call'.phase \in {"answered", "redirected"},
             call'.status = status,
             call'.tool = call.tool, call'.binding = call.binding,
             call'.tenant = call.tenant, call'.repository = call.repository,
             call'.arguments = call.arguments,
             call'.redirects = call.redirects, call'.outcome = call.outcome,
             call'.secret = call.secret, call'.writes = call.writes, call'.host = call.host
      PROVE  Inv'
  <2>1. /\ n \in {0, 1}
        /\ ~call.writes => n = 0
        /\ call.writes /\ status = "created" => n = 1
        /\ call.writes /\ status \in Rejections => n = 0
    BY EffectFacts
  <2>2. /\ applied' \in Nat /\ applied' <= 1 + call.redirects
        /\ call.tool.operation # "pull.comment" => applied' = 0
        /\ call.redirects = 0 => applied' = n
    BY <1>2, <1>3, <2>1
  <2>3. TypeOK'
    BY <1>1, <1>3, <2>2, Zenon DEF Inv, TypeOK
  <2>4. ProviderInv'
    BY <1>1, <1>2, <1>3, <2>1, <2>2, Zenon DEF Inv, ProviderInv, Calling
  <2>5. RoutedInv' /\ LeaseInv'
    BY <1>1, <1>3, Zenon DEF Inv, RoutedInv, LeaseInv, Calling, First
  <2>6. ClassificationIsSound'
    BY <1>1, <1>3, <2>2, ConstantFacts DEF ClassificationIsSound, Outcomes
  <2>7. CredentialStaysHome' /\ DestinationsArePermitted'
    BY <1>1, <1>3, Zenon DEF Inv, CredentialStaysHome, DestinationsArePermitted, Permitted
  <2> QED  BY <2>3, <2>4, <2>5, <2>6, <2>7, Zenon DEF Inv
<1>4. call \in Call
  BY Zenon DEF Inv, TypeOK
<1>5. ASSUME NEW status \in Statuses, NEW n \in Effects(status), applied' = applied + n,
             call' = [call EXCEPT !.phase = "answered", !.status = status]
      PROVE  Inv'
  <2>1. call' \in Call
    BY <1>4, <1>5, AnsweredType, Zenon
  <2>2. /\ call'.phase = "answered" /\ call'.status = status
        /\ call'.tool = call.tool /\ call'.binding = call.binding
        /\ call'.tenant = call.tenant /\ call'.repository = call.repository
        /\ call'.arguments = call.arguments
        /\ call'.redirects = call.redirects /\ call'.outcome = call.outcome
        /\ call'.secret = call.secret /\ call'.writes = call.writes
        /\ call'.host = call.host
    BY <1>4, <1>5 DEF Call
  <2> QED  BY <1>3, <1>5, <2>1, <2>2, Zenon
<1>6. ASSUME NEW status \in {"moved", "see_other"}, NEW to \in Hosts, NEW at \in Paths,
             NEW n \in Effects(status), applied' = applied + n,
             call' = [call EXCEPT !.phase = "redirected", !.status = status, !.to = to,
                                  !.at = at]
      PROVE  Inv'
  <2>1. call' \in Call
    BY <1>4, <1>6, RedirectedType, Zenon
  <2>2. /\ call'.phase = "redirected" /\ call'.status = status
        /\ call'.tool = call.tool /\ call'.binding = call.binding
        /\ call'.tenant = call.tenant /\ call'.repository = call.repository
        /\ call'.arguments = call.arguments
        /\ call'.redirects = call.redirects /\ call'.outcome = call.outcome
        /\ call'.secret = call.secret /\ call'.writes = call.writes
        /\ call'.host = call.host
    BY <1>4, <1>6 DEF Call
  <2> QED  BY <1>3, <1>6, <2>1, <2>2, Zenon
<1> QED  BY <1>5, <1>6, Zenon DEF Serve

LEMMA RedirectPreservesInv ==
  ASSUME Inv, Redirect
  PROVE  Inv'
<1>1. /\ call.phase = "redirected" /\ call.outcome = Null
      /\ UNCHANGED <<clock, applied, reached, trusted>>
  BY Zenon DEF Redirect, Inv, ProviderInv
<1>2. CASE End(Failed)
  BY <1>1, <1>2, FailedPreservesInv DEF Calling
<1>3. ASSUME NEW keep \in BOOLEAN, MayFollow(call.redirects + 1, call.to),
             call' = [call EXCEPT
               !.phase = "sending", !.redirects = call.redirects + 1, !.host = call.to,
               !.path = call.at,
               !.secret = keep /\ Forwards(Connectors[call.tool.operation].host, call.to),
               !.writes = call.writes /\ call.status = "moved",
               !.status = Null, !.to = Null, !.at = Null]
      PROVE  Inv'
  <2>0. PICK via \in 0..MaxRedirects : via = call.redirects + 1
    BY <1>3, ConstantFacts DEF Inv, TypeOK, Call, MayFollow
  <2>1. call.to \in AllowedHosts /\ call.to \in Hosts
    BY <1>3, ConstantFacts DEF ValidateURL, MayFollow
  <2>2. PICK secret \in BOOLEAN, writes \in BOOLEAN :
          /\ secret => call.to = Connectors[call.tool.operation].host
          /\ writes => call.writes
          /\ call' = [call EXCEPT !.phase = "sending", !.redirects = via,
                                  !.host = call.to, !.path = call.at, !.secret = secret,
                                  !.writes = writes, !.status = Null, !.to = Null, !.at = Null]
    <3> DEFINE Resent(secret, writes) ==
                 call' = [call EXCEPT !.phase = "sending", !.redirects = via,
                                      !.host = call.to, !.path = call.at, !.secret = secret,
                                      !.writes = writes, !.status = Null, !.to = Null,
                                      !.at = Null]
    <3> DEFINE secret == keep /\ Forwards(Connectors[call.tool.operation].host, call.to)
               writes == call.writes /\ call.status = "moved"
    <3>1. secret \in BOOLEAN /\ writes \in BOOLEAN
      BY Zenon
    <3>2. secret => call.to = Connectors[call.tool.operation].host
      BY Zenon DEF Forwards
    <3>3. writes => call.writes
      OBVIOUS
    <3>4. Resent(secret, writes)
      BY <1>3, <2>0, Zenon
    <3> HIDE DEF secret, writes, Resent
    <3>5. \E s \in BOOLEAN, w \in BOOLEAN :
            /\ s => call.to = Connectors[call.tool.operation].host
            /\ w => call.writes
            /\ Resent(s, w)
      BY <3>1, <3>2, <3>3, <3>4, Zenon
    <3> USE DEF Resent
    <3> QED  BY <3>5, Zenon
  <2>3. /\ call'.phase = "sending" /\ call'.tool = call.tool /\ call'.binding = call.binding
        /\ call'.tenant = call.tenant /\ call'.repository = call.repository
        /\ call'.arguments = call.arguments
        /\ call'.redirects = via /\ call'.outcome = call.outcome
        /\ call'.secret = secret /\ call'.writes = writes /\ call'.host = call.to
    BY <2>2, Zenon DEF Inv, TypeOK, Call
  <2>4. TypeOK'
    <3>1. call' = [phase |-> "sending", tenant |-> call.tenant, tool |-> call.tool,
                   binding |-> call.binding, expires |-> call.expires, token |-> call.token,
                   resolved |-> call.resolved, redirects |-> via,
                   arguments |-> call.arguments, repository |-> call.repository,
                   host |-> call.to, path |-> call.at, secret |-> secret,
                   writes |-> writes, status |-> Null, to |-> Null, at |-> Null,
                   outcome |-> call.outcome]
      BY <2>2, Zenon DEF Inv, TypeOK, Call
    <3>2. call' \in Call
      BY <2>1, <3>1 DEF Inv, TypeOK, Call, Paths
    <3> QED  BY <1>1, <3>2, Zenon DEF Inv, TypeOK
  <2>5. /\ via # 0 /\ applied \in Nat /\ applied <= via
        /\ call.tool.operation # "pull.comment" => applied = 0 /\ ~call.writes
    BY <1>1, <2>0, ConstantFacts
    DEF Inv, TypeOK, Call, ClassificationIsSound, ProviderInv
  <2>6. ProviderInv' /\ LeaseInv'
    BY <1>1, <2>2, <2>3, <2>5, Zenon DEF Inv, ProviderInv, LeaseInv, Calling
  <2>7. trusted # {}
    BY <1>1, Zenon DEF Inv, RoutedInv, Calling, First
  <2>8. RoutedInv'
    BY <1>1, <2>1, <2>2, <2>3, <2>5, <2>7, Zenon DEF Inv, RoutedInv, Calling, First
  <2>9. ClassificationIsSound'
    BY <1>1, <2>0, <2>3, <2>5, ConstantFacts DEF ClassificationIsSound, Outcomes
  <2>10. CredentialStaysHome'
    BY <1>1, <2>3, <2>5, Zenon DEF Inv, CredentialStaysHome
  <2>11. DestinationsArePermitted'
    BY <1>1, <2>3, ConstantFacts DEF Inv, DestinationsArePermitted, Permitted
  <2> QED  BY <2>4, <2>6, <2>8, <2>9, <2>10, <2>11, Zenon DEF Inv
<1> QED  BY <1>2, <1>3, Zenon DEF Redirect

LEMMA ReceivePreservesInv ==
  ASSUME Inv, Receive
  PROVE  Inv'
<1> DEFINE class == Classify(call.tool.operation, call.status)
<1>1. /\ call.phase = "answered"
      /\ UNCHANGED <<clock, applied, reached, trusted>>
  BY Zenon DEF Receive
<1>2. End(Failed) \/ End("error") \/ End(class)
  BY Zenon DEF Receive
<1>3. /\ applied \in Nat /\ applied <= 1 + call.redirects
      /\ call.tool.operation # "pull.comment" => applied = 0
  BY <1>1 DEF Inv, TypeOK, ClassificationIsSound
<1>4. CASE End(Failed)
  BY <1>1, <1>4, FailedPreservesInv, Zenon DEF Calling
<1>5. CASE End("error")
  BY <1>1, <1>3, <1>5, EndPreservesInv DEF Outcomes
<1>6. CASE End(class)
  <2>1. /\ class \in Outcomes
        /\ class \in {"cancelled_pre_send", "transient_safe"} => applied = 0
        /\ call.redirects = 0 =>
             /\ class = "definitely_rejected" => applied = 0
             /\ class = "confirmed_success" /\ call.tool.operation = "pull.comment" => applied = 1
    BY <1>1, <1>3
    DEF Classify, ClassifyStatus, ClassifyCommentStatus, Outcomes, Inv, ProviderInv, Calling
  <2> QED  BY <1>1, <1>3, <1>6, <2>1, EndPreservesInv
<1> QED  BY <1>2, <1>4, <1>5, <1>6, Zenon

LEMMA ReleasePreservesInv ==
  ASSUME Inv, Release
  PROVE  Inv'
<1>1. TypeOK'
  BY ConstantFacts DEF Inv, Release, TypeOK, Call, Idle, Paths
<1>2. ProviderInv' /\ RoutedInv' /\ LeaseInv'
  BY Zenon DEF Release, ProviderInv, RoutedInv, LeaseInv, Idle, Calling, First
<1>3. ClassificationIsSound' /\ CredentialStaysHome' /\ DestinationsArePermitted'
  BY ConstantFacts
  DEF Release, Idle, ClassificationIsSound, CredentialStaysHome, DestinationsArePermitted,
      Outcomes
<1> QED  BY <1>1, <1>2, <1>3, Zenon DEF Inv

LEMMA TickPreservesInv ==
  ASSUME Inv, Tick
  PROVE  Inv'
<1>1. TypeOK'
  BY ConstantFacts DEF Inv, Tick, TypeOK
<1>2. ProviderInv' /\ RoutedInv'
  BY Zenon DEF Inv, Tick, ProviderInv, RoutedInv, First
<1>3. LeaseInv'
  BY DEF Inv, Tick, TypeOK, Call, LeaseInv
<1>4. ClassificationIsSound' /\ CredentialStaysHome' /\ DestinationsArePermitted'
  BY Zenon DEF Inv, Tick, ClassificationIsSound, CredentialStaysHome, DestinationsArePermitted,
      Permitted
<1> QED  BY <1>1, <1>2, <1>3, <1>4, Zenon DEF Inv

LEMMA NextPreservesInv == Inv /\ [Next]_vars => Inv'
<1> SUFFICES ASSUME Inv, [Next]_vars PROVE Inv'
  OBVIOUS
<1>1. CASE UNCHANGED vars
  <2>1. /\ clock' = clock /\ call' = call
        /\ applied' = applied /\ reached' = reached /\ trusted' = trusted
    BY <1>1, Zenon DEF vars
  <2>2. TypeOK' /\ ProviderInv' /\ LeaseInv'
    BY <2>1, Zenon DEF Inv, TypeOK, ProviderInv, LeaseInv
  <2>3. RoutedInv'
    BY <2>1, Zenon DEF Inv, RoutedInv, First
  <2>4. ClassificationIsSound' /\ DestinationsArePermitted'
    BY <2>1, Zenon DEF Inv, ClassificationIsSound, DestinationsArePermitted, Permitted
  <2>5. CredentialStaysHome'
    BY <2>1, Zenon DEF Inv, CredentialStaysHome
  <2> QED  BY <2>2, <2>3, <2>4, <2>5, Zenon DEF Inv
<1>2. CASE ConnectFails
  BY <1>2, FailedPreservesInv, Zenon DEF ConnectFails, Calling
<1>3. CASE Lose
  BY <1>3, FailedPreservesInv, Zenon DEF Lose, Calling
<1> QED
  BY <1>1, <1>2, <1>3, ResolveCredentialPreservesInv, ExecutePreservesInv, ConnectPreservesInv,
     ServePreservesInv, RedirectPreservesInv, ReceivePreservesInv, ReleasePreservesInv,
     TickPreservesInv, Zenon
  DEF Next

(* The inductive invariant holds of every execution: from InitInv and      *)
(* NextPreservesInv.                                                       *)
THEOREM Invariance == Spec => []Inv
BY InitInv, NextPreservesInv, PTL DEF Spec

(* Whatever is lost, delayed, redirected, cancelled or done after the      *)
(* caller gave up, and for every limit on redirects: reads and calls that  *)
(* were cancelled before they were sent create nothing, a write creates at *)
(* most one comment for each POST, and the classification of an execution  *)
(* that followed no redirect is true of the provider.                      *)
THEOREM ClassificationSoundness == Spec => []ClassificationIsSound
BY Invariance, PTL DEF Inv

(* With any instances, bindings, redirects and addresses, the credential   *)
(* only goes to the authority that it was issued for, first for the        *)
(* repository the call was authorized for, and to nothing else where no    *)
(* redirect is followed.                                                   *)
THEOREM CredentialConfinement == Spec => []CredentialStaysHome
BY Invariance, PTL DEF Inv

(* With any names and answers to them, requests only reach permitted       *)
(* destinations.                                                           *)
THEOREM DestinationControl == Spec => []DestinationsArePermitted
BY Invariance, PTL DEF Inv

(* A step that hands out the secret takes it from a current capability.    *)
LEMMA SecretIsCurrent ==
  ASSUME Inv, [Next]_vars
  PROVE  [call.phase = "leased" /\ call'.phase = "sending" =>
            /\ call.token.issued <= clock + ClockSkew /\ clock < call.token.expires
            /\ call.binding.ttl > 0 => clock < call.resolved + call.binding.ttl]_vars
<1> SUFFICES ASSUME call.phase = "leased", call'.phase = "sending"
             PROVE  /\ call.token.issued <= clock + ClockSkew /\ clock < call.token.expires
                    /\ call.binding.ttl > 0 => clock < call.resolved + call.binding.ttl
  BY Zenon
<1>1. ASSUME NEW outcome, End(outcome) PROVE FALSE
  BY <1>1, Zenon DEF End, Inv, TypeOK, Call
<1>2. Execute
  <2>1. ~UNCHANGED vars
    BY Zenon DEF vars
  <2>2. ~\E tenant \in Tenants, tool \in Tools, arguments \in Arguments :
           ResolveCredential(tenant, tool, arguments)
    <3>1. call # Idle
      BY DEF Idle
    <3> QED  BY <3>1, Zenon DEF ResolveCredential
  <2>3. ~Tick
    BY Zenon DEF Tick
  <2> QED  BY <2>1, <2>2, <2>3, Zenon
           DEF Next, Connect, ConnectFails, Serve, Lose, Redirect, Receive, Release
<1>3. clock < call.expires
  BY <1>1, <1>2, Zenon DEF Execute, UseSecret
<1>4. /\ clock \in Nat /\ call.expires \in Nat /\ call.resolved \in Nat
      /\ call.token.issued \in Nat /\ call.token.expires \in Nat
      /\ call.binding.ttl \in Nat
  BY ConstantFacts DEF Inv, TypeOK, Call, RoutedInv, LeaseInv, Token, Binding
<1>5. /\ call.resolved <= clock
      /\ call.token.issued <= call.resolved + ClockSkew
      /\ call.expires <= call.token.expires
      /\ call.binding.ttl > 0 => call.expires <= call.resolved + call.binding.ttl
  BY Zenon DEF Inv, LeaseInv
<1>6. ASSUME NEW now \in Nat, NEW until \in Nat, NEW from \in Nat, NEW issued \in Nat,
             NEW expires \in Nat, NEW ttl \in Nat, NEW skew \in Nat,
             now < until, from <= now, issued <= from + skew, until <= expires,
             ttl > 0 => until <= from + ttl
      PROVE  issued <= now + skew /\ now < expires /\ (ttl > 0 => now < from + ttl)
  BY <1>6
<1>7. ClockSkew \in Nat
  BY ConstantFacts, Zenon
<1>8. /\ call.token.issued <= clock + ClockSkew /\ clock < call.token.expires
      /\ call.binding.ttl > 0 => clock < call.resolved + call.binding.ttl
  BY <1>3, <1>4, <1>5, <1>6, <1>7, SMTT(30)
<1> QED  BY <1>8

(* However long a call waits between the resolution of its credential and  *)
(* its use, the secret is handed out within the token's validity and the   *)
(* binding's TTL only.                                                     *)
THEOREM CredentialCurrency == Spec => CredentialIsCurrent
<1>1. Inv /\ [Next]_vars =>
        [call.phase = "leased" /\ call'.phase = "sending" =>
            /\ call.token.issued <= clock + ClockSkew /\ clock < call.token.expires
            /\ call.binding.ttl > 0 => clock < call.resolved + call.binding.ttl]_vars
  BY SecretIsCurrent, Zenon
<1> QED  BY <1>1, Invariance, PTL DEF Spec, CredentialIsCurrent
=============================================================================
