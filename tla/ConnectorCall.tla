---------------------------- MODULE ConnectorCall ----------------------------
(***************************************************************************)
(* One execution of a GitHub connector: the registry and the credential    *)
(* selection that route it, the credential read from a projected token,    *)
(* PullReader and CommentWriter, the shared HTTP client with its           *)
(* destination policy, and GitHub (internal/connectors,                    *)
(* internal/adapters/connectors/github, internal/adapters/credentials/     *)
(* kubernetes, internal/credentials/capability.go,                         *)
(* internal/app/credential_selection.go).                                  *)
(*                                                                         *)
(* The provider handles a request at a moment of its own: the answer can   *)
(* be lost, and the caller can be cancelled, before or after a comment is  *)
(* created.  Names resolve to other addresses at every connection, and     *)
(* servers redirect to other hosts and to other paths, also after they     *)
(* have acted.                                                             *)
(***************************************************************************)
EXTENDS Naturals, FiniteSets, ResourceProjection

CONSTANTS
  Tenants,
  Projections,      \* resource projections of tool versions
  Arguments,        \* canonical arguments: the members of a JSON object
  Tools,            \* trusted metadata: the connector binding and the retry class
  Instances,        \* connector instances, of all tenants
  Connectors,       \* operation -> the instance its executor was built with
  Bindings,         \* credential bindings
  Tokens,           \* what the token file holds at one time or another
  TrustedIssuers, MaxLifetime, ClockSkew,
  Repositories, PullNumbers, Comments,   \* the valid ones that callers name
  Hosts, AllowedHosts,
  Addresses, Prohibited, AllowPrivate,
  MaxRedirects, MaxBody,
  Bodies,           \* lengths of responses
  MaxTime,          \* bound on the clock
  Null

Operations == {"pull.get", "pull.comment"}

Outcomes == {"confirmed_success", "definitely_rejected", "transient_safe",
             "cancelled_pre_send", "unknown", "error"}

Tool == [operation : Operations \union {"other"}, selector : STRING, sideEffect : BOOLEAN,
         retry : STRING, projection : Projections]

(* ConnectorInstanceDefinition; its destination is a host and an owner.    *)
Instance == [id : STRING, tenant : Tenants, selector : STRING, host : Hosts, owner : STRING,
             enabled : BOOLEAN]

(* CredentialBindingDefinition.  skew only matters to the cache of         *)
(* credentials (CredentialCache).                                          *)
Binding == [tenant : Tenants, instance : STRING, tools : SUBSET Tools,
            kind : {"oauth_access_token", "api_token", "mtls", "signed_request"},
            audiences : SUBSET Hosts, resources : SUBSET (STRING \X Repositories),
            delegated : BOOLEAN, ttl : Nat, skew : Nat, enabled : BOOLEAN]

(* NewCredentialBinding.                                                   *)
ValidBinding(b) ==
  /\ b \in Binding
  /\ b.tools # {}
  /\ b.kind = "oauth_access_token" => b.audiences # {} \/ b.resources # {}
  /\ b.skew <= b.ttl

(* The claims of a projected token.                                        *)
Token == [issuer : STRING, audiences : SUBSET Hosts, issued : Nat, expires : Nat]

(* NewRegistry refuses an ambiguous selector and a duplicate identity.     *)
RegistryConfig ==
  /\ Instances \subseteq Instance
  /\ \A i, j \in Instances :
       i.tenant = j.tenant /\ (i.selector = j.selector \/ i.id = j.id) => i = j

(* newPullReader and newCommentWriter refuse an instance that is disabled. *)
ConnectorConfig ==
  /\ Connectors \in [Operations -> Instances]
  /\ \A o \in Operations : Connectors[o].enabled

(* compilePolicy.                                                          *)
PolicyConfig ==
  /\ AllowedHosts \subseteq Hosts /\ AllowedHosts # {}
  /\ AllowPrivate \in BOOLEAN
  /\ MaxRedirects \in Nat /\ MaxBody \in Nat \ {0}

(* The Kubernetes provider's New.                                          *)
ProviderConfig ==
  /\ TrustedIssuers # {}
  /\ MaxLifetime \in Nat \ {0} /\ ClockSkew \in Nat

ASSUME ConfigAssumption ==
  /\ RegistryConfig /\ ConnectorConfig /\ PolicyConfig /\ ProviderConfig
  /\ Tools \subseteq Tool /\ Tokens \subseteq Token
  /\ \A b \in Bindings : ValidBinding(b)
  /\ Prohibited \subseteq Addresses
  /\ Bodies \subseteq Nat /\ MaxTime \in Nat
  /\ Null \notin Outcomes

VARIABLES
  clock,
  call,      \* the execution
  applied,   \* history: how many comments it created
  reached,   \* history: (host, address) pairs that were sent a request
  trusted    \* history: where a request carried the credential to

vars == <<clock, call, applied, reached, trusted>>

(* Answers of the provider, by what the connectors tell apart.  created:   *)
(* 201.  rejected: a documented rejection (403, 404, 410, 422).            *)
(* throttled: 429.  moved and see_other redirect, the first one with the   *)
(* method and the body kept.                                               *)
Statuses == {"created", "ok", "rejected", "throttled", "server_error", "other"}

(* What the path of a request names: a repository, or something else.      *)
Paths == Repositories \union {Null}

(* repository: the one the execution is for.                               *)
(* expires: the end of the credential capability.  token and resolved      *)
(* (history): the token it was made of, and when.                          *)
(* host and path: where the request goes.  secret: whether it carries the  *)
(* credential.  writes: whether it is a POST.  to and at: the host and the *)
(* path it is redirected to.                                               *)
Call == [phase : {"idle", "leased", "sending", "sent", "answered", "redirected", "ended"},
         tenant : Tenants \union {Null},
         tool : Tools \union {Null}, binding : Bindings \union {Null}, expires : Nat,
         token : Tokens \union {Null}, resolved : Nat, redirects : 0..MaxRedirects,
         arguments : Arguments \union {Null}, repository : Repositories \union {Null},
         host : Hosts \union {Null}, path : Paths, secret : BOOLEAN, writes : BOOLEAN,
         status : Statuses \union {"moved", "see_other", Null}, to : Hosts \union {Null},
         at : Paths, outcome : Outcomes \union {Null}]

Idle == [phase |-> "idle", tenant |-> Null, tool |-> Null, binding |-> Null,
         expires |-> 0, token |-> Null, resolved |-> 0, redirects |-> 0, arguments |-> Null,
         repository |-> Null, host |-> Null, path |-> Null, secret |-> FALSE,
         writes |-> FALSE, status |-> Null, to |-> Null, at |-> Null, outcome |-> Null]

Init ==
  /\ clock = 0
  /\ call = Idle
  /\ applied = 0
  /\ reached = {}
  /\ trusted = {}

-----------------------------------------------------------------------------
(* Registry.Resolve: the enabled instance of the tenant that the tool's    *)
(* selector names.                                                         *)
Resolve(tenant, tool) ==
  {i \in Instances : /\ i.tenant = tenant /\ i.selector = tool.selector
                     /\ i.enabled /\ tool.operation \in DOMAIN Connectors}

(* SelectCredentialBinding: exactly one enabled binding matches.           *)
SelectBinding(tenant, instance, tool) ==
  LET matches == {b \in Bindings : /\ b.enabled /\ b.tenant = tenant
                                   /\ b.instance = instance.id /\ tool \in b.tools}
  IN  IF Cardinality(matches) = 1 THEN matches ELSE {}

(* PullReader.Execute: the tool is for its operation and instance.         *)
ReaderServes(connector, tool) ==
  tool.operation = "pull.get" /\ tool.selector = connector.selector

(* CommentWriter.Execute: it is also a side effect that is not retried.    *)
WriterServes(connector, tool) ==
  /\ tool.operation = "pull.comment" /\ tool.selector = connector.selector
  /\ tool.sideEffect /\ tool.retry = "non_retryable"

(* validCredential: audience and resource are those of the request.        *)
ValidCredential(connector, binding, repository) ==
  /\ binding.kind \in {"oauth_access_token", "api_token"}
  /\ connector.host \in binding.audiences
  /\ <<connector.owner, repository>> \in binding.resources

End(outcome) ==
  call' = [call EXCEPT !.phase = "ended", !.host = Null, !.path = Null, !.secret = FALSE,
                       !.writes = FALSE, !.status = Null, !.to = Null, !.at = Null,
                       !.outcome = outcome]

(* An error after the secured client was called: a write may have applied. *)
Failed == IF call.tool.operation = "pull.comment" THEN "unknown" ELSE "error"

(* parseClaims.                                                            *)
ParseClaims(token) == token.audiences # {} /\ token.issued < token.expires

ContainsAll(actual, expected) == expected # {} /\ expected \subseteq actual

(* Provider.Resolve, on the token it just read.                            *)
Usable(binding, token) ==
  /\ binding.kind = "api_token" /\ ~binding.delegated
  /\ ParseClaims(token)
  /\ token.issuer \in TrustedIssuers
  /\ ContainsAll(token.audiences, binding.audiences)
  /\ token.issued <= clock + ClockSkew /\ clock < token.expires
  /\ token.expires - token.issued <= MaxLifetime

(* Variant: until the token expires.                                       *)
TokenExpiry(binding, token) == token.expires

(* The capability ends with the token, or earlier with the binding's TTL.  *)
Expiry(binding, token) ==
  IF binding.ttl > 0 /\ clock + binding.ttl < token.expires
    THEN clock + binding.ttl ELSE token.expires

(* NewCapability.  A token that is issued within the tolerated skew ahead  *)
(* of the clock is refused if its binding's TTL ends before.               *)
ValidMetadata(issued, expires) == issued < expires /\ clock < expires

(* A call is projected and routed and its credential resolved.             *)
ResolveCredential(tenant, tool, arguments) ==
  /\ call = Idle
  /\ Projectable(tool.projection, arguments)
  /\ \E i \in Resolve(tenant, tool) : \E b \in SelectBinding(tenant, i, tool) :
       \E token \in Tokens :
         /\ Usable(b, token) /\ ValidMetadata(token.issued, Expiry(b, token))
         /\ call' = [Idle EXCEPT !.phase = "leased", !.tenant = tenant, !.tool = tool,
                                 !.binding = b, !.expires = Expiry(b, token),
                                 !.token = token, !.resolved = clock, !.arguments = arguments]
  /\ UNCHANGED <<clock, applied, reached, trusted>>

(* UseSecret hands the secret out until the capability ends.               *)
UseSecret == clock < call.expires

TargetFields == {"repository", "pull_number"}

(* decodeTarget; an absent field has a value that is not valid.  Members   *)
(* stand for the names that encoding/json matches, in any case of letters; *)
(* the number in quotes that json.Number accepts is left out.              *)
DecodeTarget(members) ==
  [f \in TargetFields |-> IF f \in DOMAIN members THEN members[f] ELSE Missing]

ValidTarget(target) ==
  /\ target["repository"].type = "string" /\ target["repository"].value \in Repositories
  /\ target["pull_number"].type = "number" /\ target["pull_number"].value \in PullNumbers

(* The projection has the target's fields and agrees with the arguments.   *)
ValidateTarget(arguments, projection) ==
  /\ DOMAIN projection \subseteq TargetFields /\ DOMAIN arguments \subseteq TargetFields
  /\ DecodeTarget(arguments) = DecodeTarget(projection)
  /\ ValidTarget(DecodeTarget(arguments))

(* The arguments of a comment also have a body, which is not too long.     *)
ValidateComment(arguments, projection) ==
  /\ DOMAIN projection \subseteq TargetFields
  /\ DOMAIN arguments \subseteq TargetFields \union {"body"} /\ "body" \in DOMAIN arguments
  /\ arguments["body"].type = "string" /\ arguments["body"].value \in Comments
  /\ DecodeTarget(arguments) = DecodeTarget(projection)
  /\ ValidTarget(DecodeTarget(arguments))

Named(tool, arguments) ==
  LET projection == Project(tool.projection, arguments)
  IN  IF tool.operation = "pull.comment" THEN ValidateComment(arguments, projection)
      ELSE ValidateTarget(arguments, projection)

(* Execute up to the call of the client, which goes to the host of the     *)
(* executor's instance.                                                    *)
Execute ==
  LET connector == Connectors[call.tool.operation]
      serves == ReaderServes(connector, call.tool) \/ WriterServes(connector, call.tool)
      repository == call.arguments["repository"].value
  IN  /\ call.phase = "leased"
      /\ \E cancelled \in BOOLEAN :
           IF ~serves THEN End("error")
           ELSE IF cancelled THEN End("cancelled_pre_send")
           ELSE IF /\ Named(call.tool, call.arguments)
                   /\ ValidCredential(connector, call.binding, repository) /\ UseSecret
             THEN call' = [call EXCEPT !.phase = "sending", !.host = connector.host,
                                       !.path = repository, !.secret = TRUE,
                                       !.repository = repository,
                                       !.writes = call.tool.operation = "pull.comment"]
             ELSE End("error")
      /\ UNCHANGED <<clock, applied, reached, trusted>>

-----------------------------------------------------------------------------
(* validateURL; a host stands for the whole authority.                     *)
ValidateURL(host) == host \in AllowedHosts

(* prohibitedAddress.                                                      *)
Permitted(address) == AllowPrivate \/ address \notin Prohibited

(* secureDialContext: every address of the answer has to be permitted.     *)
AllPermitted(answer) == answer # {} /\ \A a \in answer : Permitted(a)

(* Do checks the first request only; the others have passed checkRedirect. *)
(* The name resolves to whatever it does now, and the connection goes to   *)
(* an address of that very answer.                                         *)
Connect ==
  /\ call.phase = "sending"
  /\ call.redirects = 0 => ValidateURL(call.host)
  /\ \E answer \in SUBSET Addresses :
       /\ AllPermitted(answer)
       /\ \E a \in answer : reached' = reached \union {<<call.host, a>>}
  /\ call' = [call EXCEPT !.phase = "sent"]
  /\ trusted' = IF call.secret THEN trusted \union {<<call.host, call.path>>} ELSE trusted
  /\ UNCHANGED <<clock, applied>>

(* The destination is denied, no connection can be made, or the deadline   *)
(* passes or the caller cancels before the request is sent.                *)
ConnectFails ==
  /\ call.phase = "sending"
  /\ End(Failed)
  /\ UNCHANGED <<clock, applied, reached, trusted>>

(* What a POST can have done when it is answered: GitHub answers 201 if    *)
(* the comment exists and a documented rejection or 429 if it does not; of *)
(* any other answer, a redirect included, nothing is known.  A GET creates *)
(* nothing, whatever its answer.                                           *)
Effects(status) ==
  CASE ~call.writes -> {0}
    [] call.writes /\ status = "created" -> {1}
    [] call.writes /\ status \in {"rejected", "throttled"} -> {0}
    [] OTHER -> {0, 1}

(* The provider (external) handles the request.                            *)
Serve ==
  /\ call.phase = "sent"
  /\ \/ \E status \in Statuses :
          /\ call' = [call EXCEPT !.phase = "answered", !.status = status]
          /\ \E n \in Effects(status) : applied' = applied + n
     \/ \E status \in {"moved", "see_other"}, to \in Hosts, at \in Paths :
          /\ call' = [call EXCEPT !.phase = "redirected", !.status = status, !.to = to, !.at = at]
          /\ \E n \in Effects(status) : applied' = applied + n
  /\ UNCHANGED <<clock, reached, trusted>>

(* The request or its answer is lost, a timeout expires, the caller        *)
(* cancels, or the connection breaks.  The provider may have acted before, *)
(* and it may still act on a request that was sent.                        *)
Lose ==
  /\ call.phase \in {"sent", "answered", "redirected"}
  /\ End(Failed)
  /\ \/ UNCHANGED applied
     \/ call.phase = "sent" /\ call.writes /\ applied' = applied + 1
  /\ UNCHANGED <<clock, reached, trusted>>

(* Variant: the credential goes along.                                     *)
ForwardsAlways(host, to) == TRUE

(* sameAuthority: a redirect to another authority loses the credential;    *)
(* net/http may restore the headers of the first request on the way back.  *)
Forwards(host, to) == host = to

(* Variant: the target of a redirect is not checked.                       *)
MayFollowAnywhere(via, to) == via <= MaxRedirects

(* What checkRedirect asks of a redirect: via counts the requests made so  *)
(* far.  The path of the target is not looked at.                          *)
MayFollow(via, to) == via <= MaxRedirects /\ ValidateURL(to)

(* checkRedirect.  net/http repeats a POST after 307 and 308 ("moved") and *)
(* follows 301, 302 and 303 with a GET.                                    *)
Redirect ==
  LET via == call.redirects + 1
  IN  /\ call.phase = "redirected"
      /\ \/ /\ MayFollow(via, call.to)
            /\ \E keep \in BOOLEAN :
                 call' = [call EXCEPT
                   !.phase = "sending", !.redirects = via, !.host = call.to, !.path = call.at,
                   !.secret = keep /\ Forwards(Connectors[call.tool.operation].host, call.to),
                   !.writes = call.writes /\ call.status = "moved",
                   !.status = Null, !.to = Null, !.at = Null]
         \/ ~MayFollow(via, call.to) /\ End(Failed)
      /\ UNCHANGED <<clock, applied, reached, trusted>>

(* Variant: a server error counts as a rejection.                          *)
RejectionsAndErrors == {"rejected", "throttled", "server_error"}

(* The statuses that prove that a write was not applied.                   *)
Rejections == {"rejected", "throttled"}

ClassifyCommentStatus(status) ==
  CASE status = "created" -> "confirmed_success"
    [] status \in Rejections -> "definitely_rejected"
    [] OTHER -> "unknown"

ClassifyStatus(status) ==
  CASE status = "ok" -> "confirmed_success"
    [] status \in {"throttled", "server_error"} -> "transient_safe"
    [] OTHER -> "definitely_rejected"

Classify(operation, status) ==
  IF operation = "pull.comment" THEN ClassifyCommentStatus(status) ELSE ClassifyStatus(status)

(* boundedBody ends a body that is too long, also when it is read.         *)
TooLong(length) == length > MaxBody

(* The client refuses a declared length above the limit.  Only the body of *)
(* a success is read and decoded (decodePull, decodeComment).              *)
Receive ==
  /\ call.phase = "answered"
  /\ \E length \in Bodies, declared \in BOOLEAN, wellFormed \in BOOLEAN :
       LET class == Classify(call.tool.operation, call.status)
       IN  End(IF declared /\ TooLong(length) THEN Failed
               ELSE IF class = "confirmed_success" /\ (TooLong(length) \/ ~wellFormed)
               THEN "error"
               ELSE class)
  /\ UNCHANGED <<clock, applied, reached, trusted>>

(* The capability is released; the next execution begins.                  *)
Release ==
  /\ call.phase = "ended"
  /\ call' = Idle
  /\ applied' = 0 /\ reached' = {} /\ trusted' = {}
  /\ UNCHANGED clock

Tick ==
  /\ clock < MaxTime
  /\ clock' = clock + 1
  /\ UNCHANGED <<call, applied, reached, trusted>>

Next ==
  \/ \E tenant \in Tenants, tool \in Tools, arguments \in Arguments :
       ResolveCredential(tenant, tool, arguments)
  \/ Execute \/ Connect \/ ConnectFails \/ Serve \/ Lose \/ Redirect \/ Receive \/ Release
  \/ Tick

Spec == Init /\ [][Next]_vars

-----------------------------------------------------------------------------
(* The variables keep their types.                                         *)
TypeOK ==
  /\ clock \in 0..MaxTime
  /\ call \in Call
  /\ applied \in Nat
  /\ reached \subseteq Hosts \X Addresses
  /\ trusted \subseteq Hosts \X Paths

(* What an outcome says of the provider, wherever the execution was cut    *)
(* off and whatever the provider did after the caller gave up.  A call     *)
(* that was cancelled before it was sent, and every read, creates nothing; *)
(* each POST of a write creates at most one comment.  If no redirect was   *)
(* followed, which is so wherever MaxRedirects is 0, definitely_rejected   *)
(* means that no comment was created and a confirmed write that exactly    *)
(* one was.  After a redirect the answer classified is that of the last    *)
(* request alone, and neither is claimed (CommentWriter.Execute,           *)
(* classifyCommentStatus, classifyStatus).                                 *)
ClassificationIsSound ==
  /\ call.phase # "idle" /\ call.tool.operation # "pull.comment" => applied = 0
  /\ call.outcome \in {"cancelled_pre_send", "transient_safe"} => applied = 0
  /\ applied <= 1 + call.redirects
  /\ call.redirects = 0 =>
       /\ call.outcome = "definitely_rejected" => applied = 0
       /\ call.outcome = "confirmed_success" /\ call.tool.operation = "pull.comment" =>
            applied = 1

(* The credential is sent to the authority of the executor's instance      *)
(* only, and only if it is the calling tenant's and was issued for that    *)
(* authority and for the repository of the execution, although executors   *)
(* are found by operation and tenants use the same selectors.  That        *)
(* repository is the one of the projection, for which the call was         *)
(* authorized, whatever the tool version projects, and the path of the     *)
(* first request names it.  A redirect that stays on the authority takes   *)
(* the credential to the path the authority chose; without one, the        *)
(* authorized repository is the only place it goes to (Resolve,            *)
(* validCredential, validateTarget, validateComment, checkRedirect).       *)
CredentialStaysHome ==
  trusted # {} =>
    LET connector == Connectors[call.tool.operation]
    IN  /\ \A t \in trusted : t[1] = connector.host
        /\ <<connector.host, call.repository>> \in trusted
        /\ call.redirects = 0 => trusted = {<<connector.host, call.repository>>}
        /\ call.binding.tenant = call.tenant
        /\ connector.host \in call.binding.audiences
        /\ <<connector.owner, call.repository>> \in call.binding.resources
        /\ Project(call.tool.projection, call.arguments)["repository"].value =
             call.repository

(* A secret is used while its token is valid and its binding's TTL since   *)
(* the resolution has not passed, however long the call waited for it.     *)
CredentialIsCurrent ==
  [][call.phase = "leased" /\ call'.phase = "sending" =>
       /\ call.token.issued <= clock + ClockSkew /\ clock < call.token.expires
       /\ call.binding.ttl > 0 => clock < call.resolved + call.binding.ttl]_vars

(* Requests reach allowed hosts at permitted addresses, after at most      *)
(* MaxRedirects redirects, whatever names resolve to meanwhile.            *)
DestinationsArePermitted ==
  /\ \A r \in reached : r[1] \in AllowedHosts /\ Permitted(r[2])
  /\ call.redirects <= MaxRedirects
=============================================================================
