---------------------------- MODULE PublicRequest ----------------------------
(***************************************************************************)
(* The way of a request through the gateway's HTTP server to the           *)
(* application and back (internal/adapters/http/server.go,                 *)
(* internal/authn): a permit of the admission limit, the bearer token, the *)
(* signing key of its issuer, the claims, the body's identity hints and    *)
(* the workload certificate.                                               *)
(*                                                                         *)
(* The keys of the issuer are cached.  The issuer's lock is held while     *)
(* they are looked up and while they are fetched, so requests queue behind *)
(* a refresh; meanwhile time passes and the issuer rotates its keys.       *)
(***************************************************************************)
EXTENDS Integers, FiniteSets

CONSTANTS
  Requests,       \* concurrent connections
  Submissions,    \* what a client can send
  Kids,           \* key IDs of the issuer
  KeySets,        \* the key sets it publishes at one time or another
  Unsupported,    \* the ones of keys that parseJWK refuses
  Tenants, Trusted, Workloads,
  HasWorkload,    \* the authenticator has a source of workload identities
  MaxConcurrent, MaxKeys, RefreshAfter, MaxStale, ClockSkew,
  MaxTime,        \* bound on the clock
  MaxRotations,   \* bound on the changes of the issuer's key set
  Null

(* limited: the path is under /v1/.  oversized: its declared length is out *)
(* of bounds.  exempt: the path is served without authentication.  forged: *)
(* it has a header that only the gateway sets.                             *)
(* bearers: the values of its Authorization header.  wellFormed: the token *)
(* has a header and a payload, a known issuer and an allowed algorithm.    *)
(* signed: its signature is that of the key with this ID.  addressed: its  *)
(* audience and resource are the gateway's.  starts and expires: the times *)
(* before and after which it is not valid.  tenants: the values of the     *)
(* claims that name the tenant.  readable: its body, where it is JSON, is  *)
(* within bodyLimit and arrives whole.  hint: the tenant named in it.      *)
(* leaves: the leaf certificates of the verified chains.                   *)
Submission == [limited : BOOLEAN, oversized : BOOLEAN, exempt : BOOLEAN, forged : BOOLEAN,
               bearers : Nat, wellFormed : BOOLEAN, kid : Kids, signed : BOOLEAN,
               addressed : BOOLEAN, starts : Nat, expires : Nat, tenants : SUBSET Tenants,
               readable : BOOLEAN, hint : Tenants \union {Null}, leaves : SUBSET Workloads]

(* maxConcurrentPublicRequests.                                            *)
ServerConfig == MaxConcurrent \in Nat \ {0}

(* NewOIDCProvider.                                                        *)
ProviderConfig ==
  /\ RefreshAfter \in Nat \ {0} /\ MaxStale \in Nat /\ ClockSkew \in Nat
  /\ MaxKeys \in Nat \ {0}

(* NewMTLSWorkloadSource.                                                  *)
WorkloadConfig == Trusted \subseteq Workloads /\ Trusted # {}

ASSUME ConfigAssumption ==
  /\ ServerConfig /\ ProviderConfig /\ WorkloadConfig /\ HasWorkload \in BOOLEAN
  /\ Submissions \subseteq Submission /\ \A s \in Submissions : IsFiniteSet(s.tenants)
  /\ Unsupported \subseteq Kids /\ KeySets \subseteq SUBSET Kids
  /\ MaxTime \in Nat /\ MaxRotations \in Nat
  /\ Null \notin Tenants \union Requests \union Submissions \union Nat

VARIABLES
  clock,
  published,   \* the issuer's key set
  withdrawn,   \* history: when each key was last removed from it
  rotations,   \* changes of it so far
  keys,        \* issuer.keys
  loaded,      \* issuer.loaded
  lock,        \* issuer.mu
  permits,     \* taken permits of the admission limit
  requests

vars == <<clock, published, withdrawn, rotations, keys, loaded, lock, permits, requests>>

(* now is what key() read from the clock, fetched the key set it fetched.  *)
(* steady (history): the token's key was published since the request came. *)
Request == [phase : {"idle", "screening", "locking", "refreshing", "installing", "verifying",
                     "application"},
            sent : Submissions \union {Null}, permit : BOOLEAN, now : Nat,
            fetched : SUBSET Kids, steady : BOOLEAN, principal : Tenants \union {Null}]

Idle == [phase |-> "idle", sent |-> Null, permit |-> FALSE, now |-> 0, fetched |-> {},
         steady |-> FALSE, principal |-> Null]

Init ==
  /\ clock = 0
  /\ published \in KeySets
  /\ withdrawn = [k \in Kids |-> Null]
  /\ rotations = 0
  /\ keys = {}
  /\ loaded = Null
  /\ lock = Null
  /\ permits = 0
  /\ requests = [r \in Requests |-> Idle]

-----------------------------------------------------------------------------
Become(r, new) == requests' = [requests EXCEPT ![r] = new]

(* Variant: a request refused by its length or headers keeps its permit.   *)
AnswerKeepingPermit(r) ==
  /\ Become(r, Idle)
  /\ permits' = IF requests[r].permit /\ requests[r].phase # "screening"
                  THEN permits - 1 ELSE permits

(* A response is written, also by recoverPanics; the deferred receive      *)
(* returns the permit.                                                     *)
Answer(r) ==
  /\ Become(r, Idle)
  /\ permits' = IF requests[r].permit THEN permits - 1 ELSE permits

(* A request arrives; under /v1/ it needs a permit and does not wait for   *)
(* one.                                                                    *)
Arrive(r, s) ==
  /\ requests[r].phase = "idle"
  /\ IF s.limited /\ permits >= MaxConcurrent
       THEN Answer(r)
       ELSE /\ permits' = IF s.limited THEN permits + 1 ELSE permits
            /\ Become(r, [Idle EXCEPT !.phase = "screening", !.sent = s,
                                      !.permit = s.limited, !.steady = s.kid \in published])
  /\ UNCHANGED <<clock, published, withdrawn, rotations, keys, loaded, lock>>

(* publicRequestLimits: the declared length of a limited request.          *)
WithinLimits(s) == s.limited => ~s.oversized

HasForgedHeader(s) == s.forged

BearerToken(s) == s.bearers = 1

(* Verify, before the key is looked up.                                    *)
SplitToken(s) == s.wellFormed

Authenticable(s) == ~HasForgedHeader(s) /\ BearerToken(s) /\ SplitToken(s)

(* The limits, and Authenticate up to the lookup of the key: an exempt     *)
(* path goes to its handler without a principal.                           *)
Screen(r) ==
  LET s == requests[r].sent
      next == IF s.exempt THEN "application" ELSE "locking"
  IN  /\ requests[r].phase = "screening"
      /\ IF WithinLimits(s) /\ (s.exempt \/ Authenticable(s))
           THEN /\ Become(r, [requests[r] EXCEPT !.phase = next])
                /\ UNCHANGED permits
           ELSE Answer(r)
      /\ UNCHANGED <<clock, published, withdrawn, rotations, keys, loaded, lock>>

(* A cached key that was loaded at most limit before now.                  *)
Usable(kid, now, limit) == kid \in keys /\ loaded # Null /\ now - loaded <= limit

(* key(), up to the refresh: with the lock held, a known and fresh key is  *)
(* returned.                                                               *)
TakeLock(r) ==
  LET kid == requests[r].sent.kid
  IN  /\ requests[r].phase = "locking"
      /\ lock = Null
      /\ IF Usable(kid, clock, RefreshAfter)
           THEN /\ Become(r, [requests[r] EXCEPT !.phase = "verifying", !.now = clock])
                /\ UNCHANGED lock
           ELSE /\ Become(r, [requests[r] EXCEPT !.phase = "refreshing", !.now = clock])
                /\ lock' = r
      /\ UNCHANGED <<clock, published, withdrawn, rotations, keys, loaded, permits>>

(* The issuer answers with the keys it publishes at that moment.           *)
FetchKeys(r) ==
  /\ requests[r].phase = "refreshing"
  /\ Become(r, [requests[r] EXCEPT !.phase = "installing", !.fetched = published])
  /\ UNCHANGED <<clock, published, withdrawn, rotations, keys, loaded, lock, permits>>

(* Variant: the age of the keys is counted from their arrival.             *)
LoadedAtArrival(r) == clock

(* The keys count as loaded when the refresh began.                        *)
LoadedAt(r) == requests[r].now

(* Variant: the key is looked for where it was not found before.           *)
FoundBefore(kid, fetched) == kid \in keys

FoundAfter(kid, fetched) == kid \in fetched

ParseJWK(kid) == kid \notin Unsupported

(* refresh replaces the cached keys as a whole, if their number is within  *)
(* the limits and each of them can be used; a token whose key is not among *)
(* them is invalid.                                                        *)
Install(r) ==
  LET fetched == requests[r].fetched
  IN  /\ requests[r].phase = "installing"
      /\ Cardinality(fetched) \in 1..MaxKeys
      /\ \A kid \in fetched : ParseJWK(kid)
      /\ keys' = fetched
      /\ loaded' = LoadedAt(r)
      /\ lock' = Null
      /\ IF FoundAfter(requests[r].sent.kid, fetched)
           THEN /\ Become(r, [requests[r] EXCEPT !.phase = "verifying", !.fetched = {}])
                /\ UNCHANGED permits
           ELSE Answer(r)
      /\ UNCHANGED <<clock, published, withdrawn, rotations>>

(* Variant: a refresh that failed is tried again, with the lock held.      *)
RefreshUntilItSucceeds(r) ==
  /\ requests[r].phase \in {"refreshing", "installing"}
  /\ Become(r, [requests[r] EXCEPT !.phase = "refreshing", !.fetched = {}])
  /\ UNCHANGED <<clock, published, withdrawn, rotations, keys, loaded, lock, permits>>

(* The refresh fails, by the network, a timeout or what was fetched, and   *)
(* the lock is released.  A known key is used within the stale window,     *)
(* otherwise the identity provider is unavailable.                         *)
RefreshFails(r) ==
  /\ requests[r].phase \in {"refreshing", "installing"}
  /\ lock' = Null
  /\ IF Usable(requests[r].sent.kid, requests[r].now, RefreshAfter + MaxStale)
       THEN /\ Become(r, [requests[r] EXCEPT !.phase = "verifying", !.fetched = {}])
            /\ UNCHANGED permits
       ELSE Answer(r)
  /\ UNCHANGED <<clock, published, withdrawn, rotations, keys, loaded>>

VerifySignature(s) == s.signed

(* validateClaims reads the clock again.                                   *)
ValidateClaims(s) ==
  /\ s.addressed
  /\ clock < s.expires + ClockSkew
  /\ s.starts <= clock + ClockSkew

(* principalFromClaims: the claims that name a tenant name the same one.   *)
UniqueStringClaim(values) == Cardinality(values) = 1

Principal(s) == CHOOSE t \in s.tenants : TRUE

CheckBodyIdentityHints(s) == s.readable /\ s.hint \in {Null, Principal(s)}

(* All verified chains have the same leaf, with one trusted SPIFFE ID.     *)
VerifiedLeaf(s) == Cardinality(s.leaves) = 1

ValidSPIFFEID(w) == w \in Trusted

ResolveWorkload(s) == VerifiedLeaf(s) /\ \A w \in s.leaves : ValidSPIFFEID(w)

Genuine(s) ==
  /\ VerifySignature(s)
  /\ ValidateClaims(s)
  /\ UniqueStringClaim(s.tenants)
  /\ CheckBodyIdentityHints(s)
  /\ HasWorkload => ResolveWorkload(s)

Verify(r) ==
  LET s == requests[r].sent
  IN  /\ requests[r].phase = "verifying"
      /\ IF Genuine(s)
           THEN /\ Become(r, [requests[r] EXCEPT !.phase = "application", !.now = 0,
                                                 !.principal = Principal(s)])
                /\ UNCHANGED permits
           ELSE Answer(r)
      /\ UNCHANGED <<clock, published, withdrawn, rotations, keys, loaded, lock>>

(* The application answers, fails or panics.                               *)
Handle(r) ==
  /\ requests[r].phase = "application"
  /\ Answer(r)
  /\ UNCHANGED <<clock, published, withdrawn, rotations, keys, loaded, lock>>

Tick ==
  /\ clock < MaxTime
  /\ clock' = clock + 1
  /\ UNCHANGED <<published, withdrawn, rotations, keys, loaded, lock, permits, requests>>

(* The issuer changes the keys it publishes.                               *)
Rotate ==
  /\ rotations < MaxRotations
  /\ \E new \in KeySets \ {published} :
       /\ published' = new
       /\ withdrawn' = [k \in Kids |-> IF k \in new THEN Null
                                      ELSE IF k \in published THEN clock ELSE withdrawn[k]]
       /\ requests' = [r \in Requests |->
                         IF requests[r].sent = Null THEN requests[r]
                         ELSE [requests[r] EXCEPT !.steady = @ /\ requests[r].sent.kid \in new]]
  /\ rotations' = rotations + 1
  /\ UNCHANGED <<clock, keys, loaded, lock, permits>>

Next ==
  \/ \E r \in Requests, s \in Submissions : Arrive(r, s)
  \/ \E r \in Requests :
       Screen(r) \/ TakeLock(r) \/ FetchKeys(r) \/ Install(r) \/ RefreshFails(r) \/ Verify(r) \/ Handle(r)
  \/ Tick
  \/ Rotate

Spec == Init /\ [][Next]_vars

-----------------------------------------------------------------------------
(* No permit is lost or returned twice on any way out of a request, and    *)
(* there are never more than the limit (publicRequestLimits).              *)
PermitsAreReturned ==
  /\ permits = Cardinality({r \in Requests : requests[r].permit})
  /\ permits <= MaxConcurrent

(* A key that verifies a token was published by the issuer at most         *)
(* RefreshAfter + MaxStale before its lookup, whatever the issuer rotated  *)
(* and however long a refresh took or failed; and a handler runs for the   *)
(* one tenant that the claims name, or, on an exempt path only, for none   *)
(* (key, refresh, Authenticate).                                           *)
IdentityIsRecent ==
  \A r \in Requests :
    LET s == requests[r].sent
    IN  /\ requests[r].phase = "verifying" =>
             \/ s.kid \in published
             \/ /\ withdrawn[s.kid] # Null
                /\ withdrawn[s.kid] >= requests[r].now - (RefreshAfter + MaxStale)
        /\ requests[r].phase = "application" =>
             \/ s.exempt /\ requests[r].principal = Null
             \/ s.tenants = {requests[r].principal} /\ s.hint \in {Null, requests[r].principal}

(* A genuine token whose key is published all the time is not refused as   *)
(* invalid because of a rotation, an outage or another request's refresh:  *)
(* its request is handled, or the identity provider is unavailable (key:   *)
(* after a refresh the key is looked up again).                            *)
GenuineIsNotRefused ==
  [][\A r \in Requests :
       /\ requests[r].phase \in {"locking", "refreshing", "installing", "verifying"}
       /\ requests'[r].phase = "idle"
       /\ requests[r].steady
       /\ Genuine(requests[r].sent)
       => RefreshFails(r)]_vars
=============================================================================
