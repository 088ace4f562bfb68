------------------------- MODULE PublicRequest_proofs -------------------------
(* Proofs about the way of a request to the application, for any number of *)
(* connections, any clients, keys and rotations of them, and any limits.   *)
EXTENDS PublicRequest, FiniteSetTheorems, TLAPS

(* Requests that hold a permit of the admission limit.                     *)
Permitted == {r \in Requests : requests[r].permit}

(* The phases in which a request holds the issuer's lock.                  *)
Refreshing == {"refreshing", "installing"}

(* A key that the issuer publishes, or published at t or later.            *)
PublishedSince(k, t) ==
  k \in published \/ (withdrawn[k] # Null /\ withdrawn[k] >= t)

TypeOK ==
  /\ clock \in Nat
  /\ published \in SUBSET Kids
  /\ withdrawn \in [Kids -> Nat \union {Null}]
  /\ keys \in SUBSET Kids
  /\ loaded \in Nat \union {Null}
  /\ requests \in [Requests -> Request]

(* The cached keys were published when they count as loaded, or later.     *)
KeysInv ==
  loaded # Null => loaded <= clock /\ \A k \in keys : PublishedSince(k, loaded)

(* The issuer's lock is with the one request that refreshes.               *)
LockInv == \A r \in Requests : requests[r].phase \in Refreshing <=> lock = r

(* The permits are counted, and within the limit.                          *)
PermitInv ==
  /\ IsFiniteSet(Permitted)
  /\ permits = Cardinality(Permitted)
  /\ permits <= MaxConcurrent

(* What a request knows.                                                   *)
RequestInv(q) ==
  /\ q.now <= clock
  /\ q.phase = "idle" => ~q.permit
  /\ q.phase # "idle" => q.sent \in Submissions
  /\ q.phase # "idle" /\ q.steady => q.sent.kid \in published
  /\ q.phase = "installing" => \A k \in q.fetched : PublishedSince(k, q.now)
  /\ q.phase = "installing" /\ q.steady => q.sent.kid \in q.fetched
  /\ q.phase = "verifying" => PublishedSince(q.sent.kid, q.now - (RefreshAfter + MaxStale))
  /\ q.phase = "screening" => q.principal = Null
  /\ q.phase = "application" =>
       \/ q.sent.exempt /\ q.principal = Null
       \/ q.sent.tenants = {q.principal} /\ q.sent.hint \in {Null, q.principal}

(* The inductive invariant of the requests.                                *)
IInv ==
  /\ TypeOK
  /\ KeysInv
  /\ LockInv
  /\ PermitInv
  /\ \A r \in Requests : RequestInv(requests[r])

-----------------------------------------------------------------------------
(* A connection without a request.                                         *)
LEMMA IdleOK ==
  ASSUME clock \in Nat
  PROVE  Idle \in Request /\ RequestInv(Idle) /\ Idle.phase = "idle" /\ ~Idle.permit
  <1>1. Idle \in Request
    BY DEF Idle, Request
  <1>2. Idle.phase = "idle" /\ ~Idle.permit /\ Idle.now = 0
    BY DEF Idle
  <1> QED
    BY <1>1, <1>2 DEF RequestInv

(* The first state satisfies the invariant.                                *)
LEMMA InitInv == Init => IInv
  <1> SUFFICES ASSUME Init PROVE IInv
    OBVIOUS
  <1>1. clock \in Nat /\ \A r \in Requests : requests[r] = Idle
    BY DEF Init
  <1>2. TypeOK
    BY <1>1, IdleOK, ConfigAssumption DEF Init, TypeOK
  <1>3. KeysInv
    BY DEF Init, KeysInv
  <1>4. LockInv
    BY <1>1, IdleOK, ConfigAssumption DEF Init, LockInv, Refreshing
  <1>5. Permitted = {}
    BY <1>1, IdleOK DEF Permitted
  <1>6. PermitInv
    <2>1. permits = 0 /\ MaxConcurrent \in Nat
      BY ConfigAssumption DEF Init, ServerConfig
    <2> QED
      BY <1>5, <2>1, FS_EmptySet DEF PermitInv
  <1>7. \A r \in Requests : RequestInv(requests[r])
    BY <1>1, IdleOK
  <1> QED
    BY <1>2, <1>3, <1>4, <1>6, <1>7 DEF IInv

(* What is known of a request.                                             *)
LEMMA Known ==
  ASSUME IInv, NEW r \in Requests
  PROVE  /\ requests[r] \in Request /\ RequestInv(requests[r])
         /\ clock \in Nat /\ requests[r].now \in Nat /\ requests[r].fetched \in SUBSET Kids
         /\ requests[r].permit \in BOOLEAN /\ requests[r].steady \in BOOLEAN
         /\ RefreshAfter \in Nat /\ MaxStale \in Nat
         /\ requests[r].phase # "idle" =>
              /\ requests[r].sent \in Submissions /\ requests[r].sent.kid \in Kids
  <1>1. requests[r] \in Request /\ RequestInv(requests[r]) /\ clock \in Nat
    BY DEF IInv, TypeOK
  <1>2. /\ requests[r].now \in Nat /\ requests[r].fetched \in SUBSET Kids
        /\ requests[r].permit \in BOOLEAN /\ requests[r].steady \in BOOLEAN
    BY <1>1 DEF Request
  <1>3. RefreshAfter \in Nat /\ MaxStale \in Nat
    BY ConfigAssumption DEF ProviderConfig
  <1>4. requests[r].phase # "idle" => requests[r].sent \in Submissions
    BY <1>1 DEF RequestInv
  <1>5. \A s \in Submissions : s.kid \in Kids
    BY ConfigAssumption DEF Submission
  <1> QED
    BY <1>1, <1>2, <1>3, <1>4, <1>5

(* A step of one request that keeps its permit.                            *)
LEMMA PermitKept ==
  ASSUME IInv, NEW r \in Requests, NEW q \in Request, Become(r, q),
         q.permit = requests[r].permit, permits' = permits
  PROVE  PermitInv'
  <1>1. \A b \in Requests : requests'[b] = IF b = r THEN q ELSE requests[b]
    BY DEF IInv, TypeOK, Become
  <1>2. Permitted' = Permitted
    BY <1>1 DEF Permitted
  <1> QED
    BY <1>2 DEF IInv, PermitInv

(* The deferred receive returns the permit of an answered request.         *)
LEMMA PermitReturned ==
  ASSUME IInv, NEW r \in Requests, Answer(r)
  PROVE  PermitInv'
  <1>1. \A b \in Requests : requests'[b] = IF b = r THEN Idle ELSE requests[b]
    BY DEF IInv, TypeOK, Answer, Become
  <1>2. Permitted' = Permitted \ {r}
    BY <1>1, IdleOK DEF Permitted, IInv, TypeOK
  <1>3. r \in Permitted <=> requests[r].permit
    BY DEF Permitted
  <1>4. permits' = IF r \in Permitted THEN permits - 1 ELSE permits
    BY <1>3 DEF Answer
  <1>5. /\ IsFiniteSet(Permitted \ {r})
        /\ Cardinality(Permitted \ {r}) =
             IF r \in Permitted THEN Cardinality(Permitted) - 1 ELSE Cardinality(Permitted)
    BY FS_RemoveElement, Zenon DEF IInv, PermitInv
  <1>6. permits = Cardinality(Permitted) /\ Cardinality(Permitted) \in Nat
    BY FS_CardinalityType DEF IInv, PermitInv
  <1>7. permits <= MaxConcurrent /\ MaxConcurrent \in Nat
    BY ConfigAssumption DEF IInv, PermitInv, ServerConfig
  <1>8. permits' = Cardinality(Permitted \ {r}) /\ permits' <= MaxConcurrent
    BY <1>4, <1>5, <1>6, <1>7
  <1> QED
    BY <1>2, <1>5, <1>8 DEF PermitInv

(* A step of one request that neither takes nor releases the lock.         *)
LEMMA LockKept ==
  ASSUME IInv, NEW r \in Requests, NEW q \in Request, Become(r, q), lock' = lock,
         q.phase \in Refreshing <=> requests[r].phase \in Refreshing
  PROVE  LockInv'
  <1>1. \A b \in Requests : requests'[b] = IF b = r THEN q ELSE requests[b]
    BY DEF IInv, TypeOK, Become
  <1> QED
    BY <1>1 DEF IInv, LockInv

(* A step of one request that releases the lock.                           *)
LEMMA LockReleased ==
  ASSUME IInv, NEW r \in Requests, NEW q \in Request, Become(r, q), lock' = Null,
         q.phase \notin Refreshing, requests[r].phase \in Refreshing
  PROVE  LockInv'
  <1>1. \A b \in Requests : requests'[b] = IF b = r THEN q ELSE requests[b]
    BY DEF IInv, TypeOK, Become
  <1> QED
    BY <1>1, ConfigAssumption DEF IInv, LockInv

(* A step of one request at one moment, when the rest is as the invariant  *)
(* asks.                                                                   *)
LEMMA OneRequest ==
  ASSUME IInv, NEW r \in Requests, NEW q \in Request, Become(r, q), RequestInv(q),
         UNCHANGED <<clock, published, withdrawn>>,
         keys' \in SUBSET Kids, loaded' \in Nat \union {Null},
         KeysInv', LockInv', PermitInv'
  PROVE  IInv'
  <1>1. \A b \in Requests : requests'[b] = IF b = r THEN q ELSE requests[b]
    BY DEF IInv, TypeOK, Become
  <1>2. TypeOK'
    BY DEF IInv, TypeOK, Become
  <1>3. ASSUME NEW b \in Requests PROVE RequestInv(requests[b])'
    <2> PICK p : p = requests'[b]
      OBVIOUS
    <2>1. RequestInv(p)
      BY <1>1 DEF IInv
    <2> QED
      BY <2>1, Zenon DEF RequestInv, PublishedSince
  <1> QED
    BY <1>2, <1>3 DEF IInv

(* The cached keys at a moment at which nothing of them changes.           *)
LEMMA KeysKept ==
  ASSUME IInv, UNCHANGED <<clock, published, withdrawn, keys, loaded>>
  PROVE  KeysInv' /\ keys' \in SUBSET Kids /\ loaded' \in Nat \union {Null}
  BY DEF IInv, TypeOK, KeysInv, PublishedSince

(* An answered request, with the lock kept or released.                    *)
LEMMA Answered ==
  ASSUME IInv, NEW r \in Requests, Answer(r),
         UNCHANGED <<clock, published, withdrawn>>,
         keys' \in SUBSET Kids, loaded' \in Nat \union {Null}, KeysInv',
         IF requests[r].phase \in Refreshing THEN lock' = Null ELSE lock' = lock
  PROVE  IInv'
  <1>1. Idle \in Request /\ RequestInv(Idle) /\ Idle.phase = "idle"
    BY IdleOK DEF IInv, TypeOK
  <1>2. Become(r, Idle) /\ Idle.phase \notin Refreshing
    BY <1>1 DEF Answer, Refreshing
  <1>3. LockInv'
    BY <1>1, <1>2, LockKept, LockReleased
  <1>4. PermitInv'
    BY PermitReturned
  <1> QED
    BY <1>1, <1>2, <1>3, <1>4, OneRequest

(* A request arrives, and takes a permit where it needs one.               *)
LEMMA ArriveInv ==
  ASSUME IInv, NEW r \in Requests, NEW s \in Submissions, Arrive(r, s)
  PROVE  IInv'
  <1>1. /\ requests[r].phase = "idle"
        /\ UNCHANGED <<clock, published, withdrawn, rotations, keys, loaded, lock>>
    BY DEF Arrive
  <1>2. KeysInv' /\ keys' \in SUBSET Kids /\ loaded' \in Nat \union {Null}
    BY <1>1, KeysKept
  <1>3. CASE s.limited /\ permits >= MaxConcurrent
    BY <1>1, <1>2, <1>3, Answered DEF Arrive, Refreshing
  <1>4. CASE ~(s.limited /\ permits >= MaxConcurrent)
    <2>1. s.limited \in BOOLEAN /\ s.kid \in Kids
      BY ConfigAssumption DEF Submission
    <2>2. PICK steady \in BOOLEAN : steady = (s.kid \in published)
      <3>1. (s.kid \in published) \in BOOLEAN
        OBVIOUS
      <3> QED
        BY <3>1, Zenon
    <2>3. PICK limited \in BOOLEAN : limited = s.limited
      BY <2>1, Zenon
    <2> DEFINE q == [Idle EXCEPT !.phase = "screening", !.sent = s, !.permit = limited,
                                 !.steady = steady]
    <2>4. Become(r, q) /\ permits' = IF limited THEN permits + 1 ELSE permits
      BY <1>4, <2>2, <2>3, Zenon DEF Arrive
    <2>5. Idle \in Request /\ Idle.now = 0 /\ Idle.principal = Null /\ clock \in Nat
      BY IdleOK DEF Idle, IInv, TypeOK
    <2>6. /\ q \in Request /\ q.phase = "screening" /\ q.sent = s /\ q.permit = limited
          /\ q.steady = steady /\ q.now = 0 /\ q.principal = Null
      BY <2>5, Zenon DEF Request
    <2> HIDE DEF q
    <2>7. RequestInv(q)
      <3>1. steady => s.kid \in published
        BY <2>2, Zenon
      <3> QED
        BY <2>5, <2>6, <3>1 DEF RequestInv
    <2>8. LockInv'
      BY <1>1, <2>4, <2>6, LockKept DEF Refreshing
    <2>9. PermitInv'
      <3>1. \A b \in Requests : requests'[b] = IF b = r THEN q ELSE requests[b]
        BY <2>4 DEF IInv, TypeOK, Become
      <3>2. ~requests[r].permit
        BY <1>1, Known DEF RequestInv
      <3>3. r \notin Permitted /\ Permitted' = IF limited THEN Permitted \union {r} ELSE Permitted
        BY <2>6, <3>1, <3>2 DEF Permitted
      <3>4. /\ IsFiniteSet(Permitted \union {r})
            /\ Cardinality(Permitted \union {r}) = Cardinality(Permitted) + 1
        BY <3>3, FS_AddElement DEF IInv, PermitInv
      <3>5. permits = Cardinality(Permitted) /\ Cardinality(Permitted) \in Nat
        BY FS_CardinalityType DEF IInv, PermitInv
      <3>6. limited => permits + 1 <= MaxConcurrent
        <4>1. MaxConcurrent \in Nat
          BY ConfigAssumption DEF ServerConfig
        <4>2. limited => ~(permits >= MaxConcurrent)
          BY <1>4, <2>3, Zenon
        <4> QED
          BY <3>5, <4>1, <4>2
      <3>7. CASE limited
        BY <2>4, <3>3, <3>4, <3>5, <3>6, <3>7 DEF PermitInv
      <3>8. CASE ~limited
        BY <2>4, <3>3, <3>8 DEF IInv, PermitInv
      <3> QED
        BY <3>7, <3>8
    <2> QED
      BY <1>1, <1>2, <2>4, <2>6, <2>7, <2>8, <2>9, OneRequest
  <1> QED
    BY <1>3, <1>4

(* The declared length, the headers and the form of the token.             *)
LEMMA ScreenInv ==
  ASSUME IInv, NEW r \in Requests, Screen(r)
  PROVE  IInv'
  <1>1. /\ requests[r].phase = "screening"
        /\ UNCHANGED <<clock, published, withdrawn, rotations, keys, loaded, lock>>
    BY DEF Screen
  <1>2. KeysInv' /\ keys' \in SUBSET Kids /\ loaded' \in Nat \union {Null}
    BY <1>1, KeysKept
  <1>3. CASE Answer(r)
    BY <1>1, <1>2, <1>3, Answered DEF Refreshing
  <1>4. ASSUME ~Answer(r) PROVE IInv'
    <2> PICK ph \in {"locking", "application"} :
          ph = IF requests[r].sent.exempt THEN "application" ELSE "locking"
      OBVIOUS
    <2> DEFINE q == [requests[r] EXCEPT !.phase = ph]
    <2>1. Become(r, q) /\ permits' = permits
      BY <1>4, Zenon DEF Screen
    <2>2. /\ q \in Request /\ q.phase = ph /\ q.sent = requests[r].sent
          /\ q.permit = requests[r].permit /\ q.steady = requests[r].steady
          /\ q.now = requests[r].now /\ q.principal = requests[r].principal
      BY Known DEF Request
    <2> HIDE DEF q
    <2>3. RequestInv(q)
      BY <1>1, <2>2, Known, Zenon DEF RequestInv
    <2>4. LockInv' /\ PermitInv'
      BY <1>1, <2>1, <2>2, LockKept, PermitKept, Zenon DEF Refreshing
    <2> QED
      BY <1>1, <1>2, <2>1, <2>2, <2>3, <2>4, OneRequest
  <1> QED
    BY <1>3, <1>4

(* key() takes the lock: a fresh key is returned, or a refresh begins.     *)
LEMMA TakeLockInv ==
  ASSUME IInv, NEW r \in Requests, TakeLock(r)
  PROVE  IInv'
  <1>1. /\ requests[r].phase = "locking" /\ lock = Null /\ permits' = permits
        /\ UNCHANGED <<clock, published, withdrawn, rotations, keys, loaded>>
    BY DEF TakeLock
  <1>2. KeysInv' /\ keys' \in SUBSET Kids /\ loaded' \in Nat \union {Null}
    BY <1>1, KeysKept
  <1>3. ASSUME NEW ph \in {"verifying", "refreshing"},
               Become(r, [requests[r] EXCEPT !.phase = ph, !.now = clock]),
               ph = "verifying" => Usable(requests[r].sent.kid, clock, RefreshAfter),
               lock' = IF ph = "verifying" THEN lock ELSE r
        PROVE  IInv'
    <2> DEFINE q == [requests[r] EXCEPT !.phase = ph, !.now = clock]
    <2>1. /\ q \in Request /\ q.phase = ph /\ q.sent = requests[r].sent
          /\ q.permit = requests[r].permit /\ q.steady = requests[r].steady
          /\ q.now = clock
      BY Known, Zenon DEF Request
    <2> HIDE DEF q
    <2>2. ph = "verifying" => PublishedSince(q.sent.kid, q.now - (RefreshAfter + MaxStale))
      <3> SUFFICES ASSUME ph = "verifying"
                   PROVE  PublishedSince(requests[r].sent.kid, clock - (RefreshAfter + MaxStale))
        BY <2>1
      <3> PICK kid \in Kids : kid = requests[r].sent.kid
        BY <1>1, Known
      <3>1. kid \in keys /\ loaded # Null /\ clock - loaded <= RefreshAfter
        BY <1>3 DEF Usable
      <3>2. PublishedSince(kid, loaded) /\ loaded \in Nat
        BY <3>1 DEF IInv, KeysInv, TypeOK
      <3>3. withdrawn[kid] \in Nat \union {Null}
        BY DEF IInv, TypeOK
      <3> QED
        BY <3>1, <3>2, <3>3, Known DEF PublishedSince
    <2>3. RequestInv(q)
      BY <1>1, <2>1, <2>2, Known DEF RequestInv
    <2>4. PermitInv'
      BY <1>1, <1>3, <2>1, PermitKept, Zenon DEF q
    <2>5. LockInv'
      <3>1. \A b \in Requests : requests'[b] = IF b = r THEN q ELSE requests[b]
        BY <1>3 DEF IInv, TypeOK, Become, q
      <3>2. \A b \in Requests : requests[b].phase \notin Refreshing
        BY <1>1, ConfigAssumption, Zenon DEF IInv, LockInv
      <3>3. Null \notin Requests
        BY ConfigAssumption
      <3> QED
        BY <1>1, <1>3, <2>1, <3>1, <3>2, <3>3 DEF LockInv, Refreshing
    <2> QED
      BY <1>1, <1>2, <1>3, <2>1, <2>3, <2>4, <2>5, OneRequest DEF q
  <1> QED
    BY <1>3 DEF TakeLock

(* The issuer answers a refresh.                                           *)
LEMMA FetchKeysInv ==
  ASSUME IInv, NEW r \in Requests, FetchKeys(r)
  PROVE  IInv'
  <1> DEFINE q == [requests[r] EXCEPT !.phase = "installing", !.fetched = published]
  <1>1. /\ requests[r].phase = "refreshing" /\ permits' = permits /\ Become(r, q)
        /\ UNCHANGED <<clock, published, withdrawn, rotations, keys, loaded, lock>>
    BY DEF FetchKeys
  <1>2. KeysInv' /\ keys' \in SUBSET Kids /\ loaded' \in Nat \union {Null}
    BY <1>1, KeysKept
  <1>3. published \in SUBSET Kids
    BY DEF IInv, TypeOK
  <1>4. /\ q \in Request /\ q.phase = "installing" /\ q.sent = requests[r].sent
        /\ q.permit = requests[r].permit /\ q.steady = requests[r].steady
        /\ q.now = requests[r].now /\ q.fetched = published
    BY <1>3, Known, Zenon DEF Request
  <1> HIDE DEF q
  <1>5. RequestInv(q)
    BY <1>1, <1>4, Known, Zenon DEF RequestInv, PublishedSince
  <1>6. LockInv' /\ PermitInv'
    BY <1>1, <1>4, LockKept, PermitKept, Zenon DEF Refreshing
  <1> QED
    BY <1>1, <1>2, <1>4, <1>5, <1>6, OneRequest

(* A request that leaves the refresh with a key.                           *)
LEMMA LeaveRefresh ==
  ASSUME IInv, NEW r \in Requests, requests[r].phase \in Refreshing,
         Become(r, [requests[r] EXCEPT !.phase = "verifying", !.fetched = {}]),
         PublishedSince(requests[r].sent.kid, requests[r].now - (RefreshAfter + MaxStale)),
         UNCHANGED <<clock, published, withdrawn, permits>>, lock' = Null,
         keys' \in SUBSET Kids, loaded' \in Nat \union {Null}, KeysInv'
  PROVE  IInv'
  <1> DEFINE q == [requests[r] EXCEPT !.phase = "verifying", !.fetched = {}]
  <1>1. /\ q \in Request /\ q.phase = "verifying" /\ q.sent = requests[r].sent
        /\ q.permit = requests[r].permit /\ q.steady = requests[r].steady
        /\ q.now = requests[r].now
    BY Known, Zenon DEF Request
  <1>2. Become(r, q)
    OBVIOUS
  <1> HIDE DEF q
  <1>3. requests[r].phase # "idle"
    BY DEF Refreshing
  <1>4. RequestInv(q)
    BY <1>1, <1>3, Known, Zenon DEF RequestInv
  <1>5. LockInv' /\ PermitInv'
    BY <1>1, <1>2, LockReleased, PermitKept DEF Refreshing
  <1> QED
    BY <1>1, <1>2, <1>4, <1>5, OneRequest

(* refresh replaces the cached keys.                                       *)
LEMMA InstallInv ==
  ASSUME IInv, NEW r \in Requests, Install(r)
  PROVE  IInv'
  <1>1. /\ requests[r].phase = "installing" /\ lock' = Null
        /\ keys' = requests[r].fetched /\ loaded' = requests[r].now
        /\ UNCHANGED <<clock, published, withdrawn, rotations>>
    BY DEF Install, LoadedAt
  <1>2. keys' \in SUBSET Kids /\ loaded' \in Nat \union {Null}
    BY <1>1, Known
  <1>3. KeysInv'
    BY <1>1, Known, Zenon DEF RequestInv, KeysInv, PublishedSince
  <1>4. requests[r].phase \in Refreshing
    BY <1>1 DEF Refreshing
  <1>5. CASE Answer(r)
    BY <1>1, <1>2, <1>3, <1>4, <1>5, Answered, Zenon
  <1>6. ASSUME ~Answer(r) PROVE IInv'
    <2>1. /\ Become(r, [requests[r] EXCEPT !.phase = "verifying", !.fetched = {}])
          /\ requests[r].sent.kid \in requests[r].fetched /\ permits' = permits
      BY <1>6 DEF Install, FoundAfter
    <2> PICK kid \in Kids : kid = requests[r].sent.kid
      BY <1>1, Known
    <2>2. PublishedSince(kid, requests[r].now)
      BY <1>1, <2>1, Known, Zenon DEF RequestInv
    <2>3. withdrawn[kid] \in Nat \union {Null}
      BY DEF IInv, TypeOK
    <2>4. PublishedSince(kid, requests[r].now - (RefreshAfter + MaxStale))
      BY <2>2, <2>3, Known DEF PublishedSince
    <2> QED
      BY <1>1, <1>2, <1>3, <1>4, <2>1, <2>4, LeaveRefresh, Zenon
  <1> QED
    BY <1>5, <1>6

(* A refresh fails; a known key is used within the stale window.           *)
LEMMA RefreshFailsInv ==
  ASSUME IInv, NEW r \in Requests, RefreshFails(r)
  PROVE  IInv'
  <1>1. /\ requests[r].phase \in Refreshing /\ requests[r].phase # "idle" /\ lock' = Null
        /\ UNCHANGED <<clock, published, withdrawn, rotations, keys, loaded>>
    BY DEF RefreshFails, Refreshing
  <1>2. KeysInv' /\ keys' \in SUBSET Kids /\ loaded' \in Nat \union {Null}
    BY <1>1, KeysKept
  <1>3. CASE Answer(r)
    BY <1>1, <1>2, <1>3, Answered
  <1>4. ASSUME ~Answer(r) PROVE IInv'
    <2>1. /\ Become(r, [requests[r] EXCEPT !.phase = "verifying", !.fetched = {}])
          /\ Usable(requests[r].sent.kid, requests[r].now, RefreshAfter + MaxStale)
          /\ permits' = permits
      BY <1>4 DEF RefreshFails
    <2> PICK kid \in Kids : kid = requests[r].sent.kid
      BY <1>1, Known
    <2>2. kid \in keys /\ loaded # Null /\ requests[r].now - loaded <= RefreshAfter + MaxStale
      BY <2>1 DEF Usable
    <2>3. PublishedSince(kid, loaded) /\ loaded \in Nat
      BY <2>2 DEF IInv, KeysInv, TypeOK
    <2>4. withdrawn[kid] \in Nat \union {Null}
      BY DEF IInv, TypeOK
    <2>5. PublishedSince(kid, requests[r].now - (RefreshAfter + MaxStale))
      BY <2>2, <2>3, <2>4, Known DEF PublishedSince
    <2> QED
      BY <1>1, <1>2, <2>1, <2>5, LeaveRefresh, Zenon
  <1> QED
    BY <1>3, <1>4

(* Authenticate, and the workload certificate.                             *)
LEMMA VerifyInv ==
  ASSUME IInv, NEW r \in Requests, Verify(r)
  PROVE  IInv'
  <1>1. /\ requests[r].phase = "verifying"
        /\ UNCHANGED <<clock, published, withdrawn, rotations, keys, loaded, lock>>
    BY DEF Verify
  <1>2. KeysInv' /\ keys' \in SUBSET Kids /\ loaded' \in Nat \union {Null}
    BY <1>1, KeysKept
  <1>3. CASE Answer(r)
    BY <1>1, <1>2, <1>3, Answered, Zenon DEF Refreshing
  <1>4. ASSUME ~Answer(r) PROVE IInv'
    <2> PICK s \in Submissions : s = requests[r].sent
      BY <1>1, Known
    <2> PICK p : p = Principal(s)
      OBVIOUS
    <2> DEFINE q == [requests[r] EXCEPT !.phase = "application", !.now = 0, !.principal = p]
    <2>1. Become(r, q) /\ Genuine(s) /\ permits' = permits
      BY <1>4 DEF Verify
    <2>2. s.tenants = {p}
      <3>1. Cardinality(s.tenants) = 1 /\ IsFiniteSet(s.tenants)
        BY <2>1, ConfigAssumption DEF Genuine, UniqueStringClaim
      <3>2. PICK t : s.tenants = {t}
        BY <3>1, FS_Singleton, Zenon
      <3> QED
        BY <3>2 DEF Principal
    <2>3. s.hint \in {Null, p}
      BY <2>1 DEF Genuine, CheckBodyIdentityHints
    <2>4. s.tenants \in SUBSET Tenants
      BY ConfigAssumption DEF Submission
    <2>5. p \in Tenants
      BY <2>2, <2>4
    <2>6. /\ q \in Request /\ q.phase = "application" /\ q.sent = s /\ q.now = 0
          /\ q.permit = requests[r].permit /\ q.steady = requests[r].steady
          /\ q.principal = p
      BY <2>5, Known, Zenon DEF Request
    <2> HIDE DEF q
    <2>7. RequestInv(q)
      BY <1>1, <2>2, <2>3, <2>6, Known DEF RequestInv
    <2>8. LockInv' /\ PermitInv'
      BY <1>1, <2>1, <2>6, LockKept, PermitKept, Zenon DEF Refreshing
    <2> QED
      BY <1>1, <1>2, <2>1, <2>6, <2>7, <2>8, OneRequest
  <1> QED
    BY <1>3, <1>4

(* The application answers.                                                *)
LEMMA HandleInv ==
  ASSUME IInv, NEW r \in Requests, Handle(r)
  PROVE  IInv'
  <1>1. /\ requests[r].phase = "application" /\ Answer(r)
        /\ UNCHANGED <<clock, published, withdrawn, rotations, keys, loaded, lock>>
    BY Zenon DEF Handle
  <1>2. KeysInv' /\ keys' \in SUBSET Kids /\ loaded' \in Nat \union {Null}
    BY <1>1, KeysKept
  <1> QED
    BY <1>1, <1>2, Answered, Zenon DEF Refreshing

(* Time passes.                                                            *)
LEMMA TickInv == IInv /\ Tick => IInv'
  <1> SUFFICES ASSUME IInv, Tick PROVE IInv'
    OBVIOUS
  <1>1. /\ clock' = clock + 1 /\ clock \in Nat
        /\ UNCHANGED <<published, withdrawn, keys, loaded, lock, permits, requests>>
    BY DEF Tick, IInv, TypeOK
  <1>2. TypeOK' /\ LockInv' /\ PermitInv'
    BY <1>1 DEF IInv, TypeOK, LockInv, PermitInv, Permitted
  <1>3. KeysInv'
    BY <1>1 DEF IInv, TypeOK, KeysInv, PublishedSince
  <1>4. ASSUME NEW r \in Requests PROVE RequestInv(requests[r])'
    <2>1. requests[r].now <= clock + 1
      BY <1>1, Known DEF RequestInv
    <2> QED
      BY <1>1, <2>1, Known, Zenon DEF RequestInv, PublishedSince
  <1> QED
    BY <1>2, <1>3, <1>4 DEF IInv

(* The issuer changes its keys: what was published since an earlier time   *)
(* still was.                                                              *)
LEMMA RotateInv == IInv /\ Rotate => IInv'
  <1> SUFFICES ASSUME IInv, Rotate PROVE IInv'
    OBVIOUS
  <1>1. PICK new \in KeySets :
          /\ published' = new
          /\ withdrawn' = [k \in Kids |-> IF k \in new THEN Null
                                         ELSE IF k \in published THEN clock ELSE withdrawn[k]]
          /\ requests' = [r \in Requests |->
                            IF requests[r].sent = Null THEN requests[r]
                            ELSE [requests[r] EXCEPT !.steady = @ /\ requests[r].sent.kid \in new]]
    BY DEF Rotate
  <1>2. UNCHANGED <<clock, keys, loaded, lock, permits>>
    BY DEF Rotate
  <1>3. new \in SUBSET Kids
    BY ConfigAssumption
  <1>4. clock \in Nat /\ withdrawn \in [Kids -> Nat \union {Null}]
    BY DEF IInv, TypeOK
  <1>5. ASSUME NEW k \in Kids, NEW t \in Int, t <= clock, PublishedSince(k, t)
        PROVE  PublishedSince(k, t)'
    <2>1. withdrawn'[k] = IF k \in new THEN Null
                          ELSE IF k \in published THEN clock ELSE withdrawn[k]
      BY <1>1
    <2>2. clock # Null
      BY <1>4, ConfigAssumption
    <2> QED
      BY <1>1, <1>4, <1>5, <2>1, <2>2 DEF PublishedSince
  <1>6. ASSUME NEW r \in Requests
        PROVE  /\ requests'[r] \in Request
               /\ requests'[r].phase = requests[r].phase /\ requests'[r].sent = requests[r].sent
               /\ requests'[r].permit = requests[r].permit /\ requests'[r].now = requests[r].now
               /\ requests'[r].fetched = requests[r].fetched
               /\ requests'[r].principal = requests[r].principal
               /\ requests[r].phase # "idle" /\ requests'[r].steady =>
                    requests[r].steady /\ requests[r].sent.kid \in new
    <2>1. CASE requests[r].sent = Null
      <3>1. requests'[r] = requests[r] /\ requests[r].phase = "idle"
        BY <1>1, <2>1, Known, ConfigAssumption
      <3> QED
        BY <3>1, Known
    <2>2. CASE requests[r].sent # Null
      <3>1. PICK steady \in BOOLEAN : steady = (requests[r].steady /\ requests[r].sent.kid \in new)
        BY Zenon
      <3>2. requests'[r] = [requests[r] EXCEPT !.steady = steady]
        BY <1>1, <2>2, <3>1, Zenon
      <3>3. steady => requests[r].steady /\ requests[r].sent.kid \in new
        BY <3>1, Zenon
      <3> QED
        BY <3>2, <3>3, Known DEF Request
    <2> QED
      BY <2>1, <2>2, Zenon
  <1>7. TypeOK'
    <2>1. requests' \in [Requests -> Request]
      BY <1>1, <1>6
    <2>2. withdrawn' \in [Kids -> Nat \union {Null}]
      BY <1>1, <1>4
    <2> QED
      BY <1>1, <1>2, <1>3, <2>1, <2>2 DEF IInv, TypeOK
  <1>8. KeysInv'
    BY <1>2, <1>5 DEF IInv, TypeOK, KeysInv
  <1>9. LockInv'
    BY <1>2, <1>6 DEF IInv, LockInv
  <1>10. PermitInv'
    <2>1. Permitted' = Permitted
      BY <1>6 DEF Permitted
    <2> QED
      BY <1>2, <2>1 DEF IInv, PermitInv
  <1>11. ASSUME NEW r \in Requests PROVE RequestInv(requests[r])'
    <2> PICK q : q = requests[r]
      OBVIOUS
    <2> PICK p : p = requests'[r]
      OBVIOUS
    <2>1. /\ p.phase = q.phase /\ p.sent = q.sent /\ p.permit = q.permit /\ p.now = q.now
          /\ p.fetched = q.fetched /\ p.principal = q.principal
          /\ p.phase # "idle" /\ p.steady => q.steady /\ q.sent.kid \in new
      BY <1>6, Zenon
    <2>2. /\ RequestInv(q) /\ q.now \in Nat /\ q.fetched \in SUBSET Kids
          /\ q.phase # "idle" => q.sent.kid \in Kids
      BY Known
    <2>3. q.phase = "installing" => \A k \in q.fetched : PublishedSince(k, q.now)'
      BY <1>5, <2>2 DEF RequestInv
    <2>4. q.phase = "verifying" => PublishedSince(q.sent.kid, q.now - (RefreshAfter + MaxStale))'
      <3>1. PICK t : t = q.now - (RefreshAfter + MaxStale)
        OBVIOUS
      <3>2. t \in Int /\ t <= clock
        BY <1>4, <2>2, <3>1, Known DEF RequestInv
      <3>3. q.phase = "verifying" => PublishedSince(q.sent.kid, t)
        BY <2>2, <3>1, Zenon DEF RequestInv
      <3>4. q.phase = "verifying" => PublishedSince(q.sent.kid, t)'
        BY <1>5, <2>2, <3>2, <3>3
      <3> QED
        BY <3>1, <3>4
    <2>5. RequestInv(p)'
      BY <1>1, <1>2, <2>1, <2>2, <2>3, <2>4 DEF RequestInv
    <2> QED
      BY <2>5
  <1> QED
    BY <1>7, <1>8, <1>9, <1>10, <1>11 DEF IInv

(* Every step keeps the invariant.                                         *)
LEMMA NextInv == IInv /\ [Next]_vars => IInv'
  <1> SUFFICES ASSUME IInv, [Next]_vars PROVE IInv'
    OBVIOUS
  <1>1. CASE UNCHANGED vars
    <2>1. UNCHANGED <<clock, published, withdrawn, keys, loaded, lock, permits, requests>>
      BY <1>1 DEF vars
    <2> QED
      BY <2>1, Zenon DEF IInv, TypeOK, KeysInv, LockInv, PermitInv, Permitted, RequestInv, PublishedSince
  <1> QED
    BY <1>1, ArriveInv, ScreenInv, TakeLockInv, FetchKeysInv, InstallInv, RefreshFailsInv,
       VerifyInv, HandleInv, TickInv, RotateInv DEF Next

-----------------------------------------------------------------------------
(* The invariant holds in every state of every behaviour.                  *)
THEOREM Invariance == Spec => []IInv
  <1> QED
    BY InitInv, NextInv, PTL DEF Spec

(* No permit of the admission limit is lost or returned twice, and the     *)
(* limit is kept (publicRequestLimits).                                    *)
THEOREM PermitsComeBack == Spec => []PermitsAreReturned
  <1>1. IInv => PermitsAreReturned
    BY DEF IInv, PermitInv, Permitted, PermitsAreReturned
  <1> QED
    BY <1>1, Invariance, PTL

(* A token is verified with a key that was published recently enough, and  *)
(* a handler runs for the tenant the claims name, or without one on an     *)
(* exempt path (key, refresh, Authenticate).                               *)
THEOREM IdentitiesAreRecent == Spec => []IdentityIsRecent
  <1>1. IInv => IdentityIsRecent
    BY Zenon DEF IInv, RequestInv, PublishedSince, IdentityIsRecent
  <1> QED
    BY <1>1, Invariance, PTL

(* At most one request refreshes the keys at a time, and it is the one     *)
(* that holds the issuer's lock (key).                                     *)
THEOREM OneRefreshAtATime ==
  Spec => [](\A b, c \in Requests :
               /\ requests[b].phase \in Refreshing
               /\ requests[c].phase \in Refreshing
               => b = c)
  <1>1. IInv => \A b, c \in Requests :
                  /\ requests[b].phase \in Refreshing
                  /\ requests[c].phase \in Refreshing
                  => b = c
    BY DEF IInv, LockInv
  <1> QED
    BY <1>1, Invariance, PTL

(* A genuine token whose key is published all the time is refused only     *)
(* when the identity provider is unavailable (key looks the key up again   *)
(* after a refresh).                                                       *)
THEOREM GenuineIsNeverRefused == Spec => GenuineIsNotRefused
  <1> DEFINE Refused(r) == /\ requests[r].phase \in {"locking", "refreshing", "installing", "verifying"}
                           /\ requests'[r].phase = "idle"
                           /\ requests[r].steady
                           /\ Genuine(requests[r].sent)
  <1>1. IInv /\ [Next]_vars => [\A r \in Requests : Refused(r) => RefreshFails(r)]_vars
    <2> SUFFICES ASSUME IInv, Next, NEW r \in Requests, Refused(r)
                 PROVE  RefreshFails(r)
      OBVIOUS
    <2>1. ASSUME NEW b \in Requests, NEW q, Become(b, q), q.phase # "idle" PROVE FALSE
      <3>1. requests'[r] = IF r = b THEN q ELSE requests[r]
        BY <2>1 DEF IInv, TypeOK, Become
      <3> QED
        BY <2>1, <3>1
    <2>2. ASSUME NEW b \in Requests, Answer(b) PROVE b = r
      BY <2>2 DEF IInv, TypeOK, Answer, Become
    <2>3. ASSUME NEW b \in Requests, NEW ph, ph # "idle"
          PROVE  [requests[b] EXCEPT !.phase = ph].phase # "idle"
      BY <2>3, Known DEF Request
    <2>4. ASSUME NEW b \in Requests, NEW s \in Submissions, Arrive(b, s) PROVE FALSE
      <3>1. [Idle EXCEPT !.phase = "screening", !.sent = s, !.permit = s.limited,
                         !.steady = s.kid \in published].phase # "idle"
        BY DEF Idle
      <3> QED
        BY <2>1, <2>2, <2>4, <3>1, Zenon DEF Arrive
    <2>5. ASSUME NEW b \in Requests, Screen(b) PROVE FALSE
      <3>1. PICK ph \in {"locking", "application"} :
              \/ Become(b, [requests[b] EXCEPT !.phase = ph])
              \/ Answer(b)
        BY <2>5, Zenon DEF Screen
      <3>2. b # r
        BY <2>5 DEF Screen
      <3> QED
        BY <2>1, <2>2, <2>3, <3>1, <3>2
    <2>6. ASSUME NEW b \in Requests, TakeLock(b) PROVE FALSE
      <3>1. \A ph \in {"verifying", "refreshing"} :
              [requests[b] EXCEPT !.phase = ph, !.now = clock].phase # "idle"
        BY Known DEF Request
      <3> QED
        BY <2>1, <2>6, <3>1, Zenon DEF TakeLock
    <2>7. ASSUME NEW b \in Requests, FetchKeys(b) PROVE FALSE
      <3>1. [requests[b] EXCEPT !.phase = "installing", !.fetched = published].phase # "idle"
        BY Known DEF Request
      <3> QED
        BY <2>1, <2>7, <3>1, Zenon DEF FetchKeys
    <2>8. ASSUME NEW b \in Requests
          PROVE  [requests[b] EXCEPT !.phase = "verifying", !.fetched = {}].phase # "idle"
      BY Known DEF Request
    <2>9. ASSUME NEW b \in Requests, Install(b) PROVE FALSE
      <3>1. Answer(b) /\ requests[b].sent.kid \notin requests[b].fetched
        BY <2>1, <2>8, <2>9, Zenon DEF Install, FoundAfter
      <3>2. b = r /\ requests[r].phase = "installing"
        BY <2>2, <2>9, <3>1 DEF Install
      <3> QED
        BY <3>1, <3>2, Known, Zenon DEF RequestInv
    <2>10. ASSUME NEW b \in Requests, RefreshFails(b) PROVE RefreshFails(r)
      BY <2>1, <2>2, <2>8, <2>10, Zenon DEF RefreshFails
    <2>11. ASSUME NEW b \in Requests, Verify(b) PROVE FALSE
      <3>1. [requests[b] EXCEPT !.phase = "application", !.now = 0,
                                !.principal = Principal(requests[b].sent)].phase # "idle"
        BY Known DEF Request
      <3>2. Answer(b) /\ ~Genuine(requests[b].sent)
        BY <2>1, <2>11, <3>1, Zenon DEF Verify
      <3> QED
        BY <2>2, <3>2, Zenon
    <2>12. ASSUME NEW b \in Requests, Handle(b) PROVE FALSE
      BY <2>2, <2>12 DEF Handle
    <2>13. ~Tick
      BY DEF Tick
    <2>14. ~Rotate
      <3> SUFFICES ASSUME Rotate PROVE FALSE
        OBVIOUS
      <3>1. PICK new :
              requests' = [b \in Requests |->
                             IF requests[b].sent = Null THEN requests[b]
                             ELSE [requests[b] EXCEPT !.steady = @ /\ requests[b].sent.kid \in new]]
        BY DEF Rotate
      <3>2. requests'[r] = requests[r] \/ \E w : requests'[r] = [requests[r] EXCEPT !.steady = w]
        BY <3>1, Zenon
      <3>3. requests'[r].phase = requests[r].phase
        BY <3>2, Known, Zenon DEF Request
      <3> QED
        BY <3>3
    <2> HIDE DEF Refused
    <2> QED
      BY <2>4, <2>5, <2>6, <2>7, <2>9, <2>10, <2>11, <2>12, <2>13, <2>14 DEF Next
  <1> QED
    BY <1>1, Invariance, PTL DEF Spec, GenuineIsNotRefused
=============================================================================
