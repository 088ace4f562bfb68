--------------------------- MODULE CredentialCache ---------------------------
(***************************************************************************)
(* The credential cache (internal/credentials/cache.go): Resolve with      *)
(* single-flight loads, expiry, revocation, provider epochs and            *)
(* least-recently-used eviction, beside evictions, epoch changes and Close.*)
(* A step is a critical section of cache.mu, a use of a capability (which  *)
(* has its own lock), a read of the clock or the provider's answer.        *)
(***************************************************************************)
EXTENDS Integers, Sequences

CONSTANTS
  Callers,     \* concurrent Resolve calls
  Requests,    \* [binding, run, revision]: definition and governed context
  Epochs,      \* provider epochs of the one provider type
  NoEpoch,     \* the epoch before the first SetProviderEpoch
  MaxEntries,
  MaximumTTL,  \* the smaller of the cache's and the binding's
  ExpirySkew,  \* the larger of the cache's and the binding's
  Lifetime,    \* how long the provider's capabilities are valid
  MaxLoads,    \* bound on the provider calls explored
  Null

ASSUME CacheAssumption ==
  /\ NoEpoch \in Epochs
  /\ MaxEntries \in Nat \ {0}
  /\ MaximumTTL \in Nat \ {0}
  /\ ExpirySkew \in 0..MaximumTTL - 1
  /\ Lifetime \in Nat
  /\ MaxLoads \in Nat

VARIABLES
  entries,   \* cached keys in the order of lastUsed, the oldest first
  sources,   \* capabilities returned by the provider, in order
  inflight,  \* the load that is under way for a key
  epoch,     \* providerEpochs of the provider type
  closed,
  callers,   \* the Resolve calls
  loads,     \* number of provider calls
  clock

vars == <<entries, sources, inflight, epoch, closed, callers, loads, clock>>

(* credentialCacheKey: everything a capability depends on.                 *)
Key == [request : Requests, epoch : Epochs]

(* An entry is [key, source, expires], a source [key, loaded, expires,     *)
(* released].  Of a call: now, the clock as it was read last; load, the    *)
(* load it runs or waits for; source, the capability it holds; good, that  *)
(* prepareEntry succeeded; fresh, that the capability was just loaded;     *)
(* during (history), the epochs since it began.                            *)
NoCall == [phase |-> "idle", request |-> Null, now |-> 0, key |-> Null, load |-> 0,
           source |-> 0, good |-> FALSE, fresh |-> FALSE, during |-> {}]

Init ==
  /\ entries = <<>>
  /\ sources = <<>>
  /\ inflight = [k \in Key |-> 0]
  /\ epoch = NoEpoch
  /\ closed = FALSE
  /\ callers = [c \in Callers |-> NoCall]
  /\ loads = 0
  /\ clock = 0

-----------------------------------------------------------------------------
(* The entries of a list; they are told apart by their capabilities.       *)
Listed(list) == {list[i] : i \in DOMAIN list}

Cached == Listed(entries)

Held(some) == {e.source : e \in some}

(* Capability.Release erases what the capability held.                     *)
Erase(some) ==
  sources' = [i \in DOMAIN sources |->
                IF i \in some
                  THEN [key |-> sources[i].key, loaded |-> 0, expires |-> 0, released |-> TRUE]
                  ELSE sources[i]]

(* delete(entries, ...), the others in their order.                        *)
Without(list, some) ==
  LET kept[n \in 0..Len(list)] ==
        IF n = 0 THEN <<>>
        ELSE IF list[n] \in some THEN kept[n - 1] ELSE Append(kept[n - 1], list[n])
  IN  kept[Len(list)]

(* Entries are deleted, each with the Release of its capability.           *)
Evict(some) ==
  /\ entries' = Without(entries, some)
  /\ Erase(Held(some))

(* Resolve returns a capability (Clone) or an error (everywhere else).     *)
Return(c) == callers' = [callers EXCEPT ![c] = NoCall]

(* Resolve begins, or goes round its loop: it reads the clock.             *)
Begin(c, r) ==
  /\ callers[c].phase = "idle"
  /\ callers' = [callers EXCEPT ![c] = [NoCall EXCEPT !.phase = "lookup", !.request = r,
                                                      !.now = clock, !.during = {epoch}]]
  /\ UNCHANGED <<entries, sources, inflight, epoch, closed, loads, clock>>

Again(c) ==
  callers' = [callers EXCEPT ![c] =
                [NoCall EXCEPT !.phase = "lookup", !.request = callers[c].request,
                               !.now = clock, !.during = callers[c].during]]

(* removeRevokedLocked and removeExpiredLocked.                            *)
Stale(q, e) ==
  \/ /\ e.key.request.binding = q.request.binding
     /\ e.key.request.revision # q.request.revision
  \/ e.expires <= q.now

(* Variant: a miss does not look for a load under way.                     *)
JoinNever(k) == FALSE

Join(k) == inflight[k] # 0

(* The first critical section of Resolve: a hit, a wait or a miss.         *)
Lookup(c) ==
  LET q == callers[c]
      k == [request |-> q.request, epoch |-> epoch]
      gone == {e \in Cached : Stale(q, e)}
      kept == Without(entries, gone)
      hits == {i \in DOMAIN kept : kept[i].key = k}
  IN  /\ q.phase = "lookup"
      /\ IF closed
           THEN /\ Return(c)
                /\ UNCHANGED <<entries, sources, inflight, loads>>
           ELSE
           /\ Erase(Held(gone))
           /\ \/ \E i \in hits :
                   /\ entries' = Append(Without(kept, {kept[i]}), kept[i])
                   /\ callers' = [callers EXCEPT ![c] =
                                    [q EXCEPT !.phase = "cloning", !.key = k, !.now = 0,
                                              !.source = kept[i].source, !.fresh = FALSE]]
                   /\ UNCHANGED <<inflight, loads>>
              \/ /\ hits = {} /\ Join(k)
                 /\ entries' = kept
                 /\ callers' = [callers EXCEPT ![c] =
                                  [q EXCEPT !.phase = "waiting", !.key = k, !.now = 0, !.load = inflight[k]]]
                 /\ UNCHANGED <<inflight, loads>>
              \/ /\ hits = {} /\ ~Join(k)
                 /\ loads < MaxLoads
                 /\ entries' = kept
                 /\ loads' = loads + 1
                 /\ inflight' = [inflight EXCEPT ![k] = loads + 1]
                 /\ callers' = [callers EXCEPT ![c] =
                                  [q EXCEPT !.phase = "loading", !.key = k, !.now = 0, !.load = loads + 1]]
      /\ UNCHANGED <<epoch, closed, clock>>

(* The channel of the load it waits for is closed.                         *)
Wake(c) ==
  /\ callers[c].phase = "waiting"
  /\ inflight[callers[c].key] # callers[c].load
  /\ Again(c)
  /\ UNCHANGED <<entries, sources, inflight, epoch, closed, loads, clock>>

(* The caller's context ends while it waits.                               *)
Cancel(c) ==
  /\ callers[c].phase = "waiting"
  /\ Return(c)
  /\ UNCHANGED <<entries, sources, inflight, epoch, closed, loads, clock>>

(* prepareEntry: the metadata match and the entry would not expire at once.*)
Prepared(answer) == answer = "matching" /\ Lifetime > ExpirySkew

(* provider.Resolve, outside the lock: an error or no capability, one for  *)
(* something else, or the one that was asked for.                          *)
Load(c) ==
  /\ callers[c].phase = "loading"
  /\ \E answer \in {"none", "mismatched", "matching"} :
       /\ sources' = IF answer = "none" THEN sources
                     ELSE Append(sources, [key |-> callers[c].key, loaded |-> clock,
                                           expires |-> clock + Lifetime, released |-> FALSE])
       /\ callers' = [callers EXCEPT ![c] =
                        [callers[c] EXCEPT !.phase = "loaded", !.good = Prepared(answer),
                           !.source = IF answer = "none" THEN 0 ELSE Len(sources) + 1]]
  /\ UNCHANGED <<entries, inflight, epoch, closed, loads, clock>>

(* What must hold for a load to be stored.                                 *)
Storable(q) == q.good /\ ~closed /\ q.key.epoch = epoch

(* evictLRULocked: the least recently used entries beyond the limit.       *)
Oldest(list) == {list[i] : i \in 1..Len(list) - MaxEntries}

(* Variant: the capability of a load that is not stored is forgotten.      *)
ReleasedByStoreNone(q, list) == Held(Oldest(list))

(* The capabilities released with the store: evicted, or not stored.       *)
ReleasedByStore(q, list) ==
  Held(Oldest(list)) \union (IF Storable(q) THEN {} ELSE {q.source})

(* Variant: a failed load does not take itself off the table.              *)
LandedIfGood(q) == IF q.good THEN [inflight EXCEPT ![q.key] = 0] ELSE inflight

(* delete(inflight, key) and close(ready), on every path.                  *)
Landed(q) == [inflight EXCEPT ![q.key] = 0]

(* The second critical section of Resolve.                                 *)
Store(c) ==
  LET q == callers[c]
      s == sources[q.source]
      until == IF s.expires - ExpirySkew < s.loaded + MaximumTTL
                 THEN s.expires - ExpirySkew ELSE s.loaded + MaximumTTL
      others == Without(entries, {e \in Cached : e.key = q.key})
      list == IF Storable(q)
                THEN Append(others, [key |-> q.key, source |-> q.source, expires |-> until])
                ELSE entries
  IN  /\ q.phase = "loaded"
      /\ inflight' = Landed(q)
      /\ entries' = Without(list, Oldest(list))
      /\ Erase(ReleasedByStore(q, list))
      /\ IF Storable(q)
           THEN callers' = [callers EXCEPT ![c] = [q EXCEPT !.phase = "cloning", !.fresh = TRUE]]
           ELSE Return(c)
      /\ UNCHANGED <<epoch, closed, loads, clock>>

(* Variant: whatever the lookup found is handed out.                       *)
CloneableAlways(s) == TRUE

(* cloneCapability fails if the source was released or has expired.        *)
Cloneable(s) == ~s.released /\ clock < s.expires

Clone(c) ==
  LET q == callers[c]
  IN  /\ q.phase = "cloning"
      /\ IF Cloneable(sources[q.source])
           THEN Return(c)
           ELSE callers' = [callers EXCEPT ![c] = [q EXCEPT !.phase = "dropping"]]
      /\ UNCHANGED <<entries, sources, inflight, epoch, closed, loads, clock>>

(* removeEntry, if the entry is still the same; a fresh one is an error.   *)
Drop(c) ==
  LET q == callers[c]
  IN  /\ q.phase = "dropping"
      /\ Evict({e \in Cached : e.key = q.key /\ e.source = q.source})
      /\ IF q.fresh THEN Return(c) ELSE Again(c)
      /\ UNCHANGED <<inflight, epoch, closed, loads, clock>>

EvictBinding(b) ==
  /\ Evict({e \in Cached : e.key.request.binding = b})
  /\ UNCHANGED <<inflight, epoch, closed, callers, loads, clock>>

EvictRun(r) ==
  /\ Evict({e \in Cached : e.key.request.run = r})
  /\ UNCHANGED <<inflight, epoch, closed, callers, loads, clock>>

SetProviderEpoch(e) ==
  /\ ~closed
  /\ epoch # e
  /\ epoch' = e
  /\ Evict(Cached)
  /\ callers' = [c \in Callers |->
                   IF callers[c].phase = "idle" THEN callers[c]
                   ELSE [callers[c] EXCEPT !.during = @ \union {e}]]
  /\ UNCHANGED <<inflight, closed, loads, clock>>

Close ==
  /\ closed' = TRUE
  /\ Evict(Cached)
  /\ UNCHANGED <<inflight, epoch, callers, loads, clock>>

(* Time passes while some capability that is not released is valid.        *)
Tick ==
  /\ \E i \in DOMAIN sources : ~sources[i].released /\ clock < sources[i].expires
  /\ clock' = clock + 1
  /\ UNCHANGED <<entries, sources, inflight, epoch, closed, callers, loads>>

Next ==
  \/ \E c \in Callers, r \in Requests : Begin(c, r)
  \/ \E c \in Callers : Lookup(c)
  \/ \E c \in Callers : Wake(c)
  \/ \E c \in Callers : Cancel(c)
  \/ \E c \in Callers : Load(c)
  \/ \E c \in Callers : Store(c)
  \/ \E c \in Callers : Clone(c)
  \/ \E c \in Callers : Drop(c)
  \/ \E r \in Requests : EvictBinding(r.binding)
  \/ \E r \in Requests : EvictRun(r.run)
  \/ \E e \in Epochs : SetProviderEpoch(e)
  \/ Close
  \/ Tick

Spec == Init /\ [][Next]_vars

-----------------------------------------------------------------------------
(* Secrets do not leak: a capability that was not released is in the cache *)
(* or with the one caller that is loading it, and what is in the cache was *)
(* not released, whatever evictions, epoch changes and Close race with     *)
(* loads and clones.  The cache is within its limit, and empty once        *)
(* closed, also when a load ends after Close.                              *)
SourcesAreOwned ==
  /\ \A i \in DOMAIN sources : ~sources[i].released =>
       \/ \E j \in DOMAIN entries : entries[j].source = i
       \/ \E c \in Callers : callers[c].phase = "loaded" /\ callers[c].source = i
  /\ \A j \in DOMAIN entries : ~sources[entries[j].source].released
  /\ Len(entries) <= IF closed THEN 0 ELSE MaxEntries

(* One provider call per key at a time (the single flight of Resolve).     *)
SingleFlight ==
  \A b, c \in Callers :
    /\ callers[b].phase \in {"loading", "loaded"}
    /\ callers[c].phase \in {"loading", "loaded"}
    /\ callers[b].key = callers[c].key
    => b = c

(* What a caller is given was loaded for its own binding, run and          *)
(* revision, under a provider epoch that was current during its call: no   *)
(* race with SetProviderEpoch brings back a capability of an epoch that    *)
(* ended before the call began.                                            *)
HandedOutIsCurrent ==
  [][\A c \in Callers :
       callers[c].phase = "cloning" /\ callers'[c].phase = "idle" =>
         LET s == sources[callers[c].source]
         IN  /\ ~s.released
             /\ s.key.request = callers[c].request
             /\ s.key.epoch \in callers[c].during]_vars
=============================================================================
