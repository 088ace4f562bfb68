------------------------ MODULE CredentialCache_proofs ------------------------
(* Proofs about the credential cache, for any number of callers, any       *)
(* bindings, runs and revisions of them, any epochs, size and lifetimes.   *)
EXTENDS CredentialCache, WellFoundedInduction, TLAPS

Phases == {"idle", "lookup", "waiting", "loading", "loaded", "cloning", "dropping"}

Entry == [key : Key, source : Nat, expires : Int]

Source == [key : Key, loaded : Nat, expires : Nat, released : BOOLEAN]

Caller == [phase : Phases, request : Requests \union {Null}, now : Nat,
           key : Key \union {Null}, load : Nat, source : Nat, good : BOOLEAN,
           fresh : BOOLEAN, during : SUBSET Epochs]

TypeOK ==
  /\ entries \in Seq(Entry)
  /\ sources \in Seq(Source)
  /\ inflight \in [Key -> Nat]
  /\ epoch \in Epochs
  /\ closed \in BOOLEAN
  /\ callers \in [Callers -> Caller]
  /\ loads \in Nat
  /\ clock \in Nat

(* No capability is in two entries.                                        *)
Distinct(list) == \A i, j \in 1..Len(list) : list[i].source = list[j].source => i = j

(* What is in an entry is usable and was loaded for its key.               *)
EntryOK(e, srcs) ==
  /\ e.source \in 1..Len(srcs)
  /\ ~srcs[e.source].released
  /\ srcs[e.source].key = e.key

(* A call that is loading, from the miss to the second critical section.   *)
Loading(q) == q.phase \in {"loading", "loaded"}

(* A call has seen the current epoch, and its key is for its own request   *)
(* and an epoch it has seen.                                               *)
Knows(q, ep) ==
  /\ q.phase # "idle" => q.request \in Requests /\ ep \in q.during
  /\ Loading(q) \/ q.phase = "cloning" =>
       q.key \in Key /\ q.key.request = q.request /\ q.key.epoch \in q.during

(* While a call loads, its key is in flight.                               *)
Flies(q, table) == Loading(q) => table[q.key] # 0

(* While a call loads, its key is not in the cache; what it has loaded is  *)
(* usable and nobody else's, and what it clones was loaded for its key.    *)
Holds(q, cached, srcs) ==
  /\ Loading(q) => \A e \in cached : e.key # q.key
  /\ q.phase = "loaded" /\ q.good => q.source # 0
  /\ q.phase = "loaded" /\ q.source # 0 =>
       /\ q.source \in 1..Len(srcs)
       /\ ~srcs[q.source].released
       /\ srcs[q.source].key = q.key
       /\ \A e \in cached : e.source # q.source
  /\ q.phase = "cloning" => q.source \in 1..Len(srcs) /\ srcs[q.source].key = q.key

CallerInv(c) ==
  /\ Knows(callers[c], epoch)
  /\ Flies(callers[c], inflight)
  /\ Holds(callers[c], Cached, sources)

(* The capability i is in the cache, or with the call that loaded it.      *)
InCache(i, cached) == \E e \in cached : e.source = i

WithLoader(i, calls) ==
  \E c \in Callers : calls[c].phase = "loaded" /\ calls[c].source = i

(* A capability that was not released has an owner.                        *)
Owned ==
  \A i \in 1..Len(sources) :
    ~sources[i].released => InCache(i, Cached) \/ WithLoader(i, callers)

(* The inductive invariant of the cache.                                   *)
IInv ==
  /\ TypeOK
  /\ Distinct(entries)
  /\ \A e \in Cached : EntryOK(e, sources)
  /\ \A c \in Callers : CallerInv(c)
  /\ Owned
  /\ Len(entries) <= MaxEntries
  /\ closed => entries = <<>>
  /\ SingleFlight

-----------------------------------------------------------------------------
(* A set of natural numbers has a least member.                            *)
LEMMA LeastNumber ==
  ASSUME NEW T \in SUBSET Nat, T # {}
  PROVE  \E x \in T : \A y \in T : x <= y
  <1> DEFINE less == {ss \in Nat \X Nat : ss[1] < ss[2]}
  <1>1. IsWellFoundedOn(less, Nat)
    BY NatLessThanWellFounded, Zenon DEF OpToRel
  <1>2. PICK x \in T : \A y \in T : ~(<<y, x>> \in less)
    BY <1>1, WFMin, Zenon
  <1>3. ASSUME NEW y \in T, y < x PROVE FALSE
    <2>1. <<y, x>> \in Nat \X Nat /\ <<y, x>>[1] = y /\ <<y, x>>[2] = x
      OBVIOUS
    <2>2. <<y, x>> \in less
      BY <1>3, <2>1, Zenon
    <2> QED
      BY <1>2, <2>2
  <1> QED
    BY <1>3

(* A set with 0 and with every successor holds every number.               *)
LEMMA SetInduction ==
  ASSUME NEW S \in SUBSET Nat, 0 \in S, \A n \in S : n + 1 \in S
  PROVE  S = Nat
  <1> SUFFICES ASSUME S # Nat PROVE FALSE
    OBVIOUS
  <1>1. PICK x \in Nat \ S : \A y \in Nat \ S : x <= y
    BY LeastNumber, Zenon
  <1>2. x # 0 /\ x - 1 \in Nat
    BY <1>1
  <1>3. x - 1 \in S
    BY <1>1, <1>2
  <1> QED
    BY <1>3

(* One round of the loop that deletes entries.                             *)
Round(list, some, n, before) ==
  IF list[n] \in some THEN before ELSE Append(before, list[n])

(* f holds what the loop has kept after each of the first n entries.       *)
Loop(list, some, n, f) ==
  f = [i \in 0..n |-> IF i = 0 THEN <<>> ELSE Round(list, some, i, f[i - 1])]

(* There is such a function for every number of entries.                   *)
LEMMA LoopExists ==
  ASSUME NEW list, NEW some, NEW n \in Nat
  PROVE  \E f : Loop(list, some, n, f)
  <1> DEFINE S == {m \in Nat : \E f : Loop(list, some, m, f)}
  <1>1. 0 \in S
    <2> DEFINE f == [i \in 0..0 |-> <<>>]
    <2>1. Loop(list, some, 0, f)
      BY DEF Loop
    <2> QED
      BY <2>1
  <1>2. ASSUME NEW m \in S PROVE m + 1 \in S
    <2>1. PICK f : Loop(list, some, m, f)
      OBVIOUS
    <2> DEFINE g == [i \in 0..m + 1 |-> IF i = m + 1 THEN Round(list, some, m + 1, f[m]) ELSE f[i]]
    <2>2. ASSUME NEW i \in 0..m + 1
          PROVE  g[i] = IF i = 0 THEN <<>> ELSE Round(list, some, i, g[i - 1])
      <3>1. CASE i = m + 1
        BY <3>1
      <3>2. CASE i # m + 1
        <4>1. i \in 0..m
          BY <3>2
        <4>2. f[i] = IF i = 0 THEN <<>> ELSE Round(list, some, i, f[i - 1])
          BY <2>1, <4>1, Zenon DEF Loop
        <4>3. g[i] = f[i] /\ (i # 0 => g[i - 1] = f[i - 1])
          BY <3>2, <4>1
        <4> QED
          BY <4>2, <4>3, Zenon
      <3> QED
        BY <3>1, <3>2
    <2>3. Loop(list, some, m + 1, g)
      <3>1. g = [i \in 0..m + 1 |-> g[i]]
        OBVIOUS
      <3> HIDE DEF g
      <3> QED
        BY <2>2, <3>1, Zenon DEF Loop
    <2> QED
      BY <2>3
  <1>3. S = Nat
    <2> HIDE DEF S
    <2>1. S \in SUBSET Nat
      BY DEF S
    <2> QED
      BY <1>1, <1>2, <2>1, SetInduction
  <1> QED
    BY <1>3

(* Without is what the loop has kept in the end.                           *)
LEMMA WithoutLoop ==
  ASSUME NEW list, Len(list) \in Nat, NEW some
  PROVE  \E f : Loop(list, some, Len(list), f) /\ Without(list, some) = f[Len(list)]
  <1> DEFINE kept == CHOOSE f : f = [n \in 0..Len(list) |->
                       IF n = 0 THEN <<>>
                       ELSE IF list[n] \in some THEN f[n - 1] ELSE Append(f[n - 1], list[n])]
  <1>1. Loop(list, some, Len(list), kept)
    <2>1. \E f : f = [n \in 0..Len(list) |->
                       IF n = 0 THEN <<>>
                       ELSE IF list[n] \in some THEN f[n - 1] ELSE Append(f[n - 1], list[n])]
      <3>1. PICK f : Loop(list, some, Len(list), f)
        BY LoopExists, Zenon
      <3> QED
        BY <3>1, Zenon DEF Loop, Round
    <2> QED
      BY <2>1, Zenon DEF Loop, Round
  <1>2. Without(list, some) = kept[Len(list)]
    BY DEF Without
  <1> QED
    BY <1>1, <1>2, Zenon

(* How many of the first n entries may be left: fewer if one was deleted,  *)
(* and m fewer if the first m were.                                        *)
Few(list, some, n, size) ==
  /\ size <= n
  /\ (\E i \in 1..n : list[i] \in some) => size < n
  /\ \A m \in 0..n : (\A i \in 1..m : list[i] \in some) => size <= n - m

(* What is known of the first n entries with some of them deleted: how     *)
(* many they are, that they have different capabilities, and which.        *)
Selected(list, some, n, t) ==
  /\ t \in Seq(Entry)
  /\ Few(list, some, n, Len(t))
  /\ Distinct(t)
  /\ Listed(t) = {list[i] : i \in 1..n} \ some

(* A round counts right.                                                   *)
LEMMA RoundCounts ==
  ASSUME NEW list, NEW some, NEW n \in Nat, NEW size \in Nat, Few(list, some, n, size)
  PROVE  Few(list, some, n + 1, IF list[n + 1] \in some THEN size ELSE size + 1)
  <1>1. CASE list[n + 1] \in some
    <2>1. size <= n + 1 /\ size < n + 1
      BY DEF Few
    <2>2. ASSUME NEW m \in 0..n + 1, \A i \in 1..m : list[i] \in some PROVE size <= n + 1 - m
      <3>1. CASE m \in 0..n
        <4>1. size <= n - m
          BY <2>2, <3>1, Zenon DEF Few
        <4> QED
          BY <3>1, <4>1
      <3>2. CASE m = n + 1
        <4>1. n \in 0..n /\ \A i \in 1..n : i \in 1..m
          BY <3>2
        <4>2. size <= n - n
          BY <2>2, <4>1, Zenon DEF Few
        <4> QED
          BY <3>2, <4>2
      <3> QED
        BY <3>1, <3>2
    <2>3. Few(list, some, n + 1, size)
      BY <2>1, <2>2 DEF Few
    <2> QED
      BY <1>1, <2>3, Zenon
  <1>2. CASE list[n + 1] \notin some
    <2>1. size + 1 <= n + 1
      BY DEF Few
    <2>2. ASSUME NEW i \in 1..n + 1, list[i] \in some PROVE size + 1 < n + 1
      <3>1. i \in 1..n
        BY <1>2, <2>2
      <3>2. size < n
        BY <2>2, <3>1, Zenon DEF Few
      <3> QED
        BY <3>2
    <2>3. ASSUME NEW m \in 0..n + 1, \A i \in 1..m : list[i] \in some PROVE size + 1 <= n + 1 - m
      <3>1. m \in 0..n
        <4>1. m # n + 1
          BY <1>2, <2>3
        <4> QED
          BY <4>1
      <3>2. size <= n - m
        BY <2>3, <3>1, Zenon DEF Few
      <3> QED
        BY <3>1, <3>2
    <2>4. Few(list, some, n + 1, size + 1)
      BY <2>1, <2>2, <2>3 DEF Few
    <2> QED
      BY <1>2, <2>4, Zenon
  <1> QED
    BY <1>1, <1>2

(* One more entry at the end of a list.                                    *)
LEMMA Appended ==
  ASSUME NEW t \in Seq(Entry), Distinct(t), NEW e \in Entry,
         \A f \in Listed(t) : f.source # e.source
  PROVE  /\ Append(t, e) \in Seq(Entry) /\ Len(Append(t, e)) = Len(t) + 1
         /\ Distinct(Append(t, e)) /\ Listed(Append(t, e)) = Listed(t) \union {e}
  <1> DEFINE u == Append(t, e)
  <1>1. /\ u \in Seq(Entry) /\ Len(u) = Len(t) + 1 /\ u[Len(u)] = e
        /\ \A i \in 1..Len(t) : u[i] = t[i]
    OBVIOUS
  <1>2. Len(t) \in Nat /\ DOMAIN t = 1..Len(t)
    OBVIOUS
  <1> HIDE DEF u
  <1>3. 1..Len(u) = 1..Len(t) \union {Len(u)} /\ DOMAIN u = 1..Len(u)
    BY <1>1, <1>2
  <1>4. ASSUME NEW i \in 1..Len(t) PROVE t[i].source # e.source
    BY <1>2, Zenon DEF Listed
  <1>5. Distinct(u)
    BY <1>1, <1>3, <1>4, Zenon DEF Distinct
  <1>6. Listed(u) = Listed(t) \union {e}
    <2>1. ASSUME NEW f \in Listed(u) PROVE f \in Listed(t) \union {e}
      <3>1. PICK i \in 1..Len(u) : f = u[i]
        BY <1>3, Zenon DEF Listed
      <3> QED
        BY <1>1, <1>2, <1>3, <3>1, Zenon DEF Listed
    <2>2. ASSUME NEW f \in Listed(t) PROVE f \in Listed(u)
      <3>1. PICK i \in 1..Len(t) : f = t[i]
        BY <1>2, Zenon DEF Listed
      <3>2. f = u[i] /\ i \in DOMAIN u
        BY <1>1, <1>3, <3>1, Zenon
      <3> QED
        BY <3>2, Zenon DEF Listed
    <2>3. e \in Listed(u)
      <3>1. Len(u) \in DOMAIN u
        BY <1>3, Zenon
      <3> QED
        BY <1>1, <3>1, Zenon DEF Listed
    <2> QED
      BY <2>1, <2>2, <2>3, Zenon
  <1> QED
    BY <1>1, <1>5, <1>6, Zenon DEF u

(* A round keeps what is known.                                            *)
LEMMA RoundSelects ==
  ASSUME NEW list \in Seq(Entry), NEW some, Distinct(list), NEW n \in 0..Len(list) - 1,
         NEW t, Selected(list, some, n, t)
  PROVE  Selected(list, some, n + 1, Round(list, some, n + 1, t))
  <1>1. n \in Nat /\ n + 1 \in 1..Len(list) /\ list[n + 1] \in Entry
    OBVIOUS
  <1>2. 1..n + 1 = 1..n \union {n + 1}
    BY <1>1
  <1>3. t \in Seq(Entry) /\ Len(t) \in Nat
    BY DEF Selected
  <1>4. Few(list, some, n + 1, IF list[n + 1] \in some THEN Len(t) ELSE Len(t) + 1)
    BY <1>1, <1>3, RoundCounts, Zenon DEF Selected
  <1>5. CASE list[n + 1] \in some
    <2>1. {list[i] : i \in 1..n + 1} \ some = {list[i] : i \in 1..n} \ some
      BY <1>2, <1>5, Zenon
    <2> QED
      BY <1>4, <1>5, <2>1, Zenon DEF Selected, Round
  <1>6. CASE list[n + 1] \notin some
    <2>1. ASSUME NEW f \in Listed(t) PROVE f.source # list[n + 1].source
      <3>1. PICK j \in 1..n : f = list[j]
        BY Zenon DEF Selected
      <3>2. j \in 1..Len(list) /\ j # n + 1
        BY <1>1
      <3> QED
        BY <1>1, <3>1, <3>2, Zenon DEF Distinct
    <2>2. PICK u : u = Append(t, list[n + 1])
      BY Zenon
    <2>3. /\ u \in Seq(Entry) /\ Len(u) = Len(t) + 1 /\ Distinct(u)
          /\ Listed(u) = Listed(t) \union {list[n + 1]}
      BY <1>1, <1>3, <2>1, <2>2, Appended, Zenon DEF Selected
    <2>4. Listed(u) = {list[i] : i \in 1..n + 1} \ some
      BY <1>2, <1>6, <2>3, Zenon DEF Selected
    <2> QED
      BY <1>4, <1>6, <2>2, <2>3, <2>4, Zenon DEF Selected, Round
  <1> QED
    BY <1>5, <1>6

(* Deleting entries leaves the others.                                     *)
LEMMA WithoutSelects ==
  ASSUME NEW list \in Seq(Entry), NEW some, Distinct(list)
  PROVE  Selected(list, some, Len(list), Without(list, some))
  <1>1. Len(list) \in Nat
    OBVIOUS
  <1>2. PICK f : Loop(list, some, Len(list), f) /\ Without(list, some) = f[Len(list)]
    BY <1>1, WithoutLoop
  <1>3. /\ f[0] = <<>>
        /\ \A i \in 0..Len(list) : i # 0 => f[i] = Round(list, some, i, f[i - 1])
    <2>1. \A i \in 0..Len(list) : f[i] = IF i = 0 THEN <<>> ELSE Round(list, some, i, f[i - 1])
      BY <1>2, Zenon DEF Loop
    <2>2. 0 \in 0..Len(list)
      BY <1>1
    <2> QED
      BY <2>1, <2>2, Zenon
  <1> DEFINE S == {n \in Nat : n <= Len(list) => Selected(list, some, n, f[n])}
  <1>4. 0 \in S
    <2>1. Selected(list, some, 0, <<>>)
      BY DEF Selected, Few, Distinct, Listed
    <2> QED
      BY <1>3, <2>1
  <1>5. ASSUME NEW n \in S PROVE n + 1 \in S
    <2> SUFFICES ASSUME n + 1 <= Len(list) PROVE Selected(list, some, n + 1, f[n + 1])
      OBVIOUS
    <2>1. /\ n \in Nat /\ n \in 0..Len(list) - 1 /\ (n + 1) - 1 = n /\ n + 1 # 0
          /\ n + 1 \in 0..Len(list) /\ Selected(list, some, n, f[n])
      BY <1>1
    <2>2. f[n + 1] = Round(list, some, n + 1, f[n])
      <3>1. f[n + 1] = Round(list, some, n + 1, f[(n + 1) - 1])
        BY <1>3, <2>1, Zenon
      <3> QED
        BY <2>1, <3>1, Zenon
    <2>3. Selected(list, some, n + 1, Round(list, some, n + 1, f[n]))
      BY <2>1, RoundSelects, Zenon
    <2> QED
      BY <2>2, <2>3, Zenon
  <1>6. S = Nat
    <2> HIDE DEF S
    <2>1. S \in SUBSET Nat
      BY DEF S
    <2> QED
      BY <1>4, <1>5, <2>1, SetInduction, Zenon
  <1>7. Selected(list, some, Len(list), f[Len(list)])
    BY <1>1, <1>6
  <1> QED
    BY <1>2, <1>7, Zenon

-----------------------------------------------------------------------------
(* Some entries of a list are deleted and their capabilities released.     *)
Shrunk(list, some) ==
  /\ some \subseteq Listed(list)
  /\ entries' \in Seq(Entry) /\ Distinct(entries') /\ Len(entries') <= MaxEntries
  /\ Cached' = Listed(list) \ some
  /\ sources' \in Seq(Source) /\ Len(sources') = Len(sources)
  /\ \A i \in 1..Len(sources) :
       /\ sources'[i].key = sources[i].key
       /\ IF i \in Held(some) THEN sources'[i].released ELSE sources'[i] = sources[i]

(* Release erases capabilities and leaves the others.                      *)
LEMMA Erased ==
  ASSUME sources \in Seq(Source), NEW some, Erase(some)
  PROVE  /\ sources' \in Seq(Source) /\ Len(sources') = Len(sources)
         /\ \A i \in 1..Len(sources) :
              /\ sources'[i].key = sources[i].key
              /\ IF i \in some THEN sources'[i].released ELSE sources'[i] = sources[i]
  <1> DEFINE gone(i) == [key |-> sources[i].key, loaded |-> 0, expires |-> 0, released |-> TRUE]
             new(i) == IF i \in some THEN gone(i) ELSE sources[i]
  <1>1. DOMAIN sources = 1..Len(sources) /\ Len(sources) \in Nat
    OBVIOUS
  <1>2. ASSUME NEW i \in 1..Len(sources)
        PROVE  gone(i) \in Source /\ gone(i).key = sources[i].key /\ gone(i).released
    <2>1. sources[i] \in Source
      OBVIOUS
    <2> QED
      BY <2>1, Zenon DEF Source
  <1>3. ASSUME NEW i \in 1..Len(sources)
        PROVE  new(i) \in Source /\ new(i).key = sources[i].key
    BY <1>2
  <1>4. sources' = [i \in 1..Len(sources) |-> new(i)]
    BY <1>1, Zenon DEF Erase
  <1> HIDE DEF new
  <1>5. sources' \in Seq(Source) /\ Len(sources') = Len(sources)
    BY <1>1, <1>3, <1>4
  <1>6. \A i \in 1..Len(sources) : sources'[i] = new(i)
    BY <1>4
  <1> QED
    BY <1>2, <1>3, <1>5, <1>6, Zenon DEF new

(* The cache is left with the other entries of the list, in any order.     *)
LEMMA Deleted ==
  ASSUME IInv, NEW list, NEW some \in SUBSET Listed(list), Erase(Held(some)),
         entries' \in Seq(Entry), Distinct(entries'), Len(entries') <= MaxEntries,
         Listed(entries') = Listed(list) \ some
  PROVE  Shrunk(list, some)
  <1>1. sources \in Seq(Source)
    BY Zenon DEF IInv, TypeOK
  <1>2. /\ sources' \in Seq(Source) /\ Len(sources') = Len(sources)
        /\ \A i \in 1..Len(sources) :
             /\ sources'[i].key = sources[i].key
             /\ IF i \in Held(some) THEN sources'[i].released ELSE sources'[i] = sources[i]
    BY <1>1, Erased
  <1>3. Cached' = Listed(list) \ some
    BY Zenon DEF Cached
  <1> QED
    BY <1>2, <1>3, Zenon DEF Shrunk

(* What the cache keeps when some of its entries are deleted.              *)
LEMMA Kept ==
  ASSUME IInv, NEW some
  PROVE  \E t \in Seq(Entry) :
           /\ t = Without(entries, some) /\ Distinct(t) /\ Len(t) <= MaxEntries
           /\ Listed(t) = Cached \ some
  <1>1. /\ entries \in Seq(Entry) /\ Distinct(entries) /\ Len(entries) <= MaxEntries
        /\ MaxEntries \in Nat
    BY CacheAssumption, Zenon DEF IInv, TypeOK
  <1>2. PICK t : t = Without(entries, some)
    BY Zenon
  <1>3. Selected(entries, some, Len(entries), t)
    BY <1>1, <1>2, WithoutSelects, Zenon
  <1>4. t \in Seq(Entry) /\ Len(t) <= Len(entries) /\ Distinct(t)
    BY <1>3, Zenon DEF Selected, Few
  <1>5. Len(t) <= MaxEntries /\ DOMAIN entries = 1..Len(entries)
    BY <1>1, <1>4
  <1>6. Listed(t) = Cached \ some
    BY <1>3, <1>5, Zenon DEF Selected, Cached, Listed
  <1> QED
    BY <1>2, <1>4, <1>5, <1>6, Zenon

(* Evict deletes some entries.                                             *)
LEMMA Evicted ==
  ASSUME IInv, NEW some \in SUBSET Cached, Evict(some)
  PROVE  Shrunk(entries, some)
  <1>1. entries' = Without(entries, some) /\ Erase(Held(some))
    BY Zenon DEF Evict
  <1>2. PICK t \in Seq(Entry) :
           /\ t = Without(entries, some) /\ Distinct(t) /\ Len(t) <= MaxEntries
           /\ Listed(t) = Cached \ some
    BY Kept, Zenon
  <1> QED
    BY <1>1, <1>2, Deleted, Zenon DEF Cached

(* A used entry becomes the newest.                                        *)
LEMMA Moved ==
  ASSUME NEW t \in Seq(Entry), Distinct(t), NEW i \in 1..Len(t), NEW u,
         u = Append(Without(t, {t[i]}), t[i])
  PROVE  u \in Seq(Entry) /\ Distinct(u) /\ Len(u) <= Len(t) /\ Listed(u) = Listed(t)
  <1>1. Len(t) \in Nat /\ DOMAIN t = 1..Len(t) /\ t[i] \in Entry
    OBVIOUS
  <1>2. PICK r : r = Without(t, {t[i]})
    BY Zenon
  <1>3. Selected(t, {t[i]}, Len(t), r)
    BY <1>2, WithoutSelects, Zenon
  <1>4. r \in Seq(Entry) /\ Distinct(r) /\ Len(r) < Len(t)
    BY <1>3, Zenon DEF Selected, Few
  <1>5. Listed(r) = Listed(t) \ {t[i]}
    BY <1>1, <1>3, Zenon DEF Selected, Listed
  <1>6. ASSUME NEW f \in Listed(r) PROVE f.source # t[i].source
    <2>1. PICK j \in 1..Len(t) : f = t[j] /\ f # t[i]
      BY <1>1, <1>5, Zenon DEF Listed
    <2> QED
      BY <2>1, Zenon DEF Distinct
  <1>7. /\ u \in Seq(Entry) /\ Len(u) = Len(r) + 1 /\ Distinct(u)
        /\ Listed(u) = Listed(r) \union {t[i]}
    BY <1>1, <1>2, <1>4, <1>6, Appended, Zenon
  <1>8. Len(u) <= Len(t)
    <2>1. Len(r) \in Nat
      BY <1>4
    <2> QED
      BY <1>1, <1>4, <1>7, <2>1
  <1>9. t[i] \in Listed(t)
    BY <1>1, Zenon DEF Listed
  <1> QED
    BY <1>5, <1>7, <1>8, <1>9, Zenon

(* What is left of the list is as it was.                                  *)
LEMMA EntriesKept ==
  ASSUME NEW list \in Seq(Entry), Distinct(list), \A e \in Listed(list) : EntryOK(e, sources),
         NEW some, Shrunk(list, some)
  PROVE  \A e \in Cached' : EntryOK(e, sources')
  <1> SUFFICES ASSUME NEW e \in Listed(list) \ some PROVE EntryOK(e, sources')
    BY DEF Shrunk
  <1>1. e.source \in 1..Len(sources) /\ EntryOK(e, sources)
    BY DEF EntryOK
  <1>2. e.source \notin Held(some)
    <2> SUFFICES ASSUME NEW f \in some, f.source = e.source PROVE FALSE
      BY DEF Held
    <2>1. PICK i \in 1..Len(list), j \in 1..Len(list) : e = list[i] /\ f = list[j]
      BY DEF Listed, Shrunk
    <2> QED
      BY <2>1, Zenon DEF Distinct
  <1> QED
    BY <1>1, <1>2, Zenon DEF Shrunk, EntryOK

(* A call keeps what it holds: what it has loaded is in no entry.          *)
LEMMA HoldsKept ==
  ASSUME NEW list, NEW some, Shrunk(list, some), NEW q, Holds(q, Listed(list), sources)
  PROVE  Holds(q, Cached', sources')
  <1>1. q.phase = "loaded" /\ q.source # 0 => q.source \notin Held(some)
    BY DEF Shrunk, Holds, Held
  <1> QED
    BY <1>1, Zenon DEF Shrunk, Holds, Loading

(* A capability that is in the list and not released stays there.          *)
LEMMA OwnersKept ==
  ASSUME NEW list, NEW some, Shrunk(list, some), NEW i \in 1..Len(sources), ~sources'[i].released
  PROVE  ~sources[i].released /\ (InCache(i, Listed(list)) => InCache(i, Cached'))
  <1>1. i \notin Held(some) /\ ~sources[i].released
    BY Zenon DEF Shrunk
  <1>2. InCache(i, Listed(list)) => InCache(i, Cached')
    BY <1>1, Zenon DEF InCache, Held, Shrunk
  <1> QED
    BY <1>1, <1>2

(* The cache stays within its limit.                                       *)
LEMMA SizeKept ==
  ASSUME IInv, NEW some, Shrunk(entries, some)
  PROVE  Len(entries') <= MaxEntries /\ (closed => entries' = <<>>)
  <1>1. entries' \in Seq(Entry) /\ Len(entries') <= MaxEntries
    BY Zenon DEF Shrunk
  <1>2. ASSUME closed PROVE entries' = <<>>
    <2>1. Cached = {}
      BY <1>2 DEF IInv, Cached, Listed
    <2>2. Cached' = {}
      BY <2>1, Zenon DEF Cached, Shrunk
    <2>3. DOMAIN entries' = {}
      BY <2>2, Zenon DEF Cached, Listed
    <2> QED
      BY <1>1, <2>3
  <1> QED
    BY <1>1, <1>2

-----------------------------------------------------------------------------
(* A step of one call that deletes some entries, or none.  It neither      *)
(* gives up nor takes a loaded capability; when it begins to load, the key *)
(* was not in flight.                                                      *)
LEMMA CallStep ==
  ASSUME IInv, NEW some, Shrunk(entries, some), NEW c \in Callers, NEW q \in Caller,
         callers' = [callers EXCEPT ![c] = q], callers[c].phase # "loaded", q.phase # "loaded",
         Knows(q, epoch), Holds(q, Cached', sources'),
         IF Loading(q) THEN inflight[q.key] = 0 /\ \E n \in Nat \ {0} :
                              inflight' = [inflight EXCEPT ![q.key] = n]
                       ELSE inflight' = inflight,
         loads' \in Nat, UNCHANGED <<epoch, closed, clock>>
  PROVE  IInv'
  <1>1. \A b \in Callers : callers'[b] = IF b = c THEN q ELSE callers[b]
    BY Zenon DEF IInv, TypeOK
  <1>2. callers' \in [Callers -> Caller]
    BY Zenon DEF IInv, TypeOK
  <1>3. Loading(q) => q.key \in Key
    BY Zenon DEF Knows
  <1>4. inflight' \in [Key -> Nat]
    BY <1>3, Zenon DEF IInv, TypeOK
  <1>5. \A k \in Key : inflight[k] # 0 => inflight'[k] # 0
    BY <1>3, Zenon DEF IInv, TypeOK
  <1>6. Loading(q) => inflight'[q.key] # 0
    BY <1>3, Zenon DEF IInv, TypeOK
  <1>7. TypeOK'
    BY <1>2, <1>4, Zenon DEF IInv, TypeOK, Shrunk
  <1>8. ASSUME NEW b \in Callers, b # c, Loading(callers[b])
        PROVE  callers[b].key \in Key /\ inflight[callers[b].key] # 0
    BY <1>8, Zenon DEF IInv, CallerInv, Knows, Flies
  <1>9. ASSUME NEW b \in Callers PROVE CallerInv(b)'
    <2>1. CASE b = c
      BY <1>1, <1>6, <2>1, Zenon DEF CallerInv, Flies
    <2>2. CASE b # c
      <3>1. callers'[b] = callers[b]
        BY <1>1, <2>2, Zenon
      <3>2. Knows(callers[b], epoch) /\ Holds(callers[b], Cached, sources)
        BY Zenon DEF IInv, CallerInv
      <3>3. Holds(callers[b], Cached', sources')
        BY <3>2, HoldsKept, Zenon DEF Cached
      <3>4. Flies(callers[b], inflight')
        BY <1>5, <1>8, <2>2, Zenon DEF Flies
      <3> QED
        BY <3>1, <3>2, <3>3, <3>4, Zenon DEF CallerInv
    <2> QED
      BY <2>1, <2>2, Zenon
  <1>10. Owned'
    <2> SUFFICES ASSUME NEW i \in 1..Len(sources'), ~sources'[i].released
                 PROVE  InCache(i, Cached') \/ WithLoader(i, callers')
      BY Zenon DEF Owned
    <2>1. i \in 1..Len(sources)
      BY Zenon DEF Shrunk
    <2>2. ~sources[i].released /\ (InCache(i, Cached) => InCache(i, Cached'))
      BY <2>1, OwnersKept, Zenon DEF Cached
    <2>3. WithLoader(i, callers) => WithLoader(i, callers')
      BY <1>1, Zenon DEF WithLoader
    <2> QED
      BY <2>1, <2>2, <2>3, Zenon DEF IInv, Owned
  <1>11. Loading(q) => inflight[q.key] = 0
    BY Zenon
  <1>12. SingleFlight'
    <2> SUFFICES ASSUME NEW a \in Callers, NEW b \in Callers,
                        Loading(callers'[a]), Loading(callers'[b]), callers'[a].key = callers'[b].key
                 PROVE  a = b
      BY Zenon DEF SingleFlight, Loading
    <2>1. CASE a # c /\ b # c
      <3>1. callers'[a] = callers[a] /\ callers'[b] = callers[b]
        BY <1>1, <2>1, Zenon
      <3> QED
        BY <3>1, Zenon DEF IInv, SingleFlight, Loading
    <2>2. CASE a = c /\ b # c
      <3>1. callers'[a] = q /\ callers'[b] = callers[b]
        BY <1>1, <2>2, Zenon
      <3>2. Loading(q) /\ Loading(callers[b]) /\ q.key = callers[b].key
        BY <3>1, Zenon
      <3> QED
        BY <1>8, <1>11, <2>2, <3>2, Zenon
    <2>3. CASE a # c /\ b = c
      <3>1. callers'[a] = callers[a] /\ callers'[b] = q
        BY <1>1, <2>3, Zenon
      <3>2. Loading(q) /\ Loading(callers[a]) /\ q.key = callers[a].key
        BY <3>1, Zenon
      <3> QED
        BY <1>8, <1>11, <2>3, <3>2, Zenon
    <2> QED
      BY <2>1, <2>2, <2>3, Zenon
  <1>13. Distinct(entries') /\ \A e \in Cached' : EntryOK(e, sources')
    <2>1. entries \in Seq(Entry) /\ Distinct(entries) /\ \A e \in Listed(entries) : EntryOK(e, sources)
      BY Zenon DEF IInv, TypeOK, Cached
    <2>2. \A e \in Cached' : EntryOK(e, sources')
      BY <2>1, EntriesKept
    <2> QED
      BY <2>2, Zenon DEF Shrunk
  <1>14. Len(entries') <= MaxEntries /\ (closed' => entries' = <<>>)
    BY SizeKept
  <1> QED
    BY <1>7, <1>9, <1>10, <1>12, <1>13, <1>14, Zenon DEF IInv

(* A step that leaves the cache alone deletes no entry.                    *)
LEMMA NoneDeleted ==
  ASSUME IInv, UNCHANGED <<entries, sources>>
  PROVE  Shrunk(entries, {})
  BY DEF IInv, TypeOK, Shrunk, Cached, Held

(* The same for a step that leaves the cache and the loads alone.          *)
LEMMA CallOnly ==
  ASSUME IInv, NEW c \in Callers, NEW q \in Caller,
         callers' = [callers EXCEPT ![c] = q], callers[c].phase # "loaded", ~Loading(q),
         Knows(q, epoch), Holds(q, Cached, sources),
         UNCHANGED <<entries, sources, inflight, epoch, closed, loads, clock>>
  PROVE  IInv'
  <1>1. Shrunk(entries, {}) /\ Cached' = Cached /\ sources' = sources /\ loads' \in Nat
    BY NoneDeleted, Zenon DEF IInv, TypeOK, Cached
  <1>2. q.phase # "loaded"
    BY Zenon DEF Loading
  <1> QED
    BY <1>1, <1>2, CallStep, Zenon

-----------------------------------------------------------------------------
(* The calls that the steps of Resolve leave behind.                       *)
LEMMA NoCallOK ==
  /\ NoCall \in Caller
  /\ \A ep, cached, srcs : Knows(NoCall, ep) /\ Holds(NoCall, cached, srcs)
  /\ NoCall.phase = "idle" /\ ~Loading(NoCall)
  BY Zenon DEF NoCall, Caller, Phases, Knows, Holds, Loading

LEMMA LookupOK ==
  ASSUME NEW r \in Requests, NEW now \in Nat, NEW eps \in SUBSET Epochs, NEW ep \in eps,
         NEW q, q = [NoCall EXCEPT !.phase = "lookup", !.request = r, !.now = now, !.during = eps]
  PROVE  /\ q \in Caller /\ Knows(q, ep) /\ q.phase = "lookup" /\ ~Loading(q)
         /\ \A cached, srcs : Holds(q, cached, srcs)
  BY Zenon DEF NoCall, Caller, Phases, Knows, Holds, Loading

LEMMA DroppingOK ==
  ASSUME NEW p \in Caller, NEW q, q = [p EXCEPT !.phase = "dropping"]
  PROVE  /\ q \in Caller /\ q.phase = "dropping"
         /\ q.request = p.request /\ q.during = p.during
  BY DEF Caller, Phases

-----------------------------------------------------------------------------
(* The first state satisfies the invariant.                                *)
LEMMA InitInv == Init => IInv
  <1> SUFFICES ASSUME Init PROVE IInv
    BY Zenon
  <1>1. Cached = {} /\ Len(entries) = 0 /\ Len(sources) = 0
    BY DEF Init, Cached, Listed
  <1>2. \A c \in Callers : callers[c] = NoCall
    BY Zenon DEF Init
  <1>3. TypeOK
    <2>1. callers \in [Callers -> Caller] /\ closed \in BOOLEAN /\ epoch \in Epochs
      BY NoCallOK, CacheAssumption, Zenon DEF Init
    <2>2. /\ entries \in Seq(Entry) /\ sources \in Seq(Source)
          /\ inflight \in [Key -> Nat] /\ loads \in Nat /\ clock \in Nat
      BY DEF Init
    <2> QED
      BY <2>1, <2>2, Zenon DEF TypeOK
  <1>4. \A c \in Callers : CallerInv(c)
    BY <1>2, NoCallOK, Zenon DEF CallerInv, Flies
  <1>5. SingleFlight
    BY <1>2 DEF SingleFlight, NoCall
  <1>6. Distinct(entries) /\ Owned /\ Len(entries) <= MaxEntries
    BY <1>1, CacheAssumption DEF Distinct, Owned
  <1> QED
    BY <1>1, <1>3, <1>4, <1>5, <1>6, Zenon DEF Init, IInv

(* What is known of a call.                                                *)
LEMMA CallKnown ==
  ASSUME IInv, NEW c \in Callers
  PROVE  /\ callers[c] \in Caller /\ callers[c].during \in SUBSET Epochs /\ clock \in Nat
         /\ Knows(callers[c], epoch) /\ Holds(callers[c], Cached, sources)
         /\ callers[c].phase # "idle" => callers[c].request \in Requests /\ epoch \in callers[c].during
  BY Zenon DEF IInv, TypeOK, Caller, CallerInv, Knows

(* Resolve begins.                                                         *)
LEMMA BeginInv ==
  ASSUME IInv, NEW c \in Callers, NEW r \in Requests, Begin(c, r)
  PROVE  IInv'
  <1>1. PICK q : q = [NoCall EXCEPT !.phase = "lookup", !.request = r, !.now = clock,
                                    !.during = {epoch}]
    BY Zenon
  <1>2. clock \in Nat /\ {epoch} \in SUBSET Epochs /\ epoch \in {epoch}
    BY Zenon DEF IInv, TypeOK
  <1>3. /\ q \in Caller /\ Knows(q, epoch) /\ ~Loading(q)
        /\ \A cached, srcs : Holds(q, cached, srcs)
    BY <1>1, <1>2, LookupOK, Zenon
  <1>4. /\ callers' = [callers EXCEPT ![c] = q] /\ callers[c].phase # "loaded"
        /\ UNCHANGED <<entries, sources, inflight, epoch, closed, loads, clock>>
    BY <1>1, Zenon DEF Begin
  <1> QED
    BY <1>3, <1>4, CallOnly, Zenon

(* Resolve ends, or goes round its loop.                                   *)
LEMMA LeaveInv ==
  ASSUME IInv, NEW some, Shrunk(entries, some),
         NEW c \in Callers, callers[c].phase \notin {"idle", "loaded"}, Return(c) \/ Again(c),
         UNCHANGED <<inflight, epoch, closed, loads, clock>>
  PROVE  IInv'
  <1>1. PICK q : /\ q \in Caller /\ Knows(q, epoch) /\ ~Loading(q)
                 /\ \A cached, srcs : Holds(q, cached, srcs)
                 /\ callers' = [callers EXCEPT ![c] = q]
    <2>1. CASE Return(c)
      BY <2>1, NoCallOK, Zenon DEF Return
    <2>2. CASE Again(c)
      <3>1. PICK q : q = [NoCall EXCEPT !.phase = "lookup", !.request = callers[c].request,
                                        !.now = clock, !.during = callers[c].during]
        BY Zenon
      <3>2. /\ callers[c].request \in Requests /\ clock \in Nat
            /\ callers[c].during \in SUBSET Epochs /\ epoch \in callers[c].during
        BY CallKnown, Zenon
      <3>3. /\ q \in Caller /\ Knows(q, epoch) /\ ~Loading(q)
            /\ \A cached, srcs : Holds(q, cached, srcs)
        BY <3>1, <3>2, LookupOK, Zenon
      <3> QED
        BY <2>2, <3>1, <3>3, Zenon DEF Again
    <2> QED
      BY <2>1, <2>2, Zenon
  <1>2. /\ callers[c].phase # "loaded" /\ q.phase # "loaded" /\ loads' \in Nat
        /\ Holds(q, Cached', sources')
    BY <1>1, Zenon DEF Loading, IInv, TypeOK
  <1> QED
    BY <1>1, <1>2, CallStep, Zenon

(* A call that waits wakes or is cancelled.                                *)
LEMMA WakeInv ==
  ASSUME IInv, NEW c \in Callers, Wake(c) \/ Cancel(c)
  PROVE  IInv'
  BY LeaveInv, NoneDeleted, Zenon DEF Wake, Cancel

(* The clone of a capability is returned, or its entry is to be removed.   *)
LEMMA CloneInv ==
  ASSUME IInv, NEW c \in Callers, Clone(c)
  PROVE  IInv'
  <1>1. CASE Return(c)
    BY <1>1, LeaveInv, NoneDeleted, Zenon DEF Clone
  <1>2. CASE callers' = [callers EXCEPT ![c] = [callers[c] EXCEPT !.phase = "dropping"]]
    <2>1. PICK q : q = [callers[c] EXCEPT !.phase = "dropping"]
      BY Zenon
    <2>2. /\ q \in Caller /\ q.phase = "dropping"
          /\ q.request = callers[c].request /\ q.during = callers[c].during
      BY <2>1, CallKnown, DroppingOK
    <2>3. callers[c].phase = "cloning"
      BY Zenon DEF Clone
    <2>4. ~Loading(q) /\ Knows(q, epoch) /\ Holds(q, Cached, sources)
      BY <2>2, <2>3, CallKnown, Zenon DEF Loading, Knows, Holds
    <2>5. /\ callers' = [callers EXCEPT ![c] = q] /\ callers[c].phase # "loaded"
          /\ UNCHANGED <<entries, sources, inflight, epoch, closed, loads, clock>>
      BY <1>2, <2>1, <2>3, Zenon DEF Clone
    <2> QED
      BY <2>2, <2>4, <2>5, CallOnly, Zenon
  <1> QED
    BY <1>1, <1>2, Zenon DEF Clone

(* The first critical section of Resolve: a hit, a wait or a miss.         *)
LEMMA LookupInv ==
  ASSUME IInv, NEW c \in Callers, Lookup(c)
  PROVE  IInv'
  <1> DEFINE p == callers[c]
             k == [request |-> p.request, epoch |-> epoch]
             gone == {e \in Cached : Stale(p, e)}
             kept == Without(entries, gone)
             hits == {i \in DOMAIN kept : kept[i].key = k}
  <1>1. CASE closed
    BY <1>1, LeaveInv, NoneDeleted, Zenon DEF Lookup
  <1>2. CASE ~closed
    <2>1. /\ p \in Caller /\ p.phase = "lookup" /\ p.request \in Requests
          /\ epoch \in p.during /\ epoch \in Epochs
      BY CallKnown, Zenon DEF Lookup, IInv, TypeOK
    <2>2. k \in Key /\ k.request = p.request /\ k.epoch = epoch
      BY <2>1, Zenon DEF Key
    <2>4. /\ kept \in Seq(Entry) /\ Distinct(kept) /\ Len(kept) <= MaxEntries
          /\ Listed(kept) = Cached \ gone
      BY Kept, Zenon
    <2>5. Erase(Held(gone)) /\ UNCHANGED <<epoch, closed, clock>>
      BY <1>2, Zenon DEF Lookup
    <2>6. gone \in SUBSET Cached /\ callers[c].phase # "loaded"
      BY <2>1, Zenon
    <2> HIDE DEF gone, k, p
    <2>7. CASE \E i \in hits :
                 /\ entries' = Append(Without(kept, {kept[i]}), kept[i])
                 /\ callers' = [callers EXCEPT ![c] =
                                  [p EXCEPT !.phase = "cloning", !.key = k, !.now = 0,
                                            !.source = kept[i].source, !.fresh = FALSE]]
                 /\ UNCHANGED <<inflight, loads>>
      <3>1. PICK i \in hits :
                 /\ entries' = Append(Without(kept, {kept[i]}), kept[i])
                 /\ callers' = [callers EXCEPT ![c] =
                                  [p EXCEPT !.phase = "cloning", !.key = k, !.now = 0,
                                            !.source = kept[i].source, !.fresh = FALSE]]
                 /\ UNCHANGED <<inflight, loads>>
        BY <2>7, Zenon
      <3>2. i \in 1..Len(kept) /\ kept[i].key = k /\ kept[i] \in Entry /\ kept[i].source \in Nat
        <4>1. DOMAIN kept = 1..Len(kept)
          BY <2>4
        <4>2. i \in 1..Len(kept) /\ kept[i].key = k
          BY <4>1, Zenon
        <4>3. kept[i] \in Entry
          BY <2>4, <4>2
        <4> QED
          BY <4>2, <4>3, Zenon DEF Entry
      <3>3. /\ entries' \in Seq(Entry) /\ Distinct(entries')
            /\ Len(entries') <= Len(kept) /\ Listed(entries') = Listed(kept)
        BY <2>4, <3>1, <3>2, Moved, Zenon
      <3>4. Shrunk(entries, gone)
        <4>1. Len(entries') <= MaxEntries
          <5>1. Len(entries') \in Nat /\ Len(kept) \in Nat /\ MaxEntries \in Nat
            BY <2>4, <3>3, CacheAssumption
          <5> QED
            BY <2>4, <3>3, <5>1
        <4> QED
          BY <2>4, <2>5, <2>6, <3>3, <4>1, Deleted, Zenon DEF Cached
      <3>5. kept[i] \in Cached'
        <4>1. DOMAIN kept = 1..Len(kept)
          BY <2>4
        <4> QED
          BY <3>2, <3>3, <4>1, Zenon DEF Cached, Listed
      <3>6. EntryOK(kept[i], sources')
        <4>1. /\ entries \in Seq(Entry) /\ Distinct(entries)
              /\ \A e \in Listed(entries) : EntryOK(e, sources)
          BY Zenon DEF IInv, TypeOK, Cached
        <4>2. \A e \in Cached' : EntryOK(e, sources')
          BY <3>4, <4>1, EntriesKept, Zenon
        <4> QED
          BY <3>5, <4>2, Zenon
      <3>7. PICK q : q = [p EXCEPT !.phase = "cloning", !.key = k, !.now = 0,
                                   !.source = kept[i].source, !.fresh = FALSE]
        BY Zenon
      <3>8. /\ q \in Caller /\ q.phase = "cloning" /\ q.key = k /\ q.source = kept[i].source
            /\ q.request = p.request /\ q.during = p.during
        BY <2>1, <2>2, <3>2, <3>7, Zenon DEF Caller, Phases
      <3>9. ~Loading(q) /\ Knows(q, epoch)
        BY <2>1, <2>2, <3>8, Zenon DEF Loading, Knows
      <3>10. Holds(q, Cached', sources')
        BY <3>2, <3>6, <3>8, <3>9, Zenon DEF Holds, EntryOK
      <3> QED
        <4>1. /\ callers' = [callers EXCEPT ![c] = q] /\ q.phase # "loaded" /\ loads' \in Nat
              /\ inflight' = inflight
          BY <3>1, <3>7, <3>8, Zenon DEF IInv, TypeOK
        <4> QED
          BY <2>5, <2>6, <3>4, <3>8, <3>9, <3>10, <4>1, CallStep, Zenon
    <2>8. CASE /\ hits = {} /\ Join(k) /\ entries' = kept
               /\ callers' = [callers EXCEPT ![c] =
                               [p EXCEPT !.phase = "waiting", !.key = k, !.now = 0,
                                         !.load = inflight[k]]]
               /\ UNCHANGED <<inflight, loads>>
      <3>1. Shrunk(entries, gone)
        BY <2>4, <2>5, <2>6, <2>8, Evicted, Zenon DEF Evict
      <3>2. PICK q : q = [p EXCEPT !.phase = "waiting", !.key = k, !.now = 0,
                                   !.load = inflight[k]]
        BY Zenon
      <3>3. /\ q \in Caller /\ q.phase = "waiting"
            /\ q.request = p.request /\ q.during = p.during
        <4>1. inflight[k] \in Nat
          BY <2>2, Zenon DEF IInv, TypeOK
        <4> QED
          BY <2>1, <2>2, <3>2, <4>1, Zenon DEF Caller, Phases
      <3>4. ~Loading(q) /\ Knows(q, epoch) /\ Holds(q, Cached', sources')
        BY <2>1, <3>3, Zenon DEF Loading, Knows, Holds
      <3> QED
        <4>1. /\ callers' = [callers EXCEPT ![c] = q] /\ q.phase # "loaded" /\ loads' \in Nat
              /\ inflight' = inflight
          BY <2>8, <3>2, <3>3, Zenon DEF IInv, TypeOK
        <4> QED
          BY <2>5, <2>6, <3>1, <3>3, <3>4, <4>1, CallStep, Zenon
    <2>9. CASE /\ hits = {} /\ ~Join(k) /\ entries' = kept
               /\ loads' = loads + 1
               /\ inflight' = [inflight EXCEPT ![k] = loads + 1]
               /\ callers' = [callers EXCEPT ![c] =
                               [p EXCEPT !.phase = "loading", !.key = k, !.now = 0,
                                         !.load = loads + 1]]
      <3>1. Shrunk(entries, gone)
        BY <2>4, <2>5, <2>6, <2>9, Evicted, Zenon DEF Evict
      <3>2. PICK q : q = [p EXCEPT !.phase = "loading", !.key = k, !.now = 0,
                                   !.load = loads + 1]
        BY Zenon
      <3>3. loads \in Nat /\ loads + 1 \in Nat \ {0}
        BY DEF IInv, TypeOK
      <3>4. /\ q \in Caller /\ q.phase = "loading" /\ q.key = k
            /\ q.request = p.request /\ q.during = p.during
        BY <2>1, <2>2, <3>2, <3>3, Zenon DEF Caller, Phases
      <3>5. \A e \in Cached' : e.key # k
        BY <2>4, <2>9 DEF Cached, Listed
      <3>6. Loading(q) /\ Knows(q, epoch) /\ Holds(q, Cached', sources')
        BY <2>1, <2>2, <3>4, <3>5, Zenon DEF Loading, Knows, Holds
      <3>7. inflight[q.key] = 0
        BY <2>9, <3>4, Zenon DEF Join
      <3>8. PICK n \in Nat \ {0} : n = loads + 1
        BY <3>3
      <3>9. inflight' = [inflight EXCEPT ![q.key] = n] /\ loads' \in Nat
        BY <2>9, <3>3, <3>4, <3>8
      <3> QED
        <4>1. callers' = [callers EXCEPT ![c] = q] /\ q.phase # "loaded"
          BY <2>9, <3>2, <3>4, Zenon
        <4> QED
          BY <2>5, <2>6, <3>1, <3>4, <3>6, <3>7, <3>9, <4>1, CallStep, Zenon
    <2> QED
      BY <1>2, <2>7, <2>8, <2>9, Zenon DEF Lookup, gone, k, p
  <1> QED
    BY <1>1, <1>2

(* The provider's answer: what was loaded belongs to the call that loads.  *)
LEMMA LoadInv ==
  ASSUME IInv, NEW c \in Callers, Load(c)
  PROVE  IInv'
  <1> DEFINE p == callers[c]
             new == [key |-> p.key, loaded |-> clock, expires |-> clock + Lifetime,
                     released |-> FALSE]
  <1>1. PICK answer \in {"none", "mismatched", "matching"} :
          /\ sources' = IF answer = "none" THEN sources ELSE Append(sources, new)
          /\ callers' = [callers EXCEPT ![c] =
                           [p EXCEPT !.phase = "loaded", !.good = Prepared(answer),
                              !.source = IF answer = "none" THEN 0 ELSE Len(sources) + 1]]
    BY Zenon DEF Load
  <1>2. /\ p \in Caller /\ p.phase = "loading" /\ p.key \in Key
        /\ UNCHANGED <<entries, inflight, epoch, closed, loads, clock>>
        /\ CallerInv(c)
    BY Zenon DEF Load, IInv, TypeOK, CallerInv, Knows, Loading
  <1>3. sources \in Seq(Source) /\ Len(sources) \in Nat /\ clock \in Nat
    BY DEF IInv, TypeOK
  <1>4. new \in Source /\ ~new.released /\ new.key = p.key
    <2>1. clock + Lifetime \in Nat
      BY <1>3, CacheAssumption
    <2> QED
      BY <1>2, <1>3, <2>1, Zenon DEF Source
  <1> DEFINE at == IF answer = "none" THEN 0 ELSE Len(sources) + 1
  <1>5. /\ at \in Nat /\ Prepared(answer) \in BOOLEAN
        /\ (Prepared(answer) => at # 0) /\ at \notin 1..Len(sources)
    BY <1>3 DEF Prepared
  <1>6. /\ sources' \in Seq(Source) /\ Len(sources) <= Len(sources')
        /\ \A i \in 1..Len(sources) : i \in 1..Len(sources') /\ sources'[i] = sources[i]
        /\ \A i \in 1..Len(sources') : i \in 1..Len(sources) \/ i = at
        /\ at # 0 => at \in 1..Len(sources') /\ sources'[at] = new
    <2> HIDE DEF new
    <2>1. CASE answer = "none"
      BY <1>1, <1>3, <2>1
    <2>2. CASE answer # "none"
      BY <1>1, <1>3, <1>4, <2>2
    <2> QED
      BY <2>1, <2>2
  <1>7. PICK q : q = [p EXCEPT !.phase = "loaded", !.good = Prepared(answer), !.source = at]
    BY Zenon
  <1>8. callers' = [callers EXCEPT ![c] = q]
    BY <1>1, <1>7, Zenon
  <1> HIDE DEF new, at, p
  <1>9. /\ q \in Caller /\ q.phase = "loaded" /\ q.key = p.key /\ q.source = at
        /\ q.request = p.request /\ q.during = p.during /\ q.good = Prepared(answer)
    BY <1>2, <1>5, <1>7, Zenon DEF Caller, Phases
  <1>10. \A b \in Callers : callers'[b] = IF b = c THEN q ELSE callers[b]
    BY <1>8, Zenon DEF IInv, TypeOK
  <1>11. Cached' = Cached /\ \A e \in Cached : EntryOK(e, sources)
    BY <1>2, Zenon DEF IInv, Cached
  <1>12. TypeOK'
    BY <1>2, <1>6, <1>8, <1>9, Zenon DEF IInv, TypeOK
  <1>13. Knows(q, epoch) /\ Flies(q, inflight)
    BY <1>2, <1>9, Zenon DEF CallerInv, Knows, Flies, Loading, p
  <1>14. \A e \in Cached : EntryOK(e, sources') /\ e.source # at
    BY <1>5, <1>6, <1>11, Zenon DEF EntryOK
  <1>15. Holds(q, Cached, sources')
    <2>1. \A e \in Cached : e.key # q.key
      BY <1>2, <1>9, Zenon DEF CallerInv, Holds, Loading, p
    <2> QED
      BY <1>4, <1>5, <1>6, <1>9, <1>14, <2>1, Zenon DEF Holds
  <1>16. ASSUME NEW b \in Callers PROVE CallerInv(b)'
    <2>1. CASE b = c
      BY <1>2, <1>10, <1>11, <1>13, <1>15, <2>1, Zenon DEF CallerInv
    <2>2. CASE b # c
      <3>1. callers'[b] = callers[b] /\ CallerInv(b)
        BY <1>10, <2>2, Zenon DEF IInv
      <3>2. Holds(callers[b], Cached, sources')
        BY <1>6, <3>1, Zenon DEF CallerInv, Holds
      <3> QED
        BY <1>2, <1>11, <3>1, <3>2, Zenon DEF CallerInv
    <2> QED
      BY <2>1, <2>2, Zenon
  <1>17. Owned'
    <2> SUFFICES ASSUME NEW i \in 1..Len(sources'), ~sources'[i].released
                 PROVE  InCache(i, Cached') \/ WithLoader(i, callers')
      BY Zenon DEF Owned
    <2>1. CASE i = at
      BY <1>9, <1>10, <2>1, Zenon DEF WithLoader
    <2>2. CASE i \in 1..Len(sources)
      <3>1. InCache(i, Cached) \/ WithLoader(i, callers)
        BY <1>6, <2>2, Zenon DEF IInv, Owned
      <3>2. WithLoader(i, callers) => WithLoader(i, callers')
        BY <1>2, <1>10, Zenon DEF WithLoader, p
      <3> QED
        BY <1>11, <3>1, <3>2, Zenon
    <2> QED
      BY <1>6, <2>1, <2>2, Zenon
  <1>18. SingleFlight'
    <2>1. \A b \in Callers : /\ Loading(callers'[b]) => Loading(callers[b])
                             /\ callers'[b].key = callers[b].key
      BY <1>2, <1>9, <1>10, Zenon DEF Loading, p
    <2> QED
      BY <2>1, Zenon DEF IInv, SingleFlight, Loading
  <1> QED
    BY <1>2, <1>11, <1>12, <1>14, <1>16, <1>17, <1>18, Zenon DEF IInv

(* A load ends: the list is the cache, with what was loaded unless there   *)
(* was nothing, and some of the list are deleted.                          *)
LEMMA StoreStep ==
  ASSUME IInv, NEW c \in Callers, callers[c].phase = "loaded",
         NEW list \in Seq(Entry), Distinct(list), \A e \in Listed(list) : EntryOK(e, sources),
         Cached \subseteq Listed(list),
         callers[c].source # 0 => InCache(callers[c].source, Listed(list)),
         \A e \in Listed(list) :
           e \in Cached \/ /\ e.key = callers[c].key /\ e.source = callers[c].source
                           /\ callers[c].source # 0,
         NEW some, Shrunk(list, some), closed => entries' = <<>>,
         NEW q \in Caller, callers' = [callers EXCEPT ![c] = q], ~Loading(q),
         Knows(q, epoch), Holds(q, Cached', sources'),
         inflight' = [inflight EXCEPT ![callers[c].key] = 0],
         UNCHANGED <<epoch, closed, loads, clock>>
  PROVE  IInv'
  <1>1. \A b \in Callers : callers'[b] = IF b = c THEN q ELSE callers[b]
    BY Zenon DEF IInv, TypeOK
  <1>2. \A b \in Callers : Loading(callers[b]) => callers[b].key \in Key
    BY Zenon DEF IInv, CallerInv, Knows
  <1>3. Loading(callers[c]) /\ callers[c].key \in Key
    BY <1>2, Zenon DEF Loading
  <1>4. ASSUME NEW b \in Callers, b # c, Loading(callers[b])
        PROVE  callers[b].key # callers[c].key
    BY <1>3, <1>4, Zenon DEF IInv, SingleFlight, Loading
  <1>5. TypeOK'
    <2>1. callers' \in [Callers -> Caller]
      BY Zenon DEF IInv, TypeOK
    <2>2. 0 \in Nat
      OBVIOUS
    <2>3. inflight' \in [Key -> Nat]
      BY <2>2, Zenon DEF IInv, TypeOK
    <2> QED
      BY <2>1, <2>3, Zenon DEF IInv, TypeOK, Shrunk
  <1>6. ASSUME NEW b \in Callers PROVE CallerInv(b)'
    <2>1. CASE b = c
      BY <1>1, <2>1, Zenon DEF CallerInv, Flies
    <2>2. CASE b # c
      <3>1. callers'[b] = callers[b] /\ CallerInv(b)
        BY <1>1, <2>2, Zenon DEF IInv
      <3>2. Flies(callers[b], inflight')
        <4> SUFFICES ASSUME Loading(callers[b]) PROVE inflight'[callers[b].key] # 0
          BY Zenon DEF Flies
        <4>1. inflight[callers[b].key] # 0 /\ callers[b].key # callers[c].key
          BY <1>4, <2>2, <3>1, Zenon DEF CallerInv, Flies
        <4> QED
          BY <1>2, <4>1, Zenon DEF IInv, TypeOK
      <3>3. ASSUME callers[b].phase = "loaded", callers[b].source # 0, callers[c].source # 0
            PROVE  callers[b].source # callers[c].source
        <4>1. /\ sources[callers[b].source].key = callers[b].key
              /\ sources[callers[c].source].key = callers[c].key
          BY <3>1, <3>3, Zenon DEF IInv, CallerInv, Holds
        <4>2. callers[b].key # callers[c].key
          BY <1>4, <2>2, <3>3, Zenon DEF Loading
        <4> QED
          BY <4>1, <4>2, Zenon
      <3>4. Holds(callers[b], Cached, sources)
        BY <3>1, Zenon DEF CallerInv
      <3>5. Holds(callers[b], Listed(list), sources)
        <4>1. ASSUME Loading(callers[b]) PROVE \A e \in Listed(list) : e.key # callers[b].key
          BY <1>4, <2>2, <3>4, <4>1, Zenon DEF Holds
        <4>2. ASSUME callers[b].phase = "loaded", callers[b].source # 0
              PROVE  \A e \in Listed(list) : e.source # callers[b].source
          BY <3>3, <3>4, <4>2, Zenon DEF Holds
        <4> QED
          BY <3>4, <4>1, <4>2, Zenon DEF Holds
      <3>6. Holds(callers[b], Cached', sources')
        BY <3>5, HoldsKept, Zenon
      <3> QED
        BY <3>1, <3>2, <3>6, Zenon DEF CallerInv
    <2> QED
      BY <2>1, <2>2, Zenon
  <1>7. Owned'
    <2> SUFFICES ASSUME NEW i \in 1..Len(sources'), ~sources'[i].released
                 PROVE  InCache(i, Cached') \/ WithLoader(i, callers')
      BY Zenon DEF Owned
    <2>1. i \in 1..Len(sources)
      BY Zenon DEF Shrunk
    <2>2. ~sources[i].released /\ (InCache(i, Listed(list)) => InCache(i, Cached'))
      BY <2>1, OwnersKept, Zenon
    <2>3. InCache(i, Cached) => InCache(i, Listed(list))
      BY Zenon DEF InCache
    <2>4. i # 0
      BY <2>1
    <2>5. WithLoader(i, callers) => InCache(i, Listed(list)) \/ WithLoader(i, callers')
      BY <1>1, <2>4, Zenon DEF WithLoader
    <2> QED
      BY <2>1, <2>2, <2>3, <2>5, Zenon DEF IInv, Owned
  <1>8. SingleFlight'
    <2>1. \A b \in Callers : Loading(callers'[b]) => callers'[b] = callers[b]
      BY <1>1, Zenon
    <2> QED
      BY <2>1, Zenon DEF IInv, SingleFlight, Loading
  <1>9. \A e \in Cached' : EntryOK(e, sources')
    BY EntriesKept
  <1> QED
    BY <1>5, <1>6, <1>7, <1>8, <1>9, Zenon DEF IInv, Shrunk

(* The least recently used entries beyond the limit are deleted.           *)
LEMMA Trimmed ==
  ASSUME NEW list \in Seq(Entry), Distinct(list)
  PROVE  /\ Oldest(list) \subseteq Listed(list)
         /\ \E t \in Seq(Entry) :
              /\ t = Without(list, Oldest(list)) /\ Distinct(t) /\ Len(t) <= MaxEntries
              /\ Listed(t) = Listed(list) \ Oldest(list)
  <1>1. Len(list) \in Nat /\ MaxEntries \in Nat /\ DOMAIN list = 1..Len(list)
    BY CacheAssumption
  <1>2. Oldest(list) \subseteq Listed(list)
    <2>1. 1..Len(list) - MaxEntries \subseteq DOMAIN list
      BY <1>1
    <2> QED
      BY <2>1, Zenon DEF Oldest, Listed
  <1>3. PICK t : t = Without(list, Oldest(list))
    BY Zenon
  <1>4. Selected(list, Oldest(list), Len(list), t)
    BY <1>3, WithoutSelects, Zenon
  <1>5. t \in Seq(Entry) /\ Distinct(t) /\ Listed(t) = Listed(list) \ Oldest(list)
    BY <1>1, <1>4, Zenon DEF Selected, Listed
  <1>6. Len(t) \in Nat
    BY <1>5
  <1>7. CASE Len(list) <= MaxEntries
    <2>1. Len(t) <= Len(list)
      BY <1>4, Zenon DEF Selected, Few
    <2> QED
      BY <1>1, <1>2, <1>3, <1>5, <1>6, <1>7, <2>1
  <1>8. CASE ~(Len(list) <= MaxEntries)
    <2>0. Len(list) - MaxEntries \in 0..Len(list)
      BY <1>1, <1>8
    <2>1. PICK m \in 0..Len(list) : m = Len(list) - MaxEntries
      BY <2>0, Zenon
    <2>2. \A i \in 1..m : list[i] \in Oldest(list)
      BY <2>1, Zenon DEF Oldest
    <2>3. Len(t) <= Len(list) - m
      BY <1>4, <2>2, Zenon DEF Selected, Few
    <2>4. Len(t) <= MaxEntries
      BY <1>1, <1>6, <2>1, <2>3
    <2> QED
      BY <1>2, <1>3, <1>5, <2>4, Zenon
  <1> QED
    BY <1>7, <1>8, Zenon

(* The list is the cache with an entry for what a call has loaded.         *)
Enlarged(list, e, q) ==
  /\ list \in Seq(Entry) /\ Distinct(list) /\ Listed(list) = Cached \union {e}
  /\ e \notin Cached /\ e.key = q.key /\ e.source = q.source
  /\ \A f \in Listed(list) : EntryOK(f, sources)
  /\ InCache(q.source, Listed(list))

(* It is as good a list as the cache.                                      *)
LEMMA NewEntry ==
  ASSUME IInv, NEW c \in Callers, callers[c].phase = "loaded", callers[c].source # 0,
         NEW t \in Seq(Entry), Distinct(t), Listed(t) = Cached, NEW until \in Int,
         NEW e, e = [key |-> callers[c].key, source |-> callers[c].source, expires |-> until],
         NEW list, list = Append(t, e)
  PROVE  Enlarged(list, e, callers[c])
  <1>1. Knows(callers[c], epoch) /\ Holds(callers[c], Cached, sources) /\ callers[c] \in Caller
    BY CallKnown, Zenon
  <1>2. /\ callers[c].key \in Key /\ callers[c].source \in Nat
        /\ EntryOK(e, sources) /\ \A f \in Cached : f.source # e.source
    <2>1. e.key = callers[c].key /\ e.source = callers[c].source
      BY Zenon
    <2> QED
      BY <1>1, <2>1, Zenon DEF Knows, Holds, Loading, Caller, EntryOK
  <1>3. e \in Entry /\ e.key = callers[c].key /\ e.source = callers[c].source
    BY <1>2, Zenon DEF Entry
  <1>4. list \in Seq(Entry) /\ Distinct(list) /\ Listed(list) = Cached \union {e}
    BY <1>2, <1>3, Appended, Zenon
  <1>5. \A f \in Cached : EntryOK(f, sources)
    BY Zenon DEF IInv
  <1> QED
    BY <1>2, <1>3, <1>4, <1>5, Zenon DEF InCache, Enlarged

(* A load is stored, and the oldest entries beyond the limit deleted.      *)
LEMMA StoredInv ==
  ASSUME IInv, NEW c \in Callers, Store(c), Storable(callers[c])
  PROVE  IInv'
  <1> DEFINE p == callers[c]
             s == sources[p.source]
             until == IF s.expires - ExpirySkew < s.loaded + MaximumTTL
                        THEN s.expires - ExpirySkew ELSE s.loaded + MaximumTTL
             same == {e \in Cached : e.key = p.key}
             e == [key |-> p.key, source |-> p.source, expires |-> until]
             list == Append(Without(entries, same), e)
  <1>1. p.phase = "loaded" /\ p \in Caller /\ Knows(p, epoch) /\ Holds(p, Cached, sources)
    BY CallKnown, Zenon DEF Store
  <1>2. p.source # 0 /\ p.source \in 1..Len(sources) /\ ~closed
    BY <1>1, Zenon DEF Storable, Holds
  <1>3. until \in Int
    <2>1. s \in Source
      BY <1>2 DEF IInv, TypeOK
    <2>2. s.expires \in Nat /\ s.loaded \in Nat
      BY <2>1, Zenon DEF Source
    <2>3. ExpirySkew \in Int /\ MaximumTTL \in Int
      BY CacheAssumption
    <2> HIDE DEF s
    <2> QED
      BY <2>2, <2>3
  <1>4. /\ entries' = Without(list, Oldest(list)) /\ Erase(ReleasedByStore(p, list))
        /\ callers' = [callers EXCEPT ![c] = [p EXCEPT !.phase = "cloning", !.fresh = TRUE]]
        /\ inflight' = [inflight EXCEPT ![callers[c].key] = 0]
        /\ UNCHANGED <<epoch, closed, loads, clock>>
    BY Zenon DEF Store, Landed
  <1> HIDE DEF until
  <1>5. same = {}
    BY <1>1, Zenon DEF Holds, Loading
  <1>6. PICK t \in Seq(Entry) : /\ t = Without(entries, same) /\ Distinct(t)
                                /\ Listed(t) = Cached
    <2>1. PICK t \in Seq(Entry) : /\ t = Without(entries, same) /\ Distinct(t)
                                  /\ Listed(t) = Cached \ same
      <3> HIDE DEF same
      <3> QED
        BY Kept, Zenon
    <2> QED
      BY <1>5, <2>1, Zenon
  <1> HIDE DEF same
  <1>7. /\ list \in Seq(Entry) /\ Distinct(list) /\ Listed(list) = Cached \union {e}
        /\ e.key = p.key /\ e.source = p.source
        /\ \A f \in Listed(list) : EntryOK(f, sources)
        /\ InCache(p.source, Listed(list))
    <2>1. Enlarged(list, e, callers[c])
      BY <1>1, <1>2, <1>3, <1>6, NewEntry, Zenon
    <2> QED
      BY <2>1, Zenon DEF Enlarged
  <1> HIDE DEF list, e
  <1>8. Erase(Held(Oldest(list)))
    <2>1. ReleasedByStore(p, list) = Held(Oldest(list))
      BY Zenon DEF ReleasedByStore
    <2> QED
      BY <1>4, <2>1, Zenon
  <1>9. Shrunk(list, Oldest(list))
    <2>1. Oldest(list) \subseteq Listed(list)
      BY <1>7, Trimmed, Zenon
    <2>2. PICK u \in Seq(Entry) :
            /\ u = Without(list, Oldest(list)) /\ Distinct(u) /\ Len(u) <= MaxEntries
            /\ Listed(u) = Listed(list) \ Oldest(list)
      BY <1>7, Trimmed, Zenon
    <2> QED
      BY <1>4, <1>8, <2>1, <2>2, Deleted, Zenon
  <1>10. PICK q : q = [p EXCEPT !.phase = "cloning", !.fresh = TRUE]
    BY Zenon
  <1> HIDE DEF p
  <1>11. /\ q \in Caller /\ q.phase = "cloning" /\ q.key = p.key /\ q.source = p.source
         /\ q.request = p.request /\ q.during = p.during
    BY <1>1, <1>10, Zenon DEF Caller, Phases
  <1>12. ~Loading(q) /\ Knows(q, epoch)
    BY <1>1, <1>11, Zenon DEF Loading, Knows
  <1>13. Holds(q, Cached', sources')
    <2>1. sources[p.source].key = p.key
      BY <1>1, <1>2, Zenon DEF Holds
    <2>2. p.source \in 1..Len(sources') /\ sources'[p.source].key = p.key
      BY <1>2, <1>9, <2>1, Zenon DEF Shrunk
    <2> QED
      BY <1>11, <1>12, <2>2, Zenon DEF Holds
  <1>14. callers' = [callers EXCEPT ![c] = q]
    BY <1>4, <1>10, Zenon
  <1> QED
    BY <1>1, <1>2, <1>4, <1>7, <1>9, <1>11, <1>12, <1>13, <1>14, StoreStep, Zenon DEF p

(* A load is not stored: what it loaded, if anything, is released.         *)
LEMMA NotStoredInv ==
  ASSUME IInv, NEW c \in Callers, Store(c), ~Storable(callers[c])
  PROVE  IInv'
  <1> DEFINE p == callers[c]
  <1>1. p.phase = "loaded" /\ p \in Caller
    BY CallKnown, Zenon DEF Store
  <1>2. /\ entries' = Without(entries, Oldest(entries)) /\ Erase(ReleasedByStore(p, entries))
        /\ Return(c) /\ inflight' = [inflight EXCEPT ![callers[c].key] = 0]
        /\ UNCHANGED <<epoch, closed, loads, clock>>
    BY Zenon DEF Store, Landed
  <1>3. /\ entries \in Seq(Entry) /\ Distinct(entries) /\ Len(entries) <= MaxEntries
        /\ sources \in Seq(Source)
    BY Zenon DEF IInv, TypeOK
  <1>4. Oldest(entries) = {}
    <2>1. 1..Len(entries) - MaxEntries = {}
      BY <1>3, CacheAssumption
    <2> QED
      BY <2>1, Zenon DEF Oldest
  <1>5. Erase({p.source})
    <2>1. ReleasedByStore(p, entries) = {p.source}
      BY <1>4, Zenon DEF ReleasedByStore, Held
    <2> QED
      BY <1>2, <2>1, Zenon
  <1>6. /\ entries' \in Seq(Entry) /\ Distinct(entries') /\ Len(entries') <= MaxEntries
        /\ Listed(entries') = Cached
    BY <1>2, <1>3, <1>4, Trimmed, Zenon DEF Cached
  <1>7. closed => entries' = <<>>
    <2> SUFFICES ASSUME closed PROVE entries' = <<>>
      OBVIOUS
    <2>1. Cached = {}
      BY DEF IInv, Cached, Listed
    <2>2. DOMAIN entries' = {}
      BY <1>6, <2>1, Zenon DEF Listed
    <2> QED
      BY <1>6, <2>2
  <1>8. /\ NoCall \in Caller /\ callers' = [callers EXCEPT ![c] = NoCall] /\ ~Loading(NoCall)
        /\ Knows(NoCall, epoch) /\ Holds(NoCall, Cached', sources')
    BY <1>2, NoCallOK, Zenon DEF Return
  <1>9. CASE p.source = 0
    <2>1. 0 \notin DOMAIN sources
      BY <1>3
    <2>2. Erase(Held({}))
      BY <1>5, <1>9, <2>1, Zenon DEF Erase, Held
    <2>3. Shrunk(entries, {})
      BY <1>6, <2>2, Deleted, Zenon DEF Cached
    <2>4. Listed(entries) = Cached /\ \A e \in Cached : EntryOK(e, sources)
      BY Zenon DEF Cached, IInv
    <2> QED
      BY <1>1, <1>2, <1>3, <1>7, <1>8, <1>9, <2>3, <2>4, StoreStep, Zenon
  <1>10. CASE p.source # 0
    <2>1. PICK e : e = [key |-> callers[c].key, source |-> callers[c].source, expires |-> 0]
      BY Zenon
    <2>2. PICK list : list = Append(entries, e)
      BY Zenon
    <2>3. Listed(entries) = Cached /\ 0 \in Int
      BY DEF Cached
    <2>4. /\ list \in Seq(Entry) /\ Distinct(list) /\ Listed(list) = Cached \union {e}
          /\ e \notin Cached /\ e.key = p.key /\ e.source = p.source
          /\ \A f \in Listed(list) : EntryOK(f, sources)
          /\ InCache(p.source, Listed(list))
      <3>1. Enlarged(list, e, callers[c])
        BY <1>1, <1>3, <1>10, <2>1, <2>2, <2>3, NewEntry, Zenon
      <3> QED
        BY <3>1, Zenon DEF Enlarged
    <2>5. Held({e}) = {p.source} /\ Listed(list) \ {e} = Cached /\ {e} \subseteq Listed(list)
      BY <2>4, Zenon DEF Held
    <2>6. Shrunk(list, {e})
      BY <1>5, <1>6, <2>5, Deleted, Zenon
    <2>7. \A f \in Listed(list) : f \in Cached \/ /\ f.key = callers[c].key
                                                  /\ f.source = callers[c].source
                                                  /\ callers[c].source # 0
      BY <1>10, <2>4, Zenon
    <2> QED
      BY <1>1, <1>2, <1>7, <1>8, <2>4, <2>6, <2>7, StoreStep, Zenon
  <1> QED
    BY <1>9, <1>10

(* The entry whose capability could not be cloned is removed.              *)
LEMMA DropInv ==
  ASSUME IInv, NEW c \in Callers, Drop(c)
  PROVE  IInv'
  <1> DEFINE bad == {e \in Cached : e.key = callers[c].key /\ e.source = callers[c].source}
  <1>1. /\ bad \in SUBSET Cached /\ Evict(bad) /\ callers[c].phase = "dropping"
        /\ Return(c) \/ Again(c)
        /\ UNCHANGED <<inflight, epoch, closed, loads, clock>>
    BY Zenon DEF Drop
  <1> HIDE DEF bad
  <1>2. Shrunk(entries, bad)
    BY <1>1, Evicted, Zenon
  <1> QED
    BY <1>1, <1>2, LeaveInv, Zenon

(* An eviction, which may come with a new epoch that every call has seen.  *)
LEMMA EvictionInv ==
  ASSUME IInv, NEW some \in SUBSET Cached, Evict(some), UNCHANGED <<inflight, loads, clock>>,
         epoch' \in Epochs, closed' \in BOOLEAN, closed' => closed \/ some = Cached,
         callers' \in [Callers -> Caller],
         \A b \in Callers :
           /\ callers'[b].phase = callers[b].phase /\ callers'[b].key = callers[b].key
           /\ callers'[b].source = callers[b].source /\ callers'[b].good = callers[b].good
           /\ Knows(callers'[b], epoch')
  PROVE  IInv'
  <1>1. Shrunk(entries, some)
    BY Evicted, Zenon
  <1>2. TypeOK'
    BY <1>1, Zenon DEF IInv, TypeOK, Shrunk
  <1>3. ASSUME NEW b \in Callers PROVE CallerInv(b)'
    <2>1. Holds(callers[b], Cached, sources) /\ Flies(callers[b], inflight)
      BY Zenon DEF IInv, CallerInv
    <2>2. Holds(callers[b], Cached', sources')
      BY <1>1, <2>1, HoldsKept, Zenon DEF Cached
    <2>3. Holds(callers'[b], Cached', sources')
      BY <2>2, Zenon DEF Holds, Loading
    <2>4. Flies(callers'[b], inflight')
      BY <2>1, Zenon DEF Flies, Loading
    <2> QED
      BY <2>3, <2>4, Zenon DEF CallerInv
  <1>4. Owned'
    <2> SUFFICES ASSUME NEW i \in 1..Len(sources'), ~sources'[i].released
                 PROVE  InCache(i, Cached') \/ WithLoader(i, callers')
      BY Zenon DEF Owned
    <2>1. i \in 1..Len(sources)
      BY <1>1, Zenon DEF Shrunk
    <2>2. ~sources[i].released /\ (InCache(i, Cached) => InCache(i, Cached'))
      BY <1>1, <2>1, OwnersKept, Zenon DEF Cached
    <2>3. WithLoader(i, callers) => WithLoader(i, callers')
      BY Zenon DEF WithLoader
    <2> QED
      BY <2>1, <2>2, <2>3, Zenon DEF IInv, Owned
  <1>5. SingleFlight'
    BY Zenon DEF IInv, SingleFlight
  <1>6. \A e \in Cached' : EntryOK(e, sources')
    <2>1. entries \in Seq(Entry) /\ Distinct(entries) /\ \A e \in Listed(entries) : EntryOK(e, sources)
      BY Zenon DEF IInv, TypeOK, Cached
    <2> QED
      BY <1>1, <2>1, EntriesKept
  <1>7. closed' => entries' = <<>>
    <2>1. CASE closed
      BY <1>1, <2>1, SizeKept, Zenon
    <2>2. CASE some = Cached
      <3>1. entries' \in Seq(Entry) /\ Cached' = {}
        BY <1>1, <2>2, Zenon DEF Shrunk, Cached
      <3>2. DOMAIN entries' = {}
        BY <3>1, Zenon DEF Cached, Listed
      <3> QED
        BY <3>1, <3>2
    <2> QED
      BY <2>1, <2>2, Zenon
  <1> QED
    BY <1>1, <1>2, <1>3, <1>4, <1>5, <1>6, <1>7, Zenon DEF IInv, Shrunk

(* The evictions of a binding and of a run, and Close.                     *)
LEMMA EvictInv ==
  ASSUME IInv, NEW some \in SUBSET Cached, Evict(some),
         UNCHANGED <<inflight, epoch, callers, loads, clock>>,
         closed' = closed \/ (closed' = TRUE /\ some = Cached)
  PROVE  IInv'
  <1>1. epoch' \in Epochs /\ callers' \in [Callers -> Caller] /\ closed \in BOOLEAN
    BY Zenon DEF IInv, TypeOK
  <1>2. \A b \in Callers : callers'[b] = callers[b] /\ Knows(callers'[b], epoch')
    BY Zenon DEF IInv, CallerInv
  <1>3. closed' \in BOOLEAN /\ (closed' => closed \/ some = Cached)
    <2>1. CASE closed' = closed
      BY <1>1, <2>1, Zenon
    <2>2. CASE closed' = TRUE /\ some = Cached
      BY <2>2, Zenon
    <2> QED
      BY <2>1, <2>2, Zenon
  <1> QED
    BY <1>1, <1>2, <1>3, EvictionInv, Zenon

(* A new provider epoch.                                                   *)
LEMMA EpochInv ==
  ASSUME IInv, NEW e \in Epochs, SetProviderEpoch(e)
  PROVE  IInv'
  <1> DEFINE seen(b) == IF callers[b].phase = "idle" THEN callers[b]
                        ELSE [callers[b] EXCEPT !.during = @ \union {e}]
  <1>1. /\ callers' = [b \in Callers |-> seen(b)] /\ epoch' = e /\ Evict(Cached)
        /\ UNCHANGED <<inflight, closed, loads, clock>>
    BY Zenon DEF SetProviderEpoch
  <1>2. ASSUME NEW b \in Callers
        PROVE  /\ seen(b) \in Caller
               /\ seen(b).phase = callers[b].phase /\ seen(b).key = callers[b].key
               /\ seen(b).source = callers[b].source /\ seen(b).good = callers[b].good
               /\ Knows(seen(b), e)
    <2>1. callers[b] \in Caller /\ Knows(callers[b], epoch)
      BY CallKnown, Zenon
    <2>2. CASE callers[b].phase = "idle"
      BY <2>1, <2>2, Zenon DEF Knows, Loading
    <2>3. CASE callers[b].phase # "idle"
      <3>1. PICK p : p = callers[b]
        BY Zenon
      <3>2. PICK q : q = [p EXCEPT !.during = @ \union {e}]
        BY Zenon
      <3>3. /\ q \in Caller /\ q.during = p.during \union {e}
            /\ q.phase = p.phase /\ q.request = p.request /\ q.key = p.key
            /\ q.source = p.source /\ q.good = p.good
        BY <2>1, <3>1, <3>2, Zenon DEF Caller, Phases
      <3>4. Knows(q, e)
        BY <2>1, <3>1, <3>3, Zenon DEF Knows, Loading
      <3> QED
        BY <2>3, <3>1, <3>2, <3>3, <3>4, Zenon
    <2> QED
      BY <2>2, <2>3, Zenon
  <1> HIDE DEF seen
  <1>3. callers' \in [Callers -> Caller] /\ \A b \in Callers : callers'[b] = seen(b)
    BY <1>1, <1>2, Zenon
  <1>4. epoch' \in Epochs /\ closed' \in BOOLEAN /\ Cached \in SUBSET Cached
    BY <1>1, Zenon DEF IInv, TypeOK
  <1> QED
    BY <1>1, <1>2, <1>3, <1>4, EvictionInv, Zenon

(* Every step keeps the invariant.                                         *)
LEMMA NextInv == IInv /\ [Next]_vars => IInv'
  <1> SUFFICES ASSUME IInv, [Next]_vars PROVE IInv'
    BY Zenon
  <1>1. ASSUME NEW c \in Callers, NEW r \in Requests, Begin(c, r) PROVE IInv'
    BY <1>1, BeginInv, Zenon
  <1>2. ASSUME NEW c \in Callers, Lookup(c) PROVE IInv'
    BY <1>2, LookupInv, Zenon
  <1>3. ASSUME NEW c \in Callers, Wake(c) \/ Cancel(c) PROVE IInv'
    BY <1>3, WakeInv, Zenon
  <1>4. ASSUME NEW c \in Callers, Load(c) PROVE IInv'
    BY <1>4, LoadInv, Zenon
  <1>5. ASSUME NEW c \in Callers, Store(c) PROVE IInv'
    BY <1>5, StoredInv, NotStoredInv, Zenon
  <1>6. ASSUME NEW c \in Callers, Clone(c) PROVE IInv'
    BY <1>6, CloneInv, Zenon
  <1>7. ASSUME NEW c \in Callers, Drop(c) PROVE IInv'
    BY <1>7, DropInv, Zenon
  <1>8. ASSUME NEW r \in Requests, EvictBinding(r.binding) PROVE IInv'
    <2>1. PICK some : some = {e \in Cached : e.key.request.binding = r.binding}
      BY Zenon
    <2> QED
      BY <1>8, <2>1, EvictInv, Zenon DEF EvictBinding
  <1>9. ASSUME NEW r \in Requests, EvictRun(r.run) PROVE IInv'
    <2>1. PICK some : some = {e \in Cached : e.key.request.run = r.run}
      BY Zenon
    <2> QED
      BY <1>9, <2>1, EvictInv, Zenon DEF EvictRun
  <1>10. ASSUME NEW e \in Epochs, SetProviderEpoch(e) PROVE IInv'
    BY <1>10, EpochInv, Zenon
  <1>11. CASE Close
    <2>1. Cached \in SUBSET Cached
      BY Zenon
    <2> QED
      BY <1>11, <2>1, EvictInv, Zenon DEF Close
  <1>12. CASE Tick \/ UNCHANGED vars
    <2>1. clock' \in Nat /\ UNCHANGED <<entries, sources, inflight, epoch, closed, callers, loads>>
      BY <1>12 DEF Tick, vars, IInv, TypeOK
    <2>2. Cached' = Cached
      BY <2>1, Zenon DEF Cached
    <2> QED
      BY <2>1, <2>2, Zenon DEF IInv, TypeOK, CallerInv, Owned, SingleFlight
  <1> QED
    BY <1>1, <1>2, <1>3, <1>4, <1>5, <1>6, <1>7, <1>8, <1>9, <1>10, <1>11, <1>12, Zenon DEF Next

(* The invariant holds in every state of the cache.                        *)
THEOREM Invariance == Spec => []IInv
  BY InitInv, NextInv, PTL DEF Spec

(* No secret leaks from the cache: a capability that Resolve's provider    *)
(* returned and nobody released is in the cache or with the call that      *)
(* loaded it; no entry holds a released one; the cache is within its limit *)
(* and empty once closed.                                                  *)
THEOREM SourcesStayOwned == Spec => []SourcesAreOwned
  <1>1. IInv => SourcesAreOwned
    <2> SUFFICES ASSUME IInv PROVE SourcesAreOwned
      BY Zenon
    <2>1. /\ DOMAIN sources = 1..Len(sources) /\ DOMAIN entries = 1..Len(entries)
          /\ Len(entries) <= IF closed THEN 0 ELSE MaxEntries
      BY DEF IInv, TypeOK
    <2>2. ASSUME NEW i \in DOMAIN sources, ~sources[i].released
          PROVE  \/ \E j \in DOMAIN entries : entries[j].source = i
                 \/ \E c \in Callers : callers[c].phase = "loaded" /\ callers[c].source = i
      <3>1. InCache(i, Cached) \/ WithLoader(i, callers)
        BY <2>1, <2>2, Zenon DEF IInv, Owned
      <3> QED
        BY <3>1, Zenon DEF InCache, WithLoader, Cached, Listed
    <2>3. \A j \in DOMAIN entries : ~sources[entries[j].source].released
      BY Zenon DEF IInv, Cached, Listed, EntryOK
    <2> QED
      BY <2>1, <2>2, <2>3, Zenon DEF SourcesAreOwned
  <1> QED
    BY <1>1, Invariance, PTL

(* There is one provider call per key at a time, however calls, evictions  *)
(* and epoch changes interleave.                                           *)
THEOREM OneFlightPerKey == Spec => []SingleFlight
  <1>1. IInv => SingleFlight
    BY Zenon DEF IInv
  <1> QED
    BY <1>1, Invariance, PTL

(* Only the clone of a capability hands one out.                           *)
LEMMA HandsOut ==
  ASSUME IInv, Next, NEW c \in Callers,
         callers[c].phase = "cloning", callers'[c].phase = "idle"
  PROVE  Clone(c)
  <1>1. \A b \in Callers : \A q : callers' = [callers EXCEPT ![b] = q] =>
          b = c \/ callers'[c] = callers[c]
    BY Zenon DEF IInv, TypeOK
  <1>2. ASSUME NEW b \in Callers, \/ \E r \in Requests : Begin(b, r)
                                  \/ Lookup(b) \/ Wake(b) \/ Cancel(b) \/ Load(b)
                                  \/ Store(b) \/ Drop(b)
        PROVE  FALSE
    <2>1. callers[b].phase # "cloning"
      BY <1>2, Zenon DEF Begin, Lookup, Wake, Cancel, Load, Store, Drop
    <2>2. \E q : callers' = [callers EXCEPT ![b] = q]
      BY <1>2, Zenon DEF Begin, Lookup, Wake, Cancel, Load, Store, Drop, Return, Again
    <2> QED
      BY <1>1, <2>1, <2>2, Zenon
  <1>3. ASSUME NEW b \in Callers, Clone(b) PROVE b = c
    BY <1>1, <1>3, Zenon DEF Clone, Return
  <1>4. ASSUME NEW e \in Epochs, SetProviderEpoch(e) PROVE FALSE
    <2>1. PICK p : p = callers[c]
      BY Zenon
    <2>2. callers'[c] = [p EXCEPT !.during = @ \union {e}]
      BY <1>4, <2>1, Zenon DEF SetProviderEpoch
    <2>3. p \in Caller
      BY <2>1, Zenon DEF IInv, TypeOK
    <2>4. callers'[c].phase = p.phase
      BY <2>2, <2>3, Zenon DEF Caller, Phases
    <2> QED
      BY <2>1, <2>4, Zenon
  <1> QED
    BY <1>2, <1>3, <1>4, Zenon DEF Next, EvictBinding, EvictRun, Close, Tick

(* A call is only ever handed a capability that was not released, that was *)
(* loaded for its own binding, run and revision, and under a provider      *)
(* epoch that was current at some time during the call.                    *)
THEOREM HandedOutStaysCurrent == Spec => HandedOutIsCurrent
  <1>1. ASSUME IInv, Next, NEW c \in Callers,
               callers[c].phase = "cloning", callers'[c].phase = "idle"
        PROVE  LET s == sources[callers[c].source]
               IN  /\ ~s.released
                   /\ s.key.request = callers[c].request
                   /\ s.key.epoch \in callers[c].during
    <2>1. Clone(c)
      BY <1>1, HandsOut, Zenon
    <2>2. Cloneable(sources[callers[c].source])
      <3> SUFFICES ASSUME callers' = [callers EXCEPT ![c] = [callers[c] EXCEPT !.phase = "dropping"]]
                   PROVE  FALSE
        BY <2>1, Zenon DEF Clone
      <3>1. PICK p : p = callers[c] /\ p \in Caller
        BY <1>1, CallKnown, Zenon
      <3>2. callers'[c] = [p EXCEPT !.phase = "dropping"]
        BY <1>1, <3>1, Zenon DEF IInv, TypeOK
      <3>3. callers'[c].phase = "dropping"
        BY <3>1, <3>2, DroppingOK
      <3> QED
        BY <1>1, <3>3
    <2>3. Knows(callers[c], epoch) /\ Holds(callers[c], Cached, sources)
      BY <1>1, CallKnown, Zenon
    <2> QED
      BY <1>1, <2>2, <2>3, Zenon DEF Cloneable, Knows, Holds
  <1>2. IInv /\ [Next]_vars =>
          [\A c \in Callers :
             callers[c].phase = "cloning" /\ callers'[c].phase = "idle" =>
               LET s == sources[callers[c].source]
               IN  /\ ~s.released
                   /\ s.key.request = callers[c].request
                   /\ s.key.epoch \in callers[c].during]_vars
    BY <1>1, Zenon
  <1> QED
    BY <1>2, Invariance, PTL DEF Spec, HandedOutIsCurrent
-----------------------------------------------------------------------------
(* No load is on the table without the call that will take it off.         *)
FlightsHaveLoaders ==
  \A k \in Key : inflight[k] # 0 =>
    \E c \in Callers : Loading(callers[c]) /\ callers[c].key = k /\ callers[c].load = inflight[k]

(* A waiting call waits for a load of some key.                            *)
Waits(q) == q.phase = "waiting" => q.key \in Key /\ q.load # 0

FlightInv == FlightsHaveLoaders /\ \A c \in Callers : Waits(callers[c])

(* A call that waits will be woken: the channel it waits on is closed, or  *)
(* the very load it waits for is still with a call.                        *)
NoWakeupIsLost ==
  \A c \in Callers : callers[c].phase = "waiting" =>
    \/ inflight[callers[c].key] # callers[c].load
    \/ \E b \in Callers : /\ Loading(callers[b])
                          /\ callers[b].key = callers[c].key
                          /\ callers[b].load = callers[c].load

(* The new state of a call takes no load away from the call.               *)
KeepsLoad(p, q) == Loading(p) => Loading(q) /\ q.key = p.key /\ q.load = p.load

(* Steps that leave the table of loads alone.                              *)
LEMMA TableUnchanged ==
  ASSUME FlightInv, inflight' = inflight,
         \A b \in Callers : KeepsLoad(callers[b], callers'[b]) /\ Waits(callers'[b])
  PROVE  FlightInv'
  <1>1. ASSUME NEW k \in Key, inflight'[k] # 0
        PROVE  \E c \in Callers : /\ Loading(callers'[c]) /\ callers'[c].key = k
                                  /\ callers'[c].load = inflight'[k]
    <2>1. inflight[k] # 0 /\ inflight'[k] = inflight[k]
      BY <1>1, Zenon
    <2>2. PICK c \in Callers : Loading(callers[c]) /\ callers[c].key = k /\ callers[c].load = inflight[k]
      BY <2>1, Zenon DEF FlightInv, FlightsHaveLoaders
    <2>3. Loading(callers'[c]) /\ callers'[c].key = k /\ callers'[c].load = inflight'[k]
      BY <2>1, <2>2, Zenon DEF KeepsLoad
    <2> QED
      BY <2>3, Zenon
  <1> QED
    BY <1>1, Zenon DEF FlightInv, FlightsHaveLoaders

(* The same for a step of one call.                                        *)
LEMMA OneCallMoves ==
  ASSUME IInv, FlightInv, inflight' = inflight, NEW c \in Callers, NEW q,
         callers' = [callers EXCEPT ![c] = q], KeepsLoad(callers[c], q), Waits(q)
  PROVE  FlightInv'
  <1>1. \A b \in Callers : callers'[b] = IF b = c THEN q ELSE callers[b]
    BY Zenon DEF IInv, TypeOK
  <1>2. \A b \in Callers : KeepsLoad(callers[b], callers'[b]) /\ Waits(callers'[b])
    BY <1>1, Zenon DEF FlightInv, KeepsLoad
  <1> QED
    BY <1>2, TableUnchanged, Zenon

(* A call in any other phase does not wait.                                *)
LEMMA OtherPhase ==
  ASSUME NEW q \in Caller, NEW phase \in Phases, NEW p,
         p = [q EXCEPT !.phase = phase], phase # "waiting"
  PROVE  Waits(p)
  BY Zenon DEF Caller, Phases, Waits

(* Nor does a call that has returned.                                      *)
LEMMA NoCallWaitsNot == Waits(NoCall)
  BY Zenon DEF Waits, NoCall

(* A call that begins, or goes round the loop of Resolve, does not wait.   *)
LEMMA NewCallWaitsNot ==
  ASSUME NEW r, NEW now, NEW eps, NEW q,
         q = [NoCall EXCEPT !.phase = "lookup", !.request = r, !.now = now, !.during = eps]
  PROVE  Waits(q)
  BY Zenon DEF Waits, NoCall

(* A step of a call that is not loading and does not touch the table.      *)
LEMMA IdleMoves ==
  ASSUME IInv, FlightInv, NEW c \in Callers, ~Loading(callers[c]),
         \/ \E r \in Requests : Begin(c, r)
         \/ Wake(c) \/ Cancel(c) \/ Clone(c) \/ Drop(c)
  PROVE  FlightInv'
  <1>1. inflight' = inflight
    BY Zenon DEF Begin, Wake, Cancel, Clone, Drop
  <1>2. PICK p : p = callers[c] /\ p \in Caller
    BY Zenon DEF IInv, TypeOK
  <1>3. \E q : callers' = [callers EXCEPT ![c] = q] /\ Waits(q)
    <2>1. "dropping" \in Phases /\ "dropping" # "waiting"
      BY Zenon DEF Phases
    <2>2. Waits([p EXCEPT !.phase = "dropping"])
      BY <1>2, <2>1, OtherPhase
    <2>3. CASE \E r \in Requests : Begin(c, r)
      <3>1. PICK r \in Requests : Begin(c, r)
        BY <2>3, Zenon
      <3>2. PICK q : q = [NoCall EXCEPT !.phase = "lookup", !.request = r,
                                        !.now = clock, !.during = {epoch}]
        BY Zenon
      <3>3. callers' = [callers EXCEPT ![c] = q]
        BY <3>1, <3>2, Zenon DEF Begin
      <3>4. Waits(q)
        BY <3>2, NewCallWaitsNot, Zenon
      <3> QED
        BY <3>3, <3>4, Zenon
    <2>4. ASSUME Return(c) \/ Again(c)
          PROVE  \E q : callers' = [callers EXCEPT ![c] = q] /\ Waits(q)
      <3>1. CASE Return(c)
        BY <3>1, NoCallWaitsNot, Zenon DEF Return
      <3>2. CASE Again(c)
        <4>1. PICK q : q = [NoCall EXCEPT !.phase = "lookup", !.request = p.request,
                                          !.now = clock, !.during = p.during]
          BY Zenon
        <4>2. callers' = [callers EXCEPT ![c] = q]
          BY <1>2, <3>2, <4>1, Zenon DEF Again
        <4>3. Waits(q)
          BY <4>1, NewCallWaitsNot, Zenon
        <4> QED
          BY <4>2, <4>3, Zenon
      <3> QED
        BY <2>4, <3>1, <3>2, Zenon
    <2>5. CASE Wake(c) \/ Cancel(c) \/ Drop(c)
      BY <2>4, <2>5, Zenon DEF Wake, Cancel, Drop
    <2>6. CASE Clone(c)
      BY <1>2, <2>2, <2>4, <2>6, Zenon DEF Clone
    <2> QED
      BY <2>3, <2>5, <2>6, Zenon
  <1> QED
    BY <1>1, <1>3, OneCallMoves, Zenon DEF KeepsLoad

(* The lookup of Resolve: who begins a load puts it on the table, who      *)
(* joins one finds it there.                                               *)
LEMMA LookupFlight ==
  ASSUME IInv, FlightInv, NEW c \in Callers, Lookup(c)
  PROVE  FlightInv'
  <1>1. PICK q : q = callers[c] /\ q \in Caller /\ q.phase = "lookup" /\ ~Loading(q)
    BY Zenon DEF IInv, TypeOK, Lookup, Loading
  <1>2. PICK k : k = [request |-> q.request, epoch |-> epoch] /\ k \in Key
    BY <1>1, Zenon DEF IInv, TypeOK, CallerInv, Knows, Key
  <1>3. ASSUME NEW p, callers' = [callers EXCEPT ![c] = p], Waits(p), inflight' = inflight
        PROVE  FlightInv'
    BY <1>1, <1>3, OneCallMoves, Zenon DEF KeepsLoad
  <1>4. CASE callers' = [callers EXCEPT ![c] = NoCall] /\ inflight' = inflight
    BY <1>3, <1>4, NoCallWaitsNot, Zenon
  <1>5. ASSUME NEW s, inflight' = inflight,
               callers' = [callers EXCEPT ![c] = [q EXCEPT !.phase = "cloning", !.key = k, !.now = 0,
                                                            !.source = s, !.fresh = FALSE]]
        PROVE  FlightInv'
    <2>1. PICK p : p = [q EXCEPT !.phase = "cloning", !.key = k, !.now = 0,
                                 !.source = s, !.fresh = FALSE]
      BY Zenon
    <2>2. Waits(p)
      BY <1>1, <2>1, Zenon DEF Caller, Phases, Waits
    <2> QED
      BY <1>3, <1>5, <2>1, <2>2, Zenon
  <1>6. ASSUME inflight' = inflight, Join(k),
               callers' = [callers EXCEPT ![c] = [q EXCEPT !.phase = "waiting", !.key = k, !.now = 0,
                                                            !.load = inflight[k]]]
        PROVE  FlightInv'
    <2>1. PICK p : p = [q EXCEPT !.phase = "waiting", !.key = k, !.now = 0, !.load = inflight[k]]
      BY Zenon
    <2>2. p.key = k /\ p.load = inflight[k]
      BY <1>1, <2>1, Zenon DEF Caller
    <2>3. Waits(p)
      BY <1>2, <1>6, <2>2, Zenon DEF Waits, Join
    <2> QED
      BY <1>3, <1>6, <2>1, <2>3, Zenon
  <1>7. ASSUME NEW n, n # 0, inflight' = [inflight EXCEPT ![k] = n],
               callers' = [callers EXCEPT ![c] = [q EXCEPT !.phase = "loading", !.key = k, !.now = 0,
                                                            !.load = n]]
        PROVE  FlightInv'
    <2>1. PICK p : p = [q EXCEPT !.phase = "loading", !.key = k, !.now = 0, !.load = n]
      BY Zenon
    <2>2. p.phase = "loading" /\ p.key = k /\ p.load = n
      BY <1>1, <2>1, Zenon DEF Caller
    <2>3. \A b \in Callers : callers'[b] = IF b = c THEN p ELSE callers[b]
      BY <1>7, <2>1, Zenon DEF IInv, TypeOK
    <2>4. \A j \in Key : inflight'[j] = IF j = k THEN n ELSE inflight[j]
      BY <1>7, Zenon DEF IInv, TypeOK
    <2>5. Waits(p) /\ Loading(p)
      BY <2>2, Zenon DEF Waits, Loading
    <2>6. ASSUME NEW j \in Key, inflight'[j] # 0
          PROVE  \E b \in Callers : /\ Loading(callers'[b]) /\ callers'[b].key = j
                                    /\ callers'[b].load = inflight'[j]
      <3>1. CASE j = k
        BY <2>2, <2>3, <2>4, <2>5, <3>1, Zenon
      <3>2. CASE j # k
        <4>1. PICK b \in Callers : Loading(callers[b]) /\ callers[b].key = j /\ callers[b].load = inflight[j]
          BY <2>4, <2>6, <3>2, Zenon DEF FlightInv, FlightsHaveLoaders
        <4>2. b # c
          BY <1>1, <4>1, Zenon
        <4> QED
          BY <2>3, <2>4, <3>2, <4>1, <4>2, Zenon
      <3> QED
        BY <3>1, <3>2, Zenon
    <2>7. \A b \in Callers : Waits(callers'[b])
      BY <2>3, <2>5, Zenon DEF FlightInv
    <2> QED
      BY <2>6, <2>7, Zenon DEF FlightInv, FlightsHaveLoaders
  <1>8. loads + 1 # 0
    BY DEF IInv, TypeOK
  <1> QED
    BY <1>1, <1>2, <1>4, <1>5, <1>6, <1>7, <1>8, Zenon DEF Lookup, Return

(* The provider's answer stays with the call that asked for it.            *)
LEMMA LoadFlight ==
  ASSUME IInv, FlightInv, NEW c \in Callers, Load(c)
  PROVE  FlightInv'
  <1>1. PICK q : q = callers[c] /\ q \in Caller
    BY Zenon DEF IInv, TypeOK
  <1>2. PICK good, s : callers' = [callers EXCEPT ![c] =
                                     [q EXCEPT !.phase = "loaded", !.good = good, !.source = s]]
    BY <1>1, Zenon DEF Load
  <1>3. PICK p : p = [q EXCEPT !.phase = "loaded", !.good = good, !.source = s]
    BY Zenon
  <1>4. p.phase = "loaded" /\ p.key = q.key /\ p.load = q.load
    BY <1>1, <1>3, Zenon DEF Caller
  <1>5. KeepsLoad(q, p) /\ Waits(p)
    BY <1>4, Zenon DEF KeepsLoad, Waits, Loading
  <1>6. inflight' = inflight
    BY Zenon DEF Load
  <1> QED
    BY <1>1, <1>2, <1>3, <1>5, <1>6, OneCallMoves, Zenon

(* The end of a load takes it, and no other, off the table.                *)
LEMMA StoreFlight ==
  ASSUME IInv, FlightInv, NEW c \in Callers, Store(c)
  PROVE  FlightInv'
  <1>1. PICK q : q = callers[c] /\ q \in Caller /\ q.phase = "loaded" /\ Loading(q) /\ q.key \in Key
    BY Zenon DEF IInv, TypeOK, CallerInv, Knows, Store, Loading
  <1>2. inflight' = [inflight EXCEPT ![q.key] = 0]
    BY <1>1, Zenon DEF Store, Landed
  <1>3. PICK p : callers' = [callers EXCEPT ![c] = p] /\ Waits(p)
    <2>1. PICK r : r = [q EXCEPT !.phase = "cloning", !.fresh = TRUE]
      BY Zenon
    <2>2. Waits(r)
      BY <1>1, <2>1, Zenon DEF Caller, Phases, Waits
    <2> QED
      BY <1>1, <2>1, <2>2, NoCallWaitsNot, Zenon DEF Store, Return
  <1>4. \A b \in Callers : callers'[b] = IF b = c THEN p ELSE callers[b]
    BY <1>3, Zenon DEF IInv, TypeOK
  <1>5. \A j \in Key : inflight'[j] = IF j = q.key THEN 0 ELSE inflight[j]
    BY <1>2, Zenon DEF IInv, TypeOK
  <1>6. ASSUME NEW j \in Key, inflight'[j] # 0
        PROVE  \E b \in Callers : /\ Loading(callers'[b]) /\ callers'[b].key = j
                                  /\ callers'[b].load = inflight'[j]
    <2>1. j # q.key /\ inflight'[j] = inflight[j]
      BY <1>5, <1>6, Zenon
    <2>2. PICK b \in Callers : Loading(callers[b]) /\ callers[b].key = j /\ callers[b].load = inflight[j]
      BY <1>6, <2>1, Zenon DEF FlightInv, FlightsHaveLoaders
    <2>3. b # c
      BY <1>1, <2>1, <2>2, Zenon
    <2> QED
      BY <1>4, <2>1, <2>2, <2>3, Zenon
  <1>7. \A b \in Callers : Waits(callers'[b])
    BY <1>3, <1>4, Zenon DEF FlightInv
  <1> QED
    BY <1>6, <1>7, Zenon DEF FlightInv, FlightsHaveLoaders

(* A new epoch takes no load off the table and wakes nobody.               *)
LEMMA EpochFlight ==
  ASSUME IInv, FlightInv, NEW e \in Epochs, SetProviderEpoch(e)
  PROVE  FlightInv'
  <1>1. ASSUME NEW b \in Callers PROVE KeepsLoad(callers[b], callers'[b]) /\ Waits(callers'[b])
    <2>1. PICK q : q = callers[b] /\ q \in Caller /\ Waits(q)
      BY Zenon DEF IInv, TypeOK, FlightInv
    <2>2. callers'[b] = q \/ callers'[b] = [q EXCEPT !.during = @ \union {e}]
      BY <2>1, Zenon DEF SetProviderEpoch
    <2>3. PICK p : p = callers'[b]
      BY Zenon
    <2>4. p.phase = q.phase /\ p.key = q.key /\ p.load = q.load
      BY <2>1, <2>2, <2>3, Zenon DEF Caller
    <2> QED
      BY <2>1, <2>3, <2>4, Zenon DEF KeepsLoad, Waits, Loading
  <1>2. inflight' = inflight
    BY Zenon DEF SetProviderEpoch
  <1> QED
    BY <1>1, <1>2, TableUnchanged, Zenon

(* Every step keeps the table and the calls together.                      *)
LEMMA NextFlight == IInv /\ FlightInv /\ [Next]_vars => FlightInv'
  <1> SUFFICES ASSUME IInv, FlightInv, [Next]_vars PROVE FlightInv'
    BY Zenon
  <1>1. ASSUME NEW c \in Callers,
               \/ \E r \in Requests : Begin(c, r)
               \/ Wake(c) \/ Cancel(c) \/ Clone(c) \/ Drop(c)
        PROVE  FlightInv'
    <2>1. ~Loading(callers[c])
      BY <1>1, Zenon DEF Begin, Wake, Cancel, Clone, Drop, Loading
    <2> QED
      BY <1>1, <2>1, IdleMoves, Zenon
  <1>2. ASSUME NEW c \in Callers, Lookup(c) \/ Load(c) \/ Store(c) PROVE FlightInv'
    BY <1>2, LookupFlight, LoadFlight, StoreFlight, Zenon
  <1>3. ASSUME NEW e \in Epochs, SetProviderEpoch(e) PROVE FlightInv'
    BY <1>3, EpochFlight, Zenon
  <1>4. ASSUME UNCHANGED <<inflight, callers>> PROVE FlightInv'
    BY <1>4, Zenon DEF FlightInv, FlightsHaveLoaders
  <1> QED
    BY <1>1, <1>2, <1>3, <1>4, Zenon DEF Next, EvictBinding, EvictRun, Close, Tick, vars

(* No wakeup is lost in the single flight of Resolve: as long as the load  *)
(* a call waits for is in flight, some call is loading it and will take    *)
(* it off the table, however loads fail, waiters are cancelled, entries    *)
(* are evicted, epochs change and the cache is closed.                     *)
THEOREM WaitersAreWoken == Spec => []NoWakeupIsLost
  <1>1. Init => FlightInv
    <2> SUFFICES ASSUME Init PROVE FlightInv
      BY Zenon
    <2>1. \A k \in Key : inflight[k] = 0
      BY Zenon DEF Init
    <2>2. \A c \in Callers : callers[c] = NoCall
      BY Zenon DEF Init
    <2> QED
      BY <2>1, <2>2, NoCallWaitsNot, Zenon DEF FlightInv, FlightsHaveLoaders
  <1>2. FlightInv => NoWakeupIsLost
    <2> SUFFICES ASSUME FlightInv, NEW c \in Callers, callers[c].phase = "waiting",
                        inflight[callers[c].key] = callers[c].load
                 PROVE  \E b \in Callers : /\ Loading(callers[b])
                                           /\ callers[b].key = callers[c].key
                                           /\ callers[b].load = callers[c].load
      BY Zenon DEF NoWakeupIsLost
    <2>1. callers[c].key \in Key /\ inflight[callers[c].key] # 0
      BY Zenon DEF FlightInv, Waits
    <2>2. PICK b \in Callers : /\ Loading(callers[b]) /\ callers[b].key = callers[c].key
                               /\ callers[b].load = inflight[callers[c].key]
      BY <2>1, Zenon DEF FlightInv, FlightsHaveLoaders
    <2> QED
      BY <2>2, Zenon
  <1>3. IInv /\ FlightInv /\ [Next]_vars => FlightInv'
    BY NextFlight
  <1> QED
    BY <1>1, <1>2, <1>3, Invariance, PTL DEF Spec
=============================================================================
