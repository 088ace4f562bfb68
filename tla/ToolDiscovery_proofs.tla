------------------------- MODULE ToolDiscovery_proofs -------------------------
(* Proofs about discovery, for any number of tool versions, definitions,   *)
(* clients, page sizes and any lifetime of a cursor.                       *)
EXTENDS ToolDiscovery, WellFoundedInduction, TLAPS

(* The walks as the handler leaves them.                                   *)
Tools == Keys \X Definitions

Rows == {Absent} \union {Row(s, d) : s \in {"draft", "published", "retired"}, d \in Definitions}

TypeOK ==
  /\ versions \in [Keys -> Rows]
  /\ enabled \subseteq Keys
  /\ granted \subseteq Keys
  /\ clock \in Nat
  /\ walks \in [Clients -> Walk]

Sorted(list) == \A i, j \in 1..Len(list) : i < j => list[i][1] < list[j][1]

KeysOf(list) == {list[i][1] : i \in 1..Len(list)}

(* A list has one version of a key: the table's primary key.               *)
OnePerKey(tools) == \A s, t \in tools : s[1] = t[1] => s = t

(* The walk has come to key p: it was shown nothing beyond p, and all that *)
(* was there throughout up to p.                                           *)
Reached(w, p) ==
  /\ \A k \in KeysOf(w.shown) : k <= p
  /\ \A k \in w.steady : k <= p => k \in KeysOf(w.shown)

(* What a walk is by itself.  A cursor is the client's own, and it is one  *)
(* that the walk has reached.                                              *)
WalkOK(c, w) ==
  /\ Sorted(w.shown)
  /\ w.cursor # Null =>
       /\ w.target = Null
       /\ w.cursor.binding[1] = c
       /\ Reached(w, w.cursor.after)
  /\ w.phase \in {"asked", "listed"} =>
       /\ Reached(w, w.from)
       /\ w.target = Null => w.limit # 0
       /\ w.target # Null => w.shown = <<>> /\ w.steady \subseteq {w.target}
  /\ w.phase = "listed" => w.steady \subseteq {t[1] : t \in w.listed}
  /\ w.phase = "ended" => w.steady \subseteq KeysOf(w.shown)
  /\ OnePerKey(w.listed)

Released(t, table) == table[t[1]] \in {Row("published", t[2]), Row("retired", t[2])}

(* What a walk knows of the catalog.                                       *)
WalkHolds(w, visible, table) ==
  /\ w.steady \subseteq visible
  /\ \A i \in 1..Len(w.shown) : Released(w.shown[i], table)
  /\ \A t \in w.listed : Released(t, table)

IInv ==
  /\ TypeOK
  /\ \A c \in Clients : WalkOK(c, walks[c]) /\ WalkHolds(walks[c], Visible, versions)

-----------------------------------------------------------------------------
(* A set of natural numbers has a least member.                            *)
LEMMA LeastNumber ==
  ASSUME NEW T \in SUBSET Nat, T # {}
  PROVE  \E x \in T : \A y \in T : x <= y
  <1> DEFINE less == {ss \in Nat \X Nat : ss[1] < ss[2]}
  <1>1. IsWellFoundedOn(less, Nat)
    BY NatLessThanWellFounded, Zenon DEF OpToRel
  <1>2. PICK x \in T : \A y \in T : ~(<<y, x>> \in less)
    BY <1>1, WFMin, Zenon
  <1>3. ASSUME NEW y \in T, y < x PROVE FALSE
    <2>1. <<y, x>> \in Nat \X Nat /\ <<y, x>>[1] = y /\ <<y, x>>[2] = x
      OBVIOUS
    <2>2. <<y, x>> \in less
      BY <1>3, <2>1, Zenon
    <2> QED
      BY <1>2, <2>2
  <1> QED
    BY <1>3

(* A set with 0 and with every successor holds every number.               *)
LEMMA SetInduction ==
  ASSUME NEW S \in SUBSET Nat, 0 \in S, \A n \in S : n + 1 \in S
  PROVE  S = Nat
  <1> SUFFICES ASSUME S # Nat PROVE FALSE
    OBVIOUS
  <1>1. PICK x \in Nat \ S : \A y \in Nat \ S : x <= y
    BY LeastNumber, Zenon
  <1>2. x # 0 /\ x - 1 \in Nat
    BY <1>1
  <1>3. x - 1 \in S
    BY <1>1, <1>2
  <1> QED
    BY <1>3

(* The tool of one key joins the list.                                     *)
Round(tools, n, before) ==
  IF \E t \in tools : t[1] = n THEN Append(before, CHOOSE t \in tools : t[1] = n) ELSE before

(* f holds the list of the tools with the first n keys, for each number.   *)
Loop(tools, n, f) ==
  f = [i \in 0..n |-> IF i = 0 THEN <<>> ELSE Round(tools, i, f[i - 1])]

(* There is such a function for every number of keys.                      *)
LEMMA LoopExists ==
  ASSUME NEW tools, NEW n \in Nat
  PROVE  \E f : Loop(tools, n, f)
  <1> DEFINE S == {m \in Nat : \E f : Loop(tools, m, f)}
  <1>1. 0 \in S
    <2> DEFINE f == [i \in 0..0 |-> <<>>]
    <2>1. Loop(tools, 0, f)
      BY DEF Loop
    <2> QED
      BY <2>1
  <1>2. ASSUME NEW m \in S PROVE m + 1 \in S
    <2>1. PICK f : Loop(tools, m, f)
      OBVIOUS
    <2> DEFINE g == [i \in 0..m + 1 |-> IF i = m + 1 THEN Round(tools, m + 1, f[m]) ELSE f[i]]
    <2>2. ASSUME NEW i \in 0..m + 1
          PROVE  g[i] = IF i = 0 THEN <<>> ELSE Round(tools, i, g[i - 1])
      <3>1. CASE i = m + 1
        BY <3>1
      <3>2. CASE i # m + 1
        <4>1. i \in 0..m
          BY <3>2
        <4>2. f[i] = IF i = 0 THEN <<>> ELSE Round(tools, i, f[i - 1])
          BY <2>1, <4>1, Zenon DEF Loop
        <4>3. g[i] = f[i] /\ (i # 0 => g[i - 1] = f[i - 1])
          BY <3>2, <4>1
        <4> QED
          BY <4>2, <4>3, Zenon
      <3> QED
        BY <3>1, <3>2
    <2>3. Loop(tools, m + 1, g)
      <3>1. g = [i \in 0..m + 1 |-> g[i]]
        OBVIOUS
      <3> HIDE DEF g
      <3> QED
        BY <2>2, <3>1, Zenon DEF Loop
    <2> QED
      BY <2>3
  <1>3. S = Nat
    <2> HIDE DEF S
    <2>1. S \in SUBSET Nat
      BY DEF S
    <2> QED
      BY <1>1, <1>2, <2>1, SetInduction
  <1> QED
    BY <1>3

(* ByKey is the list after the last key.                                   *)
LEMMA ByKeyLoop ==
  ASSUME NEW tools
  PROVE  \E f : Loop(tools, LastKey, f) /\ ByKey(tools) = f[LastKey]
  <1> DEFINE upTo == CHOOSE f : f = [n \in 0..LastKey |->
                       IF n = 0 THEN <<>>
                       ELSE IF \E t \in tools : t[1] = n
                              THEN Append(f[n - 1], CHOOSE t \in tools : t[1] = n)
                              ELSE f[n - 1]]
  <1>1. Loop(tools, LastKey, upTo)
    <2>1. \E f : f = [n \in 0..LastKey |->
                       IF n = 0 THEN <<>>
                       ELSE IF \E t \in tools : t[1] = n
                              THEN Append(f[n - 1], CHOOSE t \in tools : t[1] = n)
                              ELSE f[n - 1]]
      <3>1. PICK f : Loop(tools, LastKey, f)
        BY LoopExists, CatalogAssumption, Zenon
      <3> QED
        BY <3>1, Zenon DEF Loop, Round
    <2> QED
      BY <2>1, Zenon DEF Loop, Round
  <1>2. ByKey(tools) = upTo[LastKey]
    BY DEF ByKey
  <1> QED
    BY <1>1, <1>2, Zenon

(* The list holds the tools in the order of their keys.                    *)
InOrder(tools, list) ==
  /\ list \in Seq(Tools)
  /\ Sorted(list)
  /\ {list[i] : i \in 1..Len(list)} = tools

UpTo(tools, n) == {t \in tools : t[1] <= n}

(* A round keeps the list in order.                                        *)
LEMMA RoundInOrder ==
  ASSUME NEW tools \in SUBSET Tools, OnePerKey(tools), NEW n \in Nat,
         NEW list, InOrder(UpTo(tools, n), list)
  PROVE  InOrder(UpTo(tools, n + 1), Round(tools, n + 1, list))
  <1>1. \A t \in tools : t[1] \in Nat
    BY CatalogAssumption DEF Tools, Keys
  <1>2. CASE \E t \in tools : t[1] = n + 1
    <2>1. PICK t \in tools : t[1] = n + 1 /\ Round(tools, n + 1, list) = Append(list, t)
      BY <1>2 DEF Round
    <2> DEFINE next == Append(list, t)
    <2>2. list \in Seq(Tools) /\ t \in Tools
      BY DEF InOrder
    <2>3. next \in Seq(Tools) /\ Len(next) = Len(list) + 1 /\ Len(list) \in Nat
      BY <2>2
    <2>4. next[Len(list) + 1] = t /\ \A i \in 1..Len(list) : next[i] = list[i]
      BY <2>2
    <2> HIDE DEF next
    <2>5. UpTo(tools, n + 1) = UpTo(tools, n) \union {t}
      <3>1. ASSUME NEW u \in tools PROVE u[1] <= n + 1 <=> u[1] <= n \/ u = t
        <4>1. u[1] = t[1] <=> u = t
          BY <2>1 DEF OnePerKey
        <4> QED
          BY <1>1, <2>1, <4>1
      <3> QED
        BY <2>1, <3>1 DEF UpTo
    <2>6. {next[i] : i \in 1..Len(next)} = {list[i] : i \in 1..Len(list)} \union {t}
      BY <2>3, <2>4
    <2>7. ASSUME NEW i \in 1..Len(list) PROVE list[i][1] <= n
      BY DEF InOrder, UpTo
    <2>8. Sorted(next)
      <3> SUFFICES ASSUME NEW i \in 1..Len(next), NEW j \in 1..Len(next), i < j
                   PROVE  next[i][1] < next[j][1]
        BY DEF Sorted
      <3>1. i \in 1..Len(list) /\ next[i] = list[i] /\ list[i][1] \in Nat
        <4>1. i \in 1..Len(list)
          BY <2>3
        <4>2. list[i] \in tools
          BY <4>1 DEF InOrder, UpTo
        <4> QED
          BY <1>1, <2>4, <4>1, <4>2
      <3>2. CASE j \in 1..Len(list)
        BY <2>4, <3>1, <3>2 DEF InOrder, Sorted
      <3>3. CASE j = Len(list) + 1
        BY <2>1, <2>4, <2>7, <3>1, <3>3
      <3> QED
        BY <2>3, <3>2, <3>3
    <2> QED
      BY <2>1, <2>3, <2>5, <2>6, <2>8 DEF InOrder, next
  <1>3. CASE ~\E t \in tools : t[1] = n + 1
    <2>1. UpTo(tools, n + 1) = UpTo(tools, n)
      BY <1>1, <1>3 DEF UpTo
    <2> QED
      BY <1>3, <2>1 DEF Round
  <1> QED
    BY <1>2, <1>3

(* sort.Slice: the visible tools, all of them, in the order of their keys. *)
LEMMA ByKeyInOrder ==
  ASSUME NEW tools \in SUBSET Tools, OnePerKey(tools)
  PROVE  InOrder(tools, ByKey(tools))
  <1>1. PICK f : Loop(tools, LastKey, f) /\ ByKey(tools) = f[LastKey]
    BY ByKeyLoop, Zenon
  <1> DEFINE S == {n \in Nat : n <= LastKey => InOrder(UpTo(tools, n), f[n])}
  <1>2. LastKey \in Nat
    BY CatalogAssumption
  <1>3. 0 \in S
    <2>1. f[0] = <<>>
      BY <1>1, <1>2 DEF Loop
    <2>2. UpTo(tools, 0) = {}
      BY <1>2 DEF UpTo, Tools, Keys
    <2>3. InOrder({}, <<>>)
      BY DEF InOrder, Sorted
    <2> QED
      BY <2>1, <2>2, <2>3
  <1>4. ASSUME NEW n \in S PROVE n + 1 \in S
    <2> SUFFICES ASSUME n + 1 <= LastKey PROVE InOrder(UpTo(tools, n + 1), f[n + 1])
      OBVIOUS
    <2>1. n \in Nat /\ InOrder(UpTo(tools, n), f[n])
      BY <1>2
    <2>2. f[n + 1] = Round(tools, n + 1, f[n])
      <3>1. n + 1 \in 0..LastKey /\ n + 1 # 0 /\ n + 1 - 1 = n
        BY <1>2
      <3>2. \A i \in 0..LastKey : f[i] = IF i = 0 THEN <<>> ELSE Round(tools, i, f[i - 1])
        BY <1>1, Zenon DEF Loop
      <3> QED
        BY <3>1, <3>2
    <2> QED
      BY <2>1, <2>2, RoundInOrder
  <1>5. S = Nat
    <2> HIDE DEF S
    <2>1. S \in SUBSET Nat
      BY DEF S
    <2> QED
      BY <1>3, <1>4, <2>1, SetInduction
  <1>6. InOrder(UpTo(tools, LastKey), f[LastKey])
    BY <1>2, <1>5
  <1>7. UpTo(tools, LastKey) = tools
    BY <1>2 DEF UpTo, Tools, Keys
  <1> QED
    BY <1>1, <1>6, <1>7

(* sort.Search on a list in order: it finds where the tools after the      *)
(* cursor begin.                                                           *)
LEMMA StartFound ==
  ASSUME NEW tools \in Seq(Tools), Sorted(tools), NEW key \in Nat
  PROVE  /\ Start(tools, key) \in 0..Len(tools)
         /\ \A i \in 1..Len(tools) : i > Start(tools, key) <=> tools[i][1] > key
  <1> DEFINE T == {n \in Nat : /\ n <= Len(tools)
                              /\ \A i \in 1..Len(tools) : i > n => tools[i][1] > key}
  <1>1. Len(tools) \in Nat /\ \A i \in 1..Len(tools) : tools[i][1] \in Nat
    BY CatalogAssumption DEF Tools, Keys
  <1>2. Len(tools) \in T
    BY <1>1
  <1>3. PICK n \in T : \A m \in T : n <= m
    <2> HIDE DEF T
    <2>1. T \in SUBSET Nat
      BY DEF T
    <2> QED
      BY <1>2, <2>1, LeastNumber
  <1>4. ASSUME NEW i \in 1..Len(tools), i <= n PROVE tools[i][1] <= key
    <2>0. n \in Nat /\ n <= Len(tools)
      BY <1>3
    <2>1. n - 1 \in Nat /\ n \in 1..Len(tools) /\ ~(n <= n - 1)
      BY <1>1, <1>4, <2>0
    <2>2. n - 1 \notin T
      BY <1>3, <2>1, Zenon
    <2>3. PICK j \in 1..Len(tools) : j > n - 1 /\ ~(tools[j][1] > key)
      <3>1. n - 1 <= Len(tools)
        BY <1>1, <2>0
      <3> QED
        BY <2>1, <2>2, <3>1, Zenon
    <2>4. j = n
      <3>1. ~(j > n)
        BY <1>3, <2>3, Zenon
      <3> QED
        BY <2>0, <2>3, <3>1
    <2>5. tools[i][1] <= tools[n][1]
      <3>1. CASE i = n
        BY <1>1, <2>1, <3>1
      <3>2. CASE i < n
        BY <1>1, <2>1, <3>2 DEF Sorted
      <3> QED
        BY <1>4, <2>1, <3>1, <3>2
    <2> QED
      BY <1>1, <2>1, <2>3, <2>4, <2>5
  <1>5. n \in 0..Len(tools) /\ \A i \in 1..Len(tools) : i > n <=> tools[i][1] > key
    BY <1>1, <1>3, <1>4
  <1> QED
    BY <1>5, Zenon DEF Start

(* A page that lies beyond what was shown continues the walk in order.     *)
LEMMA Continued ==
  ASSUME NEW shown \in Seq(Tools), Sorted(shown), NEW page \in Seq(Tools), Sorted(page),
         NEW p \in Nat, \A k \in KeysOf(shown) : k <= p, \A k \in KeysOf(page) : k > p
  PROVE  /\ shown \o page \in Seq(Tools)
         /\ Sorted(shown \o page)
         /\ KeysOf(shown \o page) = KeysOf(shown) \union KeysOf(page)
  <1> DEFINE all == shown \o page
  <1>1. /\ Len(shown) \in Nat /\ Len(page) \in Nat
        /\ \A i \in 1..Len(shown) : shown[i][1] \in Nat
        /\ \A i \in 1..Len(page) : page[i][1] \in Nat
    BY CatalogAssumption DEF Tools, Keys
  <1>2. all \in Seq(Tools) /\ Len(all) = Len(shown) + Len(page)
    OBVIOUS
  <1>3. \A i \in 1..Len(shown) : all[i] = shown[i]
    OBVIOUS
  <1>4. \A i \in 1..Len(page) : all[Len(shown) + i] = page[i]
    OBVIOUS
  <1> HIDE DEF all
  <1>5. ASSUME NEW i \in 1..Len(all)
        PROVE  i \in 1..Len(shown) \/ \E m \in 1..Len(page) : i = Len(shown) + m
    <2>1. CASE i <= Len(shown)
      BY <1>1, <2>1
    <2>2. CASE i > Len(shown)
      <3>1. i - Len(shown) \in 1..Len(page) /\ i = Len(shown) + (i - Len(shown))
        BY <1>1, <1>2, <2>2
      <3> QED
        BY <3>1
    <2> QED
      BY <1>1, <2>1, <2>2
  <1>6. Sorted(all)
    <2> SUFFICES ASSUME NEW i \in 1..Len(all), NEW j \in 1..Len(all), i < j
                 PROVE  all[i][1] < all[j][1]
      BY DEF Sorted
    <2>1. CASE j \in 1..Len(shown)
      <3>1. i \in 1..Len(shown)
        BY <1>1, <2>1
      <3> QED
        BY <1>3, <2>1, <3>1 DEF Sorted
    <2>2. ASSUME NEW n \in 1..Len(page), j = Len(shown) + n PROVE all[i][1] < all[j][1]
      <3>1. CASE i \in 1..Len(shown)
        <4>1. shown[i][1] <= p /\ page[n][1] > p
          BY <3>1 DEF KeysOf
        <4> QED
          BY <1>1, <1>3, <1>4, <2>2, <3>1, <4>1
      <3>2. ASSUME NEW m \in 1..Len(page), i = Len(shown) + m PROVE all[i][1] < all[j][1]
        <4>1. m < n
          BY <1>1, <2>2, <3>2
        <4> QED
          BY <1>4, <2>2, <3>2, <4>1 DEF Sorted
      <3> QED
        BY <1>5, <3>1, <3>2
    <2> QED
      BY <1>5, <2>1, <2>2
  <1>7. KeysOf(all) = KeysOf(shown) \union KeysOf(page)
    <2>1. ASSUME NEW k \in KeysOf(all) PROVE k \in KeysOf(shown) \union KeysOf(page)
      <3>1. PICK i \in 1..Len(all) : k = all[i][1]
        BY DEF KeysOf
      <3>2. CASE i \in 1..Len(shown)
        BY <1>3, <3>1, <3>2 DEF KeysOf
      <3>3. ASSUME NEW m \in 1..Len(page), i = Len(shown) + m PROVE k \in KeysOf(page)
        BY <1>4, <3>1, <3>3 DEF KeysOf
      <3> QED
        BY <1>5, <3>2, <3>3
    <2>2. ASSUME NEW k \in KeysOf(shown) PROVE k \in KeysOf(all)
      <3>1. PICK i \in 1..Len(shown) : k = shown[i][1]
        BY DEF KeysOf
      <3>2. i \in 1..Len(all)
        BY <1>1, <1>2
      <3> QED
        BY <1>3, <3>1, <3>2 DEF KeysOf
    <2>3. ASSUME NEW k \in KeysOf(page) PROVE k \in KeysOf(all)
      <3>1. PICK i \in 1..Len(page) : k = page[i][1]
        BY DEF KeysOf
      <3>2. Len(shown) + i \in 1..Len(all)
        BY <1>1, <1>2
      <3> QED
        BY <1>4, <3>1, <3>2 DEF KeysOf
    <2> QED
      BY <2>1, <2>2, <2>3
  <1> QED
    BY <1>2, <1>6, <1>7 DEF all

(* The slice of a list in order, from the first tool after key on.         *)
Slice(tools, key, end, page) ==
  /\ page \in Seq(Tools)
  /\ Sorted(page)
  /\ \A i \in 1..Len(page) : \E j \in 1..Len(tools) : page[i] = tools[j]
  /\ \A k \in KeysOf(page) : k > key
  /\ \A j \in 1..Len(tools) : tools[j][1] > key /\ j <= end => tools[j][1] \in KeysOf(page)

LEMMA SliceOK ==
  ASSUME NEW tools \in Seq(Tools), Sorted(tools), NEW key \in Nat,
         NEW end \in Start(tools, key)..Len(tools)
  PROVE  Slice(tools, key, end, SubSeq(tools, Start(tools, key) + 1, end))
  <1>1. PICK start \in 0..Len(tools) :
           /\ start = Start(tools, key)
           /\ \A i \in 1..Len(tools) : i > start <=> tools[i][1] > key
    BY StartFound
  <1> DEFINE page == SubSeq(tools, start + 1, end)
  <1>2. end \in start..Len(tools) /\ Len(tools) \in Nat
    BY <1>1
  <1>3. page \in Seq(Tools) /\ Len(page) = end - start
    BY <1>2
  <1>4. \A i \in 1..Len(page) : page[i] = tools[start + i]
    BY <1>2
  <1> HIDE DEF page
  <1>5. \A i \in 1..Len(page) : start + i \in 1..Len(tools) /\ start + i > start /\ start + i <= end
    BY <1>2, <1>3
  <1>6. Sorted(page)
    <2> SUFFICES ASSUME NEW i \in 1..Len(page), NEW j \in 1..Len(page), i < j
                 PROVE  page[i][1] < page[j][1]
      BY DEF Sorted
    <2>1. start + i < start + j
      BY <1>3
    <2> QED
      BY <1>4, <1>5, <2>1 DEF Sorted
  <1>7. ASSUME NEW j \in 1..Len(tools), tools[j][1] > key, j <= end
        PROVE  tools[j][1] \in KeysOf(page)
    <2>1. j - start \in 1..Len(page) /\ start + (j - start) = j
      BY <1>1, <1>2, <1>3, <1>7
    <2>2. page[j - start] = tools[j]
      BY <1>4, <2>1
    <2> QED
      BY <2>1, <2>2 DEF KeysOf
  <1>8. \A k \in KeysOf(page) : k > key
    BY <1>1, <1>4, <1>5 DEF KeysOf
  <1> QED
    BY <1>1, <1>3, <1>4, <1>5, <1>6, <1>7, <1>8 DEF Slice, page

-----------------------------------------------------------------------------
(* What is released stays so, and what is visible is released.             *)
LEMMA ReleasedStays ==
  ASSUME TypeOK, CatalogNext
  PROVE  \A t \in Tools : Released(t, versions) => Released(t, versions')
  <1> SUFFICES ASSUME NEW t \in Tools, Released(t, versions) PROVE Released(t, versions')
    OBVIOUS
  <1>1. /\ t[1] \in Keys /\ versions[t[1]].state \in {"published", "retired"}
        /\ versions[t[1]].definition = t[2]
    BY DEF Released, Tools, Row
  <1>2. PICK k \in Keys :
          \/ \E d \in Definitions : SaveDraft(k, d) \/ PublishToolVersion(k, d)
          \/ Publish(k) \/ Retire(k)
          \/ \E on \in BOOLEAN : SetExposure(k, on)
          \/ ChangePolicy(k)
    BY Zenon DEF CatalogNext
  <1>3. ASSUME NEW d \in Definitions, SaveDraft(k, d) \/ PublishToolVersion(k, d)
        PROVE  Released(t, versions')
    BY <1>1, <1>3 DEF SaveDraft, PublishToolVersion, Editable, Released, TypeOK
  <1>4. CASE Publish(k)
    BY <1>1, <1>4 DEF Publish, Released, TypeOK
  <1>5. CASE Retire(k)
    BY <1>1, <1>5 DEF Retire, Released, TypeOK
  <1>6. ASSUME NEW on \in BOOLEAN, SetExposure(k, on) PROVE Released(t, versions')
    BY <1>6 DEF SetExposure, Released
  <1>7. CASE ChangePolicy(k)
    BY <1>7 DEF ChangePolicy, Released
  <1> QED
    BY <1>2, <1>3, <1>4, <1>5, <1>6, <1>7, Zenon

(* The catalog keeps its type.                                             *)
CatalogType ==
  /\ versions \in [Keys -> Rows]
  /\ enabled \subseteq Keys
  /\ granted \subseteq Keys

LEMMA CatalogTypeOK ==
  ASSUME TypeOK, CatalogNext
  PROVE  CatalogType'
  <1> USE DEF TypeOK, CatalogType
  <1>1. PICK k \in Keys :
          \/ \E d \in Definitions : SaveDraft(k, d) \/ PublishToolVersion(k, d)
          \/ Publish(k) \/ Retire(k)
          \/ \E on \in BOOLEAN : SetExposure(k, on)
          \/ ChangePolicy(k)
    BY Zenon DEF CatalogNext
  <1>2. ASSUME NEW d \in Definitions, SaveDraft(k, d) \/ PublishToolVersion(k, d) PROVE CatalogType'
    <2>1. Row("draft", d) \in Rows /\ Row("published", d) \in Rows
      BY DEF Rows
    <2> QED
      BY <1>2, <2>1 DEF SaveDraft, PublishToolVersion
  <1>3. CASE Publish(k)
    <2>1. Row("published", versions[k].definition) \in Rows
      BY <1>3 DEF Publish, Rows, Row, Absent
    <2> QED
      BY <1>3, <2>1 DEF Publish
  <1>4. CASE Retire(k)
    <2>1. Row("retired", versions[k].definition) \in Rows
      BY <1>4 DEF Retire, Rows, Row, Absent
    <2> QED
      BY <1>4, <2>1 DEF Retire
  <1>5. ASSUME NEW on \in BOOLEAN, SetExposure(k, on) PROVE CatalogType'
    BY <1>5 DEF SetExposure
  <1>6. CASE ChangePolicy(k)
    BY <1>6 DEF ChangePolicy
  <1> QED
    BY <1>1, <1>2, <1>3, <1>4, <1>5, <1>6, Zenon

(* What ListExposedForDiscovery returns: one released version of each key. *)
LEMMA ExposedRows ==
  ASSUME TypeOK, NEW rows, rows = {<<k, versions[k].definition>> : k \in Exposed}
  PROVE  /\ rows \in SUBSET Tools
         /\ OnePerKey(rows)
         /\ \A t \in rows : Released(t, versions)
         /\ {t[1] : t \in rows} = Exposed
  <1>1. ASSUME NEW k \in Exposed
        PROVE  k \in Keys /\ versions[k].definition \in Definitions
               /\ versions[k] = Row("published", versions[k].definition)
    BY DEF TypeOK, Exposed, Rows, Row, Absent
  <1>2. rows \in SUBSET Tools
    BY <1>1 DEF Tools
  <1>3. OnePerKey(rows)
    BY DEF OnePerKey
  <1>4. \A t \in rows : Released(t, versions)
    BY <1>1 DEF Released
  <1>5. {t[1] : t \in rows} = Exposed
    <2>1. \A t \in rows : t[1] \in Exposed
      OBVIOUS
    <2>2. ASSUME NEW k \in Exposed PROVE \E t \in rows : k = t[1]
      <3>1. <<k, versions[k].definition>> \in rows /\ <<k, versions[k].definition>>[1] = k
        OBVIOUS
      <3> QED
        BY <3>1, Zenon
    <2> QED
      BY <2>1, <2>2, Zenon
  <1> QED
    BY <1>2, <1>3, <1>4, <1>5

-----------------------------------------------------------------------------
(* A client's walk is replaced and the catalog stays.                      *)
LEMMA BecomeInv ==
  ASSUME IInv, NEW c \in Clients, NEW w \in Walk, WalkOK(c, w), WalkHolds(w, Visible, versions),
         Become(c, w),
         UNCHANGED <<versions, enabled, granted, clock>>
  PROVE  IInv'
  <1>1. /\ walks' \in [Clients -> Walk]
        /\ walks'[c] = w
        /\ \A b \in Clients : b # c => walks'[b] = walks[b]
    BY DEF IInv, TypeOK, Become
  <1>2. TypeOK'
    BY <1>1 DEF IInv, TypeOK
  <1>3. Visible' = Visible
    BY DEF Visible, Exposed
  <1>4. ASSUME NEW b \in Clients
        PROVE  WalkOK(b, walks'[b]) /\ WalkHolds(walks'[b], Visible', versions')
    <2>1. WalkOK(b, walks'[b]) /\ WalkHolds(walks'[b], Visible, versions)
      BY <1>1, Zenon DEF IInv
    <2> QED
      BY <1>3, <2>1
  <1> QED
    BY <1>2, <1>4, Zenon DEF IInv

(* A walk that has not begun.                                              *)
LEMMA NoWalkOK ==
  ASSUME NEW c \in Clients
  PROVE  NoWalk \in Walk /\ WalkOK(c, NoWalk) /\ WalkHolds(NoWalk, Visible, versions)
  <1>1. /\ NoWalk.phase = "idle" /\ NoWalk.cursor = Null /\ NoWalk.target = Null
        /\ NoWalk.shown = <<>> /\ NoWalk.listed = {} /\ NoWalk.steady = {}
    BY DEF NoWalk
  <1>2. NoWalk \in Walk
    BY DEF NoWalk, Walk
  <1>3. Len(<<>>) = 0
    OBVIOUS
  <1>4. WalkOK(c, NoWalk)
    BY <1>1, <1>3 DEF WalkOK, Sorted, OnePerKey
  <1>5. WalkHolds(NoWalk, Visible, versions)
    BY <1>1, <1>3 DEF WalkHolds
  <1> QED
    BY <1>2, <1>4, <1>5

LEMMA NoWalkInv ==
  ASSUME IInv, NEW c \in Clients, Become(c, NoWalk),
         UNCHANGED <<versions, enabled, granted, clock>>
  PROVE  IInv'
  BY NoWalkOK, BecomeInv

LEMMA InitInv == Init => IInv
  <1> SUFFICES ASSUME Init PROVE IInv
    OBVIOUS
  <1>1. /\ versions \in [Keys -> Rows] /\ enabled \subseteq Keys /\ granted \subseteq Keys
        /\ clock \in Nat
    BY DEF Init, CatalogInit, Rows
  <1>2. ASSUME NEW c \in Clients
        PROVE  /\ walks[c] \in Walk /\ WalkOK(c, walks[c])
               /\ WalkHolds(walks[c], Visible, versions)
    <2>1. walks[c] = NoWalk
      BY DEF Init
    <2> QED
      BY <2>1, NoWalkOK
  <1>3. walks \in [Clients -> Walk]
    BY <1>2 DEF Init
  <1> QED
    BY <1>1, <1>2, <1>3 DEF IInv, TypeOK

(* Nothing has been shown before the first key.                            *)
LEMMA NothingReached ==
  ASSUME NEW w, w.shown = <<>>, w.steady \subseteq Keys
  PROVE  Reached(w, 0)
  <1>1. KeysOf(<<>>) = {}
    BY DEF KeysOf
  <1>2. \A k \in Keys : ~(k <= 0)
    BY CatalogAssumption DEF Keys
  <1> QED
    BY <1>1, <1>2 DEF Reached

LEMMA VisibleKeys ==
  ASSUME TypeOK
  PROVE  Visible \subseteq Keys
  BY DEF TypeOK, Visible, Exposed

(* A request that starts a walk, or asks for one tool.                     *)
Asked(limit, target, steady) ==
  [phase |-> "asked", cursor |-> Null, from |-> 0, limit |-> limit, target |-> target,
   listed |-> {}, shown |-> <<>>, steady |-> steady]

LEMMA AskedInv ==
  ASSUME IInv, NEW c \in Clients, NEW limit \in Limits \union {0}, NEW k \in Keys \union {Null},
         NEW steady \in SUBSET Visible, k = Null => limit # 0, k # Null => steady \subseteq {k},
         Become(c, Asked(limit, k, steady)),
         UNCHANGED <<versions, enabled, granted, clock>>
  PROVE  IInv'
  <1>1. PICK w : w = Asked(limit, k, steady)
    BY Zenon
  <1>2. steady \in SUBSET Keys
    BY VisibleKeys DEF IInv
  <1>3. w \in Walk
    BY <1>1, <1>2 DEF Walk, Asked
  <1>4. /\ w.phase = "asked" /\ w.cursor = Null /\ w.from = 0 /\ w.limit = limit /\ w.target = k
        /\ w.listed = {} /\ w.shown = <<>> /\ w.steady = steady
    BY <1>1 DEF Asked
  <1>5. Len(<<>>) = 0
    OBVIOUS
  <1>6. Reached(w, 0)
    BY <1>2, <1>4, NothingReached
  <1>7. WalkOK(c, w)
    BY <1>4, <1>5, <1>6 DEF WalkOK, Sorted, OnePerKey
  <1>8. WalkHolds(w, Visible, versions)
    BY <1>4, <1>5 DEF WalkHolds
  <1> QED
    BY <1>1, <1>3, <1>7, <1>8, BecomeInv

LEMMA FirstInv ==
  ASSUME IInv, NEW c \in Clients, NEW limit \in Limits, First(c, limit)
  PROVE  IInv'
  <1>1. limit # 0
    BY DiscoveryAssumption
  <1>2. PICK w : w = [NoWalk EXCEPT !.phase = "asked", !.limit = limit, !.steady = Visible]
    BY Zenon
  <1>3. w = Asked(limit, Null, Visible)
    BY <1>2 DEF NoWalk, Asked
  <1>4. Become(c, Asked(limit, Null, Visible))
    BY <1>2, <1>3, Zenon DEF First
  <1> QED
    BY <1>1, <1>4, AskedInv, Zenon DEF First

LEMMA DescribeInv ==
  ASSUME IInv, NEW c \in Clients, NEW k \in Keys, Describe(c, k)
  PROVE  IInv'
  <1>1. k # Null
    BY DiscoveryAssumption
  <1>2. PICK w : w = [NoWalk EXCEPT !.phase = "asked", !.target = k,
                                    !.steady = Visible \intersect {k}]
    BY Zenon
  <1>3. w = Asked(0, k, Visible \intersect {k})
    BY <1>2 DEF NoWalk, Asked
  <1>4. Become(c, Asked(0, k, Visible \intersect {k}))
    BY <1>2, <1>3, Zenon DEF Describe
  <1>5. UNCHANGED <<versions, enabled, granted, clock>>
    BY Zenon DEF Describe
  <1> QED
    BY <1>1, <1>4, <1>5, AskedInv

(* The cursor that is accepted is the client's own.                        *)
LEMMA ContinueInv ==
  ASSUME IInv, NEW c \in Clients, NEW limit \in Limits, Continue(c, limit)
  PROVE  IInv'
  <1>1. PICK w : w = walks[c]
    BY Zenon
  <1>2. w \in Walk /\ WalkOK(c, w) /\ WalkHolds(w, Visible, versions)
    BY <1>1 DEF IInv, TypeOK
  <1>3. w.phase = "idle" /\ w.cursor # Null /\ w.cursor \in Cursor
    BY <1>1, <1>2 DEF Continue, Walk
  <1>4. PICK cursor \in Presentable(c) :
          /\ Accepted(c, cursor, limit)
          /\ Become(c, [w EXCEPT !.phase = "asked", !.from = cursor.after, !.limit = limit])
    BY <1>1, Zenon DEF Continue
  <1>5. cursor = w.cursor
    <2> SUFFICES ASSUME cursor # w.cursor PROVE FALSE
      OBVIOUS
    <2>1. cursor \in Presentable(c) \ {walks[c].cursor}
      BY <1>1, <1>4
    <2>2. PICK k \in Keys, o \in Others, l \in Limits :
            cursor = [after |-> k, limit |-> l, binding |-> Binding(o, l),
                      expires |-> walks[c].cursor.expires]
      BY <2>1 DEF Presentable
    <2>3. cursor.binding = Binding(o, l)
      BY <2>2
    <2>4. cursor.binding = Binding(c, limit)
      BY <1>4, Zenon DEF Accepted
    <2> QED
      BY <2>3, <2>4, DiscoveryAssumption DEF Binding
  <1>6. PICK v : v = [w EXCEPT !.phase = "asked", !.from = cursor.after, !.limit = limit]
    BY Zenon
  <1>7. cursor.after \in Keys
    BY <1>3, <1>5 DEF Cursor
  <1>8. v \in Walk
    BY <1>2, <1>6, <1>7, Zenon DEF Walk
  <1>9. /\ v.phase = "asked" /\ v.cursor = w.cursor /\ v.from = cursor.after
        /\ v.limit = limit /\ v.target = w.target
        /\ v.listed = w.listed /\ v.shown = w.shown /\ v.steady = w.steady
    BY <1>2, <1>6 DEF Walk
  <1>10. limit # 0
    BY DiscoveryAssumption
  <1>11. WalkOK(c, v)
    BY <1>2, <1>3, <1>5, <1>9, <1>10 DEF WalkOK, Reached
  <1>12. WalkHolds(v, Visible, versions)
    BY <1>2, <1>9 DEF WalkHolds
  <1> QED
    BY <1>4, <1>6, <1>8, <1>11, <1>12, BecomeInv DEF Continue

LEMMA GiveUpInv ==
  ASSUME IInv, NEW c \in Clients, GiveUp(c)
  PROVE  IInv'
  BY NoWalkInv DEF GiveUp

(* A page was shown: the walk ends, or goes on from the new cursor.        *)
PageShown(phase, cursor, shown, steady) ==
  [phase |-> phase, cursor |-> cursor, from |-> 0, limit |-> 0, target |-> Null,
   listed |-> {}, shown |-> shown, steady |-> steady]

(* A request failed: the walk is where its cursor says.                    *)
LEMMA FailInv ==
  ASSUME IInv, NEW c \in Clients, walks[c].phase # "ended", Fail(c),
         UNCHANGED <<versions, enabled, granted, clock>>
  PROVE  IInv'
  <1>1. PICK w : w = walks[c]
    BY Zenon
  <1>2. w \in Walk /\ WalkOK(c, w) /\ WalkHolds(w, Visible, versions)
    BY <1>1 DEF IInv, TypeOK
  <1>3. PICK v : v = [NoWalk EXCEPT !.cursor = w.cursor, !.shown = w.shown,
                                    !.steady = w.steady]
    BY Zenon
  <1>4. v = PageShown("idle", w.cursor, w.shown, w.steady)
    BY <1>3 DEF NoWalk, PageShown
  <1>5. /\ v.phase = "idle" /\ v.cursor = w.cursor /\ v.from = 0 /\ v.limit = 0
        /\ v.target = Null /\ v.listed = {} /\ v.shown = w.shown /\ v.steady = w.steady
    BY <1>4 DEF PageShown
  <1>6. v \in Walk
    BY <1>2, <1>4 DEF Walk, PageShown
  <1>7. WalkOK(c, v)
    BY <1>2, <1>5 DEF WalkOK, OnePerKey, Reached
  <1>8. WalkHolds(v, Visible, versions)
    BY <1>2, <1>5 DEF WalkHolds
  <1>9. Become(c, v)
    BY <1>1, <1>3, Zenon DEF Fail
  <1> QED
    BY <1>6, <1>7, <1>8, <1>9, BecomeInv

LEMMA ListInv ==
  ASSUME IInv, NEW c \in Clients, List(c)
  PROVE  IInv'
  <1>1. PICK w : w = walks[c]
    BY Zenon
  <1>2. w \in Walk /\ WalkOK(c, w) /\ WalkHolds(w, Visible, versions) /\ w.phase = "asked"
    BY <1>1 DEF IInv, TypeOK, List
  <1>3. PICK rows : rows = {<<k, versions[k].definition>> : k \in Exposed}
    BY Zenon
  <1>4. CASE Become(c, [w EXCEPT !.phase = "listed", !.listed = rows])
    <2>1. PICK v : v = [w EXCEPT !.phase = "listed", !.listed = rows]
      BY Zenon
    <2>2. /\ rows \in SUBSET Tools /\ OnePerKey(rows)
          /\ \A t \in rows : Released(t, versions)
          /\ {t[1] : t \in rows} = Exposed
      BY <1>3, ExposedRows DEF IInv
    <2>3. v \in Walk
      BY <1>2, <2>1, <2>2, Zenon DEF Walk, Tools
    <2>4. /\ v.phase = "listed" /\ v.cursor = w.cursor /\ v.from = w.from
          /\ v.limit = w.limit /\ v.target = w.target
          /\ v.listed = rows /\ v.shown = w.shown /\ v.steady = w.steady
      BY <1>2, <2>1 DEF Walk
    <2>5. v.steady \subseteq {t[1] : t \in rows}
      BY <1>2, <2>2, <2>4 DEF WalkHolds, Visible
    <2>6. WalkOK(c, v)
      BY <1>2, <2>2, <2>4, <2>5 DEF WalkOK, Reached
    <2>7. WalkHolds(v, Visible, versions)
      BY <1>2, <2>2, <2>4 DEF WalkHolds
    <2> QED
      BY <1>4, <2>1, <2>3, <2>6, <2>7, BecomeInv DEF List
  <1>5. CASE Fail(c)
    BY <1>1, <1>2, <1>5, FailInv DEF List
  <1> QED
    BY <1>1, <1>3, <1>4, <1>5, Zenon DEF List

(* What the decision leaves of the listed rows.                            *)
LEMMA VisibleRows ==
  ASSUME NEW listed \in SUBSET Tools, OnePerKey(listed), NEW visible \in SUBSET listed
  PROVE  visible \in SUBSET Tools /\ OnePerKey(visible)
  BY DEF OnePerKey

LEMMA ShownInv ==
  ASSUME IInv, NEW c \in Clients, NEW phase, NEW cursor \in Cursor \union {Null},
         NEW shown \in Seq(Tools), NEW steady \in SUBSET Visible,
         \/ phase = "ended" /\ cursor = Null /\ steady \subseteq KeysOf(shown)
         \/ /\ phase = "idle" /\ cursor # Null /\ cursor.binding[1] = c
            /\ \A k \in KeysOf(shown) : k <= cursor.after
            /\ \A k \in steady : k <= cursor.after => k \in KeysOf(shown),
         Sorted(shown), \A i \in 1..Len(shown) : Released(shown[i], versions),
         Become(c, PageShown(phase, cursor, shown, steady)),
         UNCHANGED <<versions, enabled, granted, clock>>
  PROVE  IInv'
  <1>1. PICK w : w = PageShown(phase, cursor, shown, steady)
    BY Zenon
  <1>2. steady \in SUBSET Keys
    BY VisibleKeys DEF IInv
  <1>3. w \in Walk
    BY <1>1, <1>2 DEF Walk, PageShown, Tools
  <1>4. /\ w.phase = phase /\ w.cursor = cursor /\ w.target = Null
        /\ w.listed = {} /\ w.shown = shown /\ w.steady = steady
    BY <1>1 DEF PageShown
  <1>5. WalkOK(c, w)
    BY <1>4 DEF WalkOK, OnePerKey, Reached
  <1>6. WalkHolds(w, Visible, versions)
    BY <1>4 DEF WalkHolds
  <1> QED
    BY <1>1, <1>3, <1>5, <1>6, BecomeInv

LEMMA ShowToolInv ==
  ASSUME IInv, NEW c \in Clients, walks[c].phase = "listed", walks[c].target # Null,
         NEW allowed, granted \intersect {t[1] : t \in walks[c].listed} \subseteq allowed,
         NEW visible, visible = {t \in walks[c].listed : t[1] \in allowed},
         ShowTool(c, visible), UNCHANGED <<versions, enabled, granted, clock>>
  PROVE  IInv'
  <1>1. PICK w : w = walks[c]
    BY Zenon
  <1>2. w \in Walk /\ WalkOK(c, w) /\ WalkHolds(w, Visible, versions)
    BY <1>1 DEF IInv, TypeOK
  <1>3. visible \in SUBSET Tools /\ OnePerKey(visible)
    <2>1. OnePerKey(w.listed) /\ w.listed \in SUBSET Tools
      BY <1>2 DEF WalkOK, Walk, Tools
    <2>2. visible \in SUBSET w.listed
      BY <1>1
    <2> QED
      BY <2>1, <2>2, VisibleRows
  <1>4. PICK found : found = {t \in visible : t[1] = w.target}
    BY Zenon
  <1>5. found \in SUBSET Tools /\ OnePerKey(found)
    BY <1>3, <1>4 DEF OnePerKey
  <1>6. PICK list : list = ByKey(found) /\ InOrder(found, list)
    BY <1>5, ByKeyInOrder, Zenon
  <1>7. CASE Fail(c)
    BY <1>7, FailInv
  <1>8. CASE Become(c, [NoWalk EXCEPT !.phase = "ended", !.shown = list, !.steady = w.steady])
    <2>1. PICK v : v = [NoWalk EXCEPT !.phase = "ended", !.shown = list, !.steady = w.steady]
      BY Zenon
    <2>2. v = PageShown("ended", Null, list, w.steady)
      BY <2>1 DEF NoWalk, PageShown
    <2>3. w.steady \subseteq Visible
      BY <1>2, Zenon DEF WalkHolds
    <2>4. ASSUME NEW k \in w.steady PROVE k \in KeysOf(list)
      <3>1. k = w.target /\ k \in granted
        BY <1>1, <1>2, <2>3 DEF WalkOK, Visible
      <3>2. PICK t \in w.listed : t[1] = k
        BY <1>1, <1>2 DEF WalkOK
      <3>3. t \in found
        BY <1>1, <1>4, <3>1, <3>2
      <3>4. PICK i \in 1..Len(list) : t = list[i]
        BY <1>6, <3>3 DEF InOrder
      <3> QED
        BY <3>2, <3>4 DEF KeysOf
    <2>5. ASSUME NEW i \in 1..Len(list) PROVE Released(list[i], versions)
      <3>1. list[i] \in w.listed
        BY <1>1, <1>4, <1>6 DEF InOrder
      <3> QED
        BY <1>2, <3>1, Zenon DEF WalkHolds
    <2>6. list \in Seq(Tools) /\ Sorted(list)
      BY <1>6, Zenon DEF InOrder
    <2>7. Become(c, PageShown("ended", Null, list, w.steady))
      BY <1>8, <2>1, <2>2, Zenon
    <2> QED
      BY <2>3, <2>4, <2>5, <2>6, <2>7, ShownInv
  <1> QED
    BY <1>1, <1>4, <1>6, <1>7, <1>8, Zenon DEF ShowTool

(* The heart of the argument: a page takes the walk from its position to   *)
(* the last tool it shows, and leaves out no tool in between.              *)
LEMMA ShowPageInv ==
  ASSUME IInv, NEW c \in Clients, walks[c].phase = "listed", walks[c].target = Null,
         NEW allowed, granted \intersect {t[1] : t \in walks[c].listed} \subseteq allowed,
         NEW visible, visible = {t \in walks[c].listed : t[1] \in allowed},
         ShowPage(c, visible), UNCHANGED <<versions, enabled, granted, clock>>
  PROVE  IInv'
  <1>1. PICK w : w = walks[c]
    BY Zenon
  <1>2. w \in Walk /\ WalkOK(c, w) /\ WalkHolds(w, Visible, versions) /\ clock \in Nat
    BY <1>1 DEF IInv, TypeOK
  <1>3. /\ w.from \in Nat /\ w.limit \in Limits /\ w.limit \in Nat \ {0} /\ w.shown \in Seq(Tools)
        /\ w.steady \subseteq Keys
    <2>1. /\ w.from \in Keys \union {0} /\ w.limit \in Limits \union {0}
          /\ w.shown \in Seq(Tools) /\ w.steady \subseteq Keys
      BY <1>2 DEF Walk, Tools
    <2>2. w.limit # 0
      BY <1>1, <1>2 DEF WalkOK
    <2>3. Keys \union {0} \subseteq Nat
      BY CatalogAssumption DEF Keys
    <2>4. Limits \subseteq Nat \ {0}
      BY DiscoveryAssumption, Zenon
    <2>5. w.from \in Nat
      BY <2>1, <2>3, Zenon
    <2>6. w.limit \in Limits
      BY <2>1, <2>2, Zenon
    <2>7. w.limit \in Nat \ {0}
      BY <2>4, <2>6, Zenon
    <2> QED
      BY <2>1, <2>5, <2>6, <2>7, Zenon
  <1>4. Sorted(w.shown) /\ Reached(w, w.from) /\ OnePerKey(w.listed)
    BY <1>1, <1>2 DEF WalkOK
  <1>5. visible \in SUBSET Tools /\ OnePerKey(visible)
    <2>1. w.listed \in SUBSET Tools
      BY <1>2 DEF Walk, Tools
    <2>2. visible \in SUBSET w.listed
      BY <1>1
    <2> QED
      BY <1>4, <2>1, <2>2, VisibleRows
  <1>6. PICK tools : tools = ByKey(visible) /\ InOrder(visible, tools)
    BY <1>5, ByKeyInOrder, Zenon
  <1>7. tools \in Seq(Tools) /\ Sorted(tools) /\ {tools[i] : i \in 1..Len(tools)} = visible
    BY <1>6, Zenon DEF InOrder
  <1>8. PICK start : start = Start(tools, w.from)
    BY Zenon
  <1>9. start \in 0..Len(tools)
    BY <1>3, <1>7, <1>8, StartFound
  <1>10. PICK end : end = IF start + w.limit > Len(tools) THEN Len(tools) ELSE start + w.limit
    BY Zenon
  <1>11. /\ end \in start..Len(tools) /\ Len(tools) \in Nat
         /\ end < Len(tools) => end \in 1..Len(tools) /\ end > start
    BY <1>3, <1>7, <1>9, <1>10
  <1>12. PICK page : page = SubSeq(tools, start + 1, end)
    BY Zenon
  <1>13. Slice(tools, w.from, end, page)
    BY <1>3, <1>7, <1>8, <1>11, <1>12, SliceOK
  <1>14. PICK cursor : cursor = NextCursor(c, tools, end, w.limit)
    BY Zenon
  <1>15. CASE Fail(c)
    BY <1>15, FailInv
  <1>16. CASE Become(c, [NoWalk EXCEPT !.phase = IF cursor = Null THEN "ended" ELSE "idle",
                                       !.cursor = cursor, !.shown = w.shown \o page,
                                       !.steady = w.steady])
    <2>1. PICK shown : shown = w.shown \o page
      BY Zenon
    <2>2. page \in Seq(Tools) /\ Sorted(page) /\ \A k \in KeysOf(page) : k > w.from
      BY <1>13, Zenon DEF Slice
    <2>3. /\ shown \in Seq(Tools) /\ Sorted(shown)
          /\ KeysOf(shown) = KeysOf(w.shown) \union KeysOf(page)
      BY <1>3, <1>4, <2>1, <2>2, Continued DEF Reached
    <2>4. PICK phase : phase = IF cursor = Null THEN "ended" ELSE "idle"
      BY Zenon
    <2>5. Become(c, PageShown(phase, cursor, shown, w.steady))
      <3>1. PICK v : v = [NoWalk EXCEPT !.phase = phase, !.cursor = cursor, !.shown = shown,
                                        !.steady = w.steady]
        BY Zenon
      <3>2. v = PageShown(phase, cursor, shown, w.steady)
        BY <3>1 DEF NoWalk, PageShown
      <3> QED
        BY <1>16, <2>1, <2>4, <3>1, <3>2, Zenon
    <2>6. ASSUME NEW i \in 1..Len(shown) PROVE Released(shown[i], versions)
      <3>1. CASE i \in 1..Len(w.shown)
        <4>1. shown[i] = w.shown[i]
          BY <1>3, <2>1, <2>2, <3>1
        <4> QED
          BY <1>2, <3>1, <4>1 DEF WalkHolds
      <3>2. CASE i \notin 1..Len(w.shown)
        <4>1. i - Len(w.shown) \in 1..Len(page) /\ shown[i] = page[i - Len(w.shown)]
          BY <1>3, <2>1, <2>2, <3>2
        <4>2. PICK j \in 1..Len(tools) : page[i - Len(w.shown)] = tools[j]
          BY <1>13, <4>1 DEF Slice
        <4>3. tools[j] \in w.listed
          BY <1>1, <1>7
        <4> QED
          BY <1>2, <4>1, <4>2, <4>3 DEF WalkHolds
      <3> QED
        BY <3>1, <3>2
    <2>7. w.steady \subseteq Visible
      BY <1>2, Zenon DEF WalkHolds
    <2>8. ASSUME NEW k \in w.steady PROVE \E j \in 1..Len(tools) : k = tools[j][1]
      <3>1. k \in granted
        BY <2>7 DEF Visible
      <3>2. PICK t \in w.listed : t[1] = k
        BY <1>1, <1>2 DEF WalkOK
      <3>3. t \in visible
        BY <1>1, <3>1, <3>2
      <3> QED
        BY <1>7, <3>2, <3>3
    <2>9. ASSUME NEW k \in w.steady, NEW j \in 1..Len(tools), k = tools[j][1], j <= end
          PROVE  k \in KeysOf(shown)
      <3>1. k \in Nat
        BY <1>3, CatalogAssumption DEF Keys
      <3>2. CASE k <= w.from
        BY <1>4, <2>3, <3>2 DEF Reached
      <3>3. CASE k > w.from
        BY <1>13, <2>3, <2>9, <3>3 DEF Slice
      <3> QED
        BY <1>3, <3>1, <3>2, <3>3
    <2>10. CASE end < Len(tools)
      <3>1. cursor = [after |-> tools[end][1], limit |-> w.limit, binding |-> <<c, w.limit>>,
                      expires |-> clock + CursorTTL]
        BY <1>14, <2>10 DEF NextCursor, LastShown, Binding
      <3>2. tools[end] \in Tools /\ tools[end][1] \in Keys /\ clock + CursorTTL \in Nat
        <4>1. tools[end] \in Tools
          BY <1>7, <1>11, <2>10
        <4>2. CursorTTL \in Nat
          BY DiscoveryAssumption, Zenon
        <4> QED
          BY <1>2, <4>1, <4>2 DEF Tools
      <3>3. cursor \in Cursor /\ cursor.after = tools[end][1] /\ cursor.binding[1] = c
        BY <1>3, <3>1, <3>2 DEF Cursor
      <3>4. cursor # Null /\ phase = "idle"
        BY <2>4, <3>3, DiscoveryAssumption
      <3>5. \A j \in 1..Len(tools) : tools[j][1] \in Nat
        BY <1>7, CatalogAssumption DEF Tools, Keys
      <3>6. ASSUME NEW k \in KeysOf(shown) PROVE k <= cursor.after
        <4>1. ASSUME NEW j \in 1..Len(tools), j <= end PROVE tools[j][1] <= tools[end][1]
          BY <1>7, <1>11, <2>10, <3>5, <4>1 DEF Sorted
        <4>2. CASE k \in KeysOf(page)
          <5>1. PICK i \in 1..Len(page) : k = page[i][1]
            BY <4>2 DEF KeysOf
          <5>2. start + i \in 1..Len(tools) /\ start + i <= end /\ page[i] = tools[start + i]
            BY <1>7, <1>9, <1>11, <1>12
          <5> QED
            BY <3>3, <4>1, <5>1, <5>2
        <4>3. CASE k \in KeysOf(w.shown)
          <5>1. k <= w.from /\ k \in Nat
            <6>1. k \in Nat
              BY <1>3, <4>3, CatalogAssumption DEF KeysOf, Tools, Keys
            <6> QED
              BY <1>4, <4>3, <6>1 DEF Reached
          <5>2. tools[end][1] > w.from
            BY <1>3, <1>7, <1>8, <1>11, <2>10, StartFound
          <5> QED
            BY <1>3, <1>11, <2>10, <3>3, <3>5, <5>1, <5>2
        <4> QED
          BY <2>3, <4>2, <4>3
      <3>7. ASSUME NEW k \in w.steady, k <= cursor.after PROVE k \in KeysOf(shown)
        <4>1. PICK j \in 1..Len(tools) : k = tools[j][1]
          BY <2>8
        <4>2. j <= end
          BY <1>7, <1>11, <2>10, <3>3, <3>5, <3>7, <4>1 DEF Sorted
        <4> QED
          BY <2>9, <4>1, <4>2
      <3> QED
        BY <2>3, <2>5, <2>6, <2>7, <3>3, <3>4, <3>6, <3>7, ShownInv
    <2>11. CASE ~(end < Len(tools))
      <3>1. cursor = Null /\ phase = "ended" /\ end = Len(tools)
        BY <1>11, <1>14, <2>4, <2>11 DEF NextCursor
      <3>2. ASSUME NEW k \in w.steady PROVE k \in KeysOf(shown)
        <4>1. PICK j \in 1..Len(tools) : k = tools[j][1]
          BY <2>8
        <4>2. j <= end
          BY <1>11, <3>1
        <4> QED
          BY <2>9, <4>1, <4>2
      <3> QED
        BY <2>3, <2>5, <2>6, <2>7, <3>1, <3>2, ShownInv
    <2> QED
      BY <2>10, <2>11
  <1> QED
    BY <1>1, <1>6, <1>8, <1>10, <1>12, <1>14, <1>15, <1>16, Zenon DEF ShowPage

(* The answer of ThinkPixelAG about the candidates, or about more, allows  *)
(* what is granted.                                                        *)
LEMMA RespondInv ==
  ASSUME IInv, NEW c \in Clients, Respond(c)
  PROVE  IInv'
  <1> DEFINE candidates == {t[1] : t \in walks[c].listed}
  <1>1. walks[c].phase = "listed" /\ UNCHANGED <<versions, enabled, granted, clock>>
    BY Zenon DEF Respond
  <1>2. PICK allowed \in Allowed(candidates) :
          LET visible == {t \in walks[c].listed : t[1] \in allowed}
          IN  IF ~ValidateFor(allowed, candidates) THEN Fail(c)
              ELSE IF walks[c].target = Null THEN ShowPage(c, visible)
              ELSE ShowTool(c, visible)
    BY Zenon DEF Respond
  <1>3. PICK visible : visible = {t \in walks[c].listed : t[1] \in allowed}
    BY Zenon
  <1>4. granted \intersect candidates \subseteq allowed
    <2> HIDE DEF candidates
    <2> QED
      BY <1>2 DEF Allowed
  <1>5. CASE Fail(c)
    BY <1>1, <1>5, FailInv
  <1>6. CASE walks[c].target = Null /\ ShowPage(c, visible)
    BY <1>1, <1>3, <1>4, <1>6, ShowPageInv, Zenon
  <1>7. CASE walks[c].target # Null /\ ShowTool(c, visible)
    BY <1>1, <1>3, <1>4, <1>7, ShowToolInv, Zenon
  <1> QED
    BY <1>2, <1>3, <1>5, <1>6, <1>7, Zenon

LEMMA RespondWithErrorInv ==
  ASSUME IInv, NEW c \in Clients, RespondWithError(c)
  PROVE  IInv'
  BY FailInv DEF RespondWithError

(* The catalog changes under every walk.                                   *)
LEMMA ChangeInv ==
  ASSUME IInv, Change
  PROVE  IInv'
  <1>1. CatalogType' /\ clock' \in Nat
    BY CatalogTypeOK DEF IInv, TypeOK, Change
  <1>2. \A t \in Tools : Released(t, versions) => Released(t, versions')
    BY ReleasedStays, Zenon DEF IInv, Change
  <1>3. ASSUME NEW c \in Clients
        PROVE  /\ walks'[c] \in Walk /\ WalkOK(c, walks'[c])
               /\ WalkHolds(walks'[c], Visible', versions')
    <2>1. PICK w : w = walks[c]
      BY Zenon
    <2>2. w \in Walk /\ WalkOK(c, w) /\ WalkHolds(w, Visible, versions)
      BY <2>1 DEF IInv, TypeOK
    <2>3. PICK steady : steady = w.steady \intersect Visible'
      BY Zenon
    <2>4. PICK v : v = walks'[c] /\ v = [w EXCEPT !.steady = steady]
      BY <2>1, <2>3 DEF Change
    <2>5. /\ v.phase = w.phase /\ v.cursor = w.cursor /\ v.from = w.from /\ v.limit = w.limit
          /\ v.target = w.target /\ v.listed = w.listed /\ v.shown = w.shown /\ v.steady = steady
      BY <2>2, <2>4 DEF Walk
    <2>6. steady \in SUBSET Keys /\ steady \subseteq w.steady /\ steady \subseteq Visible'
      BY <2>2, <2>3 DEF Walk
    <2>7. v \in Walk
      BY <2>2, <2>4, <2>6, Zenon DEF Walk
    <2>8. WalkOK(c, v)
      BY <2>2, <2>5, <2>6 DEF WalkOK, Reached
    <2>9. w.listed \in SUBSET Tools /\ w.shown \in Seq(Tools)
      BY <2>2 DEF Walk, Tools
    <2>10. WalkHolds(v, Visible', versions')
      BY <1>2, <2>2, <2>5, <2>6, <2>9 DEF WalkHolds
    <2> QED
      BY <2>4, <2>7, <2>8, <2>10
  <1>4. walks' \in [Clients -> Walk]
    <2>1. walks' = [c \in Clients |-> walks'[c]]
      BY Zenon DEF Change
    <2> QED
      BY <1>3, <2>1
  <1> QED
    BY <1>1, <1>3, <1>4, Zenon DEF IInv, TypeOK, CatalogType

LEMMA TickInv ==
  ASSUME IInv, Tick
  PROVE  IInv'
  <1>1. TypeOK' /\ UNCHANGED <<versions, enabled, granted, walks>>
    BY DEF IInv, TypeOK, Tick
  <1>2. Visible' = Visible
    BY <1>1 DEF Visible, Exposed
  <1> QED
    BY <1>1, <1>2 DEF IInv

LEMMA NextInv == IInv /\ [Next]_vars => IInv'
  <1> SUFFICES ASSUME IInv, [Next]_vars PROVE IInv'
    OBVIOUS
  <1>1. ASSUME NEW c \in Clients, NEW limit \in Limits, First(c, limit) \/ Continue(c, limit)
        PROVE  IInv'
    BY <1>1, FirstInv, ContinueInv
  <1>2. ASSUME NEW c \in Clients, NEW k \in Keys, Describe(c, k) PROVE IInv'
    BY <1>2, DescribeInv
  <1>3. ASSUME NEW c \in Clients, GiveUp(c) \/ List(c) \/ Respond(c) \/ RespondWithError(c)
        PROVE  IInv'
    BY <1>3, GiveUpInv, ListInv, RespondInv, RespondWithErrorInv
  <1>4. CASE Change
    BY <1>4, ChangeInv
  <1>5. CASE Tick
    BY <1>5, TickInv
  <1>6. CASE UNCHANGED vars
    <2>1. Visible' = Visible
      BY <1>6 DEF vars, Visible, Exposed
    <2> QED
      BY <1>6, <2>1 DEF vars, IInv, TypeOK
  <1> QED
    BY <1>1, <1>2, <1>3, <1>4, <1>5, <1>6, Zenon DEF Next

(* The invariant holds, whatever the catalog's administrators, the policy  *)
(* and the clients do between the two halves of a request.                 *)
THEOREM Invariance == Spec => []IInv
  <1> QED
    BY InitInv, NextInv, PTL DEF Spec

(* ServeHTTP's cursor is strict: no walk shows a tool twice, or goes back, *)
(* however the catalog changes between two pages.                          *)
THEOREM WalksNeverRepeat == Spec => []WalkNeverRepeats
  <1>1. IInv => WalkNeverRepeats
    <2> SUFFICES ASSUME IInv, NEW c \in Clients
                 PROVE  \A i, j \in DOMAIN walks[c].shown :
                          i < j => walks[c].shown[i][1] < walks[c].shown[j][1]
      BY DEF WalkNeverRepeats
    <2>1. Sorted(walks[c].shown) /\ walks[c].shown \in Seq(Tools)
      BY DEF IInv, TypeOK, WalkOK, Walk, Tools
    <2>2. DOMAIN walks[c].shown = 1..Len(walks[c].shown)
      BY <2>1
    <2> QED
      BY <2>1, <2>2, Zenon DEF Sorted
  <1> QED
    BY <1>1, Invariance, PTL

(* A walk that ends has missed no tool that was visible throughout, and a  *)
(* tool that was visible while it was asked for was found.                 *)
THEOREM WalksAreComplete == Spec => []WalkIsComplete
  <1>1. IInv => WalkIsComplete
    <2> SUFFICES ASSUME IInv, NEW c \in Clients, walks[c].phase = "ended", NEW k \in walks[c].steady
                 PROVE  \E t \in Shown(c) : k = t[1]
      BY DEF WalkIsComplete
    <2>1. walks[c].shown \in Seq(Tools) /\ k \in KeysOf(walks[c].shown)
      BY DEF IInv, TypeOK, WalkOK, Walk, Tools
    <2>2. PICK i \in 1..Len(walks[c].shown) : k = walks[c].shown[i][1]
      BY <2>1 DEF KeysOf
    <2>3. DOMAIN walks[c].shown = 1..Len(walks[c].shown)
      BY <2>1
    <2> QED
      BY <2>2, <2>3 DEF Shown
  <1> QED
    BY <1>1, Invariance, PTL

(* What a client was shown stays true: the upsert of SaveDraft and the     *)
(* guarded transitions leave a released version its definition.            *)
THEOREM ShownStaysReleased == Spec => []ShownIsReleased
  <1>1. IInv => ShownIsReleased
    <2> SUFFICES ASSUME IInv, NEW c \in Clients, NEW t \in Shown(c) PROVE Released(t, versions)
      BY DEF ShownIsReleased, Released
    <2>1. walks[c].shown \in Seq(Tools) /\ WalkHolds(walks[c], Visible, versions)
      BY DEF IInv, TypeOK, Walk, Tools
    <2>2. DOMAIN walks[c].shown = 1..Len(walks[c].shown)
      BY <2>1
    <2> QED
      BY <2>1, <2>2 DEF Shown, WalkHolds
  <1> QED
    BY <1>1, Invariance, PTL

(* A version that was released, to whomever, keeps its definition: only a  *)
(* draft is saved over, published versions only retire, and a retired one  *)
(* is final (SaveDraft, Publish, Retire).                                  *)
THEOREM ReleasedIsFinal ==
  Spec => [][\A t \in Tools : Released(t, versions) => Released(t, versions')]_vars
  <1> DEFINE Final == \A t \in Tools : Released(t, versions) => Released(t, versions')
  <1>1. IInv /\ [Next]_vars => [Final]_vars
    <2> SUFFICES ASSUME IInv, Next PROVE Final
      OBVIOUS
    <2>1. CASE Change
      BY <2>1, ReleasedStays, Zenon DEF IInv, Change
    <2>2. CASE ~Change
      <3>1. versions' = versions
        BY <2>2, Zenon DEF Next, First, Continue, Describe, GiveUp, List, Respond,
                           RespondWithError, Tick
      <3> QED
        BY <3>1
    <2> QED
      BY <2>1, <2>2
  <1> QED
    BY <1>1, Invariance, PTL DEF Spec
=============================================================================
