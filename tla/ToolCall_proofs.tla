--------------------------- MODULE ToolCall_proofs ---------------------------
(* Proofs about tool calls, for any number of processes, requests, keys,   *)
(* calls and decisions, any leases, recovery bounds and clock skews, and   *)
(* any crashes.  First the acquisition of a call (LogicalInvocation): that *)
(* it keeps its invariants and implements the logical call LogicalCall     *)
(* promises.  Then the executions of connectors: each is authorized on     *)
(* record, under a decision of its own, within its constraints, and paid   *)
(* for by an ownership of the call.                                        *)
EXTENDS ToolCall, TLAPS

-----------------------------------------------------------------------------
(* The acquisition of a call.                                              *)

(* The columns of a row, by its state.                                     *)
LEMMA RowColumns ==
  ASSUME NEW r \in Record
  PROVE  /\ r.state \in {"absent", "claimed", "completed"}
         /\ r.state = "absent" => r = Absent
         /\ r.state # "absent" =>
              /\ r.digest \in Digests /\ r.invocation \in InvocationIDs
              /\ r.expires \in Int /\ r.recoveries \in Nat /\ r.max \in 0..10
         /\ r.state = "claimed" => r.owner \in Processes /\ r.payload = Null
         /\ r.state = "completed" => r.owner = Null /\ r.payload \in Payloads
  <1>1. CASE r = Absent
    BY <1>1 DEF Absent
  <1>2. CASE r \in Row("claimed", Processes, {Null})
    BY <1>2 DEF Row
  <1>3. CASE r \in Row("completed", {Null}, Payloads)
    BY <1>3 DEF Row
  <1> QED
    BY <1>1, <1>2, <1>3 DEF Record

(* What is left of m recoveries after n.                                   *)
LEMMA Left ==
  ASSUME NEW m \in 0..10, NEW n \in Nat
  PROVE  /\ m - 0 = m /\ m - (n + 1) = (m - n) - 1
         /\ n < m => m - n > 0
         /\ n <= m /\ n >= m => m - n = 0
  OBVIOUS

(* A completed row keeps the digest, the counts and the invocation.        *)
LEMMA CompletedColumns ==
  ASSUME NEW r \in Record, r.state = "claimed", NEW v \in Payloads
  PROVE  LET row == Completed(r, v)
         IN  /\ row \in Record
             /\ row.state = "completed" /\ row.digest = r.digest
             /\ row.recoveries = r.recoveries /\ row.max = r.max
             /\ row.invocation = r.invocation
             /\ LogicalOf(row) = [digest |-> r.digest, invocation |-> r.invocation,
                                  owner |-> Null, left |-> r.max - r.recoveries,
                                  envelope |-> v]
  <1> PICK row : row = Completed(r, v)
    OBVIOUS
  <1>1. /\ row.state = "completed" /\ row.digest = r.digest /\ row.owner = Null
        /\ row.recoveries = r.recoveries /\ row.max = r.max
        /\ row.invocation = r.invocation /\ row.payload = v
    BY DEF Completed
  <1>2. row \in Record
    <2>1. /\ r.digest \in Digests /\ r.recoveries \in Nat /\ r.max \in 0..10
          /\ r.invocation \in InvocationIDs
      BY RowColumns
    <2>2. row \in Row("completed", {Null}, Payloads)
      BY <2>1 DEF Completed, Row
    <2> QED
      BY <2>2 DEF Record
  <1>3. LogicalOf(row) = [digest |-> r.digest, invocation |-> r.invocation,
                          owner |-> Null, left |-> r.max - r.recoveries, envelope |-> v]
    BY <1>1, Zenon DEF LogicalOf
  <1> QED
    BY <1>1, <1>2, <1>3, Zenon

(* A request q after an answer.                                            *)
LEMMA AnsweredType ==
  ASSUME NEW q \in Call, NEW phase \in {"idle", "holding"}, NEW kind \in Kinds,
         NEW id \in InvocationIDs \union {Null}, NEW v \in Payloads \union {Null}
  PROVE  [q EXCEPT !.phase = phase, !.kind = kind, !.invocation = id, !.payload = v] \in Call
  BY Zenon DEF Call

(* A history extended by a grant of the same invocation, taken after the   *)
(* last lease ran out, keeps the shape the invariant asks for.             *)
LEMMA HistoryGrows ==
  ASSUME NEW g \in Seq(Grant), NEW e \in Grant, Len(g) > 0,
         \A i \in 1..Len(g) - 1 : g[i].until <= g[i + 1].from,
         g[Len(g)].until <= e.from,
         \A i \in 1..Len(g) : g[i].invocation = e.invocation /\ g[i].digest = e.digest,
         NEW h, h = Append(g, e)
  PROVE  /\ h \in Seq(Grant)
         /\ Len(h) = Len(g) + 1
         /\ h[1] = g[1]
         /\ h[Len(h)] = e
         /\ \A i \in 1..Len(h) - 1 : h[i].until <= h[i + 1].from
         /\ \A i \in 1..Len(h) : h[i].invocation = e.invocation /\ h[i].digest = e.digest
  <1>1. /\ h \in Seq(Grant) /\ Len(h) = Len(g) + 1 /\ h[1] = g[1] /\ h[Len(g) + 1] = e
        /\ \A i \in 1..Len(g) : h[i] = g[i]
        /\ Len(g) \in Nat
    OBVIOUS
  <1>2. ASSUME NEW i \in 1..Len(h) - 1 PROVE h[i].until <= h[i + 1].from
    <2>1. CASE i = Len(g)
      BY <1>1, <2>1
    <2>2. CASE i < Len(g)
      <3>1. i \in 1..Len(g) /\ i + 1 \in 1..Len(g) /\ i \in 1..Len(g) - 1
        BY <1>1, <2>2
      <3> QED
        BY <1>1, <3>1
    <2> QED
      BY <1>1, <2>1, <2>2
  <1>3. ASSUME NEW i \in 1..Len(h) PROVE h[i].invocation = e.invocation /\ h[i].digest = e.digest
    <2>1. CASE i = Len(g) + 1
      BY <1>1, <2>1
    <2>2. CASE i \in 1..Len(g)
      BY <1>1, <2>2
    <2> QED
      BY <1>1, <2>1, <2>2
  <1> QED
    BY <1>1, <1>2, <1>3, Zenon

(* The first state satisfies the invariant.                                *)
LEMMA InitInv == Init => IInv
  <1> SUFFICES ASSUME Init PROVE IInv
    OBVIOUS
  <1> USE ConstantsAssumption DEF Init
  <1>1. TypeOK
    BY DEF TypeOK, Record, Absent, Call, Kinds
  <1>2. \A k \in Keys : KeyInv(k)
    BY DEF KeyInv, History, Absent
  <1>3. \A i \in InvocationIDs : InvocationInv(i)
    BY DEF InvocationInv
  <1>4. \A c \in Calls : CallInv(c)
    BY DEF CallInv
  <1> QED
    BY <1>1, <1>2, <1>3, <1>4 DEF IInv

(* What every step leaves of a row: once created it stays, with its        *)
(* digest, and a completed one does not change.                            *)
RowsKept ==
  \A k \in Keys : records[k].state # "absent" =>
    /\ records'[k].state # "absent"
    /\ records'[k].digest = records[k].digest
    /\ records[k].state = "completed" => records'[k] = records[k]

(* A request that is not involved in a step keeps its part of the          *)
(* invariant.                                                              *)
LEMMA OtherCall ==
  ASSUME IInv, RowsKept, NEW c \in Calls, calls'[c] = calls[c]
  PROVE  CallInv(c)'
  BY DEF IInv, CallInv, RowsKept

(* A step that creates no invocation and keeps the invocation of every row *)
(* keeps the link between the two tables.                                  *)
LEMMA KeptInvocation ==
  ASSUME IInv, invocations' = invocations, RowsKept,
         \A j \in Keys : records'[j].invocation = records[j].invocation,
         NEW i \in InvocationIDs
  PROVE  InvocationInv(i)'
  <1>1. invocations[i] # Null => invocations[i].key \in Keys
    BY DEF IInv, TypeOK, Created
  <1>2. InvocationInv(i)
    BY DEF IInv
  <1> QED
    BY <1>1, <1>2 DEF InvocationInv, RowsKept

(* The parts of a request that is in an acquisition.                       *)
LEMMA Acquiring ==
  ASSUME IInv, NEW c \in Calls, calls[c].phase # "idle"
  PROVE  /\ calls[c].key \in Keys
         /\ calls[c].digest \in Digests
         /\ calls[c].now \in Int
         /\ calls[c] \in Call
         /\ ProcessOf[c] \in Processes
         /\ Lease[ProcessOf[c]] \in Nat \ {0}
         /\ MaxRecoveries[ProcessOf[c]] \in 0..10
         /\ records[calls[c].key] \in Record
         /\ grants[calls[c].key] \in Seq(Grant)
  BY ConstantsAssumption DEF IInv, TypeOK, CallInv, Call

(* Begin changes one idle request and no table.                            *)
LEMMA BeginInv ==
  ASSUME IInv, NEW c \in Calls, NEW k \in Keys, NEW d \in Digests, Begin(c, k, d)
  PROVE  IInv'
  <1> USE DEF Begin
  <1>0. clock + Skew[ProcessOf[c]] \in Int
    <2>1. Skew[ProcessOf[c]] \in Int
      BY ConstantsAssumption
    <2>2. clock \in Nat
      BY DEF IInv, TypeOK
    <2> QED
      BY <2>1, <2>2
  <1>1. TypeOK'
    <2>1. calls' \in [Calls -> Call]
      BY <1>0 DEF IInv, TypeOK, Call, Kinds
    <2> QED
      BY <2>1 DEF IInv, TypeOK
  <1>2. \A j \in Keys : KeyInv(j)'
    BY DEF IInv, KeyInv
  <1>3. \A i \in InvocationIDs : InvocationInv(i)'
    BY Zenon DEF IInv, InvocationInv
  <1>4. ASSUME NEW b \in Calls PROVE CallInv(b)'
    <2>1. RowsKept
      BY DEF RowsKept
    <2>2. CASE b = c
      BY <2>2, Zenon DEF IInv, TypeOK, CallInv
    <2>3. CASE b # c
      BY <2>1, <2>3, OtherCall DEF IInv, TypeOK
    <2> QED
      BY <2>2, <2>3
  <1> QED
    BY <1>1, <1>2, <1>3, <1>4 DEF IInv

(* An answer of any kind is a well-typed request, and touches no other.    *)
LEMMA AnswerCalls ==
  ASSUME IInv, NEW c \in Calls, NEW kind \in Kinds,
         NEW id \in InvocationIDs \union {Null}, NEW v \in Payloads \union {Null},
         Answer(c, kind, id, v)
  PROVE  /\ calls' \in [Calls -> Call]
         /\ \A b \in Calls : b # c => calls'[b] = calls[b]
         /\ calls'[c].kind = kind
         /\ calls'[c].invocation = id
         /\ calls'[c].payload = v
         /\ calls'[c].key = calls[c].key
         /\ calls'[c].digest = calls[c].digest
         /\ calls'[c].phase = IF kind \in {"owned", "recovered"} THEN "holding" ELSE "idle"
  <1> DEFINE a == [calls[c] EXCEPT !.phase = IF kind \in {"owned", "recovered"}
                                               THEN "holding" ELSE "idle",
                                   !.kind = kind,
                                   !.invocation = id,
                                   !.payload = v]
  <1>1. calls \in [Calls -> Call] /\ calls[c] \in Call
    BY DEF IInv, TypeOK
  <1>2. /\ a \in Call
        /\ a.kind = kind /\ a.invocation = id /\ a.payload = v
        /\ a.key = calls[c].key /\ a.digest = calls[c].digest
        /\ a.phase = IF kind \in {"owned", "recovered"} THEN "holding" ELSE "idle"
    <2> PICK phase : phase = IF kind \in {"owned", "recovered"} THEN "holding" ELSE "idle"
      OBVIOUS
    <2>1. phase \in {"idle", "holding"}
      OBVIOUS
    <2> PICK o : o = calls[c]
      OBVIOUS
    <2> DEFINE e == [o EXCEPT !.phase = phase, !.kind = kind, !.invocation = id, !.payload = v]
    <2>2. o \in Call
      BY <1>1
    <2>3. e \in Call
      BY <2>1, <2>2, AnsweredType, Zenon
    <2>4. /\ e.phase = phase /\ e.kind = kind /\ e.invocation = id /\ e.payload = v
          /\ e.key = o.key /\ e.digest = o.digest
      BY <2>2, SMT DEF Call
    <2>5. a = e
      BY Zenon
    <2> HIDE DEF a, e
    <2> QED
      BY <2>3, <2>4, <2>5, Zenon
  <1>3. calls' = [calls EXCEPT ![c] = a]
    BY DEF Answer
  <1> HIDE DEF a
  <1> QED
    BY <1>1, <1>2, <1>3

(* A commit is answered with its kind or with an error.                    *)
LEMMA CommitCalls ==
  ASSUME IInv, NEW c \in Calls, NEW kind \in {"owned", "recovered"},
         NEW id \in InvocationIDs, Commit(c, kind, id)
  PROVE  /\ calls' \in [Calls -> Call]
         /\ \A b \in Calls : b # c => calls'[b] = calls[b]
         /\ calls'[c].key = calls[c].key
         /\ calls'[c].digest = calls[c].digest
         /\ \/ calls'[c].kind = kind /\ calls'[c].phase = "holding" /\ calls'[c].invocation = id
            \/ calls'[c].kind = "error" /\ calls'[c].phase = "idle"
  <1>1. CASE Answer(c, kind, id, Null)
    BY <1>1, AnswerCalls DEF Kinds
  <1>2. CASE Answer(c, "error", Null, Null)
    BY <1>2, AnswerCalls, Zenon DEF Kinds
  <1> QED
    BY <1>1, <1>2 DEF Commit

(* A first claim starts the history of its key.                            *)
LEMMA InsertInv ==
  ASSUME IInv, NEW c \in Calls, NEW id \in InvocationIDs, Insert(c, id)
  PROVE  IInv'
  <1> DEFINE q == calls[c]
             p == ProcessOf[c]
             k == q.key
             e == [owner |-> p, invocation |-> id, digest |-> q.digest,
                   from |-> q.now, until |-> q.now + Lease[p]]
             row == Claim(q.digest, p, q.now + Lease[p], 0, MaxRecoveries[p], id)
  <1>1. /\ k \in Keys /\ q.digest \in Digests /\ q.now \in Int /\ p \in Processes
        /\ Lease[p] \in Nat \ {0} /\ MaxRecoveries[p] \in 0..10
        /\ grants[k] \in Seq(Grant)
    BY Acquiring, Zenon DEF Insert
  <1>2. /\ records[k].state = "absent"
        /\ invocations[id] = Null
        /\ records' = [records EXCEPT ![k] = row]
        /\ invocations' = [invocations EXCEPT ![id] = [key |-> k, digest |-> q.digest]]
        /\ grants' = [grants EXCEPT ![k] = Append(@, e)]
        /\ Commit(c, "owned", id)
        /\ UNCHANGED <<clock, writer>>
    BY Zenon DEF Insert, GrantTo
  <1>3. e \in Grant /\ row \in Record
    BY <1>1 DEF Grant, Record, Row, Claim
  <1>4. /\ grants[k] = <<>>
        /\ grants'[k] = <<e>>
        /\ grants'[k] \in Seq(Grant)
    <2>1. grants[k] = <<>>
      BY <1>1, <1>2, Zenon DEF IInv, KeyInv, History
    <2>2. grants'[k] = Append(<<>>, e)
      BY <1>1, <1>2, <2>1, Zenon DEF IInv, TypeOK
    <2> QED
      BY <1>3, <2>1, <2>2
  <1>5. TypeOK'
    <2>1. records' \in [Keys -> Record]
      BY <1>2, <1>3, Zenon DEF IInv, TypeOK
    <2>2. invocations' \in [InvocationIDs -> Created \union {Null}]
      BY <1>1, <1>2, Zenon DEF IInv, TypeOK, Created
    <2>3. calls' \in [Calls -> Call]
      BY <1>2, CommitCalls, Zenon
    <2>4. grants' \in [Keys -> Seq(Grant)]
      BY <1>1, <1>2, <1>4, Zenon DEF IInv, TypeOK
    <2> QED
      BY <1>2, <2>1, <2>2, <2>3, <2>4, Zenon DEF IInv, TypeOK
  <1>6. ASSUME NEW j \in Keys PROVE KeyInv(j)'
    <2>1. CASE j = k
      <3>1. records'[j] = row /\ grants'[j] = <<e>> /\ invocations'[id] = [key |-> j, digest |-> q.digest]
        BY <1>1, <1>2, <1>4, <2>1, Zenon DEF IInv, TypeOK
      <3> QED
        BY <1>1, <3>1 DEF KeyInv, History, Claim
    <2>2. CASE j # k
      <3>1. records'[j] = records[j] /\ grants'[j] = grants[j] /\ writer'[j] = writer[j]
        BY <1>2, <2>2, Zenon DEF IInv, TypeOK
      <3>2. records[j].state # "absent" => invocations'[records[j].invocation] = invocations[records[j].invocation]
        <4>0. records[j].state # "absent" => records[j].digest \in Digests
          BY RowColumns, Zenon DEF IInv, TypeOK
        <4>1. records[j].state # "absent" => invocations[records[j].invocation] # Null
          <5> SUFFICES ASSUME records[j].state # "absent"
                       PROVE  invocations[records[j].invocation] # Null
            OBVIOUS
          <5>1. invocations[records[j].invocation] = [key |-> j, digest |-> records[j].digest]
            BY DEF IInv, KeyInv
          <5>2. [key |-> j, digest |-> records[j].digest] \in [key : Keys, digest : Digests]
            BY <4>0
          <5> QED
            BY <5>1, <5>2, ConstantsAssumption
        <4>2. records[j].state # "absent" => records[j].invocation \in InvocationIDs
          BY RowColumns, Zenon DEF IInv, TypeOK
        <4> QED
          BY <1>2, <4>1, <4>2, Zenon DEF IInv, TypeOK
      <3> QED
        BY <3>1, <3>2, Zenon DEF IInv, KeyInv
    <2> QED
      BY <2>1, <2>2
  <1>7. ASSUME NEW i \in InvocationIDs PROVE InvocationInv(i)'
    <2>1. CASE i = id
      BY <1>1, <1>2, <2>1, Zenon DEF IInv, TypeOK, InvocationInv, Claim
    <2>2. CASE i # id
      <3>1. invocations'[i] = invocations[i]
        BY <1>2, <2>2, Zenon DEF IInv, TypeOK
      <3>2. invocations[i] # Null => invocations[i].key # k /\ invocations[i].key \in Keys
        BY <1>2 DEF IInv, TypeOK, InvocationInv, Created
      <3> QED
        BY <1>2, <3>1, <3>2, Zenon DEF IInv, TypeOK, InvocationInv
    <2> QED
      BY <2>1, <2>2
  <1>8. ASSUME NEW b \in Calls PROVE CallInv(b)'
    <2>1. RowsKept
      BY <1>1, <1>2, Zenon DEF RowsKept, IInv, TypeOK
    <2>2. CASE b = c
      <3>1. /\ calls'[c].key = k /\ calls'[c].digest = q.digest
            /\ \/ calls'[c].kind = "owned" /\ calls'[c].phase = "holding"
               \/ calls'[c].kind = "error" /\ calls'[c].phase = "idle"
        BY <1>2, CommitCalls, Zenon
      <3>2. records'[k] = row
        BY <1>1, <1>2, Zenon DEF IInv, TypeOK
      <3> QED
        BY <1>1, <2>2, <3>1, <3>2 DEF CallInv, Claim
    <2>3. CASE b # c
      BY <1>2, <2>1, <2>3, CommitCalls, OtherCall, Zenon
    <2> QED
      BY <2>2, <2>3
  <1> QED
    BY <1>5, <1>6, <1>7, <1>8 DEF IInv

(* A recovery adds one grant of the same invocation to the history.        *)
LEMMA RecoverInv ==
  ASSUME IInv, NEW c \in Calls, Recover(c)
  PROVE  IInv'
  <1> DEFINE q == calls[c]
             p == ProcessOf[c]
             k == q.key
             r == records[k]
             g == grants[k]
             e == [owner |-> p, invocation |-> r.invocation, digest |-> q.digest,
                   from |-> q.now, until |-> q.now + Lease[p]]
             row == Claim(r.digest, p, q.now + Lease[p], r.recoveries + 1,
                          r.max, r.invocation)
  <1>1. /\ k \in Keys /\ q.digest \in Digests /\ q.now \in Int /\ p \in Processes
        /\ Lease[p] \in Nat \ {0} /\ r \in Record /\ g \in Seq(Grant)
    BY Acquiring, Zenon DEF Recover
  <1>g. /\ r.state = "claimed" /\ r.digest = q.digest
        /\ r.expires <= q.now /\ r.recoveries < r.max
    BY Zenon DEF Recover, Recoverable
  <1>2. /\ records' = [records EXCEPT ![k] = row]
        /\ grants' = [grants EXCEPT ![k] = Append(@, e)]
        /\ Commit(c, "recovered", r.invocation)
        /\ UNCHANGED <<invocations, clock, writer>>
    BY Zenon DEF Recover, GrantTo
  <1>3. /\ r.digest \in Digests /\ r.invocation \in InvocationIDs
        /\ r.recoveries \in Nat /\ r.max \in 0..10 /\ r.expires \in Int
    BY <1>1, <1>g, RowColumns, Zenon
  <1>4. /\ row \in Record
        /\ row.state = "claimed" /\ row.owner = p /\ row.expires = q.now + Lease[p]
        /\ row.recoveries = r.recoveries + 1 /\ row.max = r.max
        /\ row.invocation = r.invocation /\ row.digest = r.digest
    <2>1. q.now + Lease[p] \in Int /\ r.recoveries + 1 \in Nat /\ r.digest \in Digests
      BY <1>1, <1>g, <1>3
    <2>2. row \in Row("claimed", Processes, {Null})
      <3> HIDE DEF q, p, r
      <3> QED
        BY <1>1, <1>3, <2>1 DEF Row, Claim
    <2> QED
      BY <2>2, Zenon DEF Record, Claim
  <1>5. e \in Grant
    BY <1>1, <1>3 DEF Grant
  <1>6. /\ records'[k] = row /\ grants'[k] = Append(g, e)
        /\ \A j \in Keys : j # k => records'[j] = records[j] /\ grants'[j] = grants[j]
    BY <1>1, <1>2, Zenon DEF IInv, TypeOK
  <1>7. TypeOK'
    <2>1. records' \in [Keys -> Record]
      BY <1>2, <1>4, Zenon DEF IInv, TypeOK
    <2>2. calls' \in [Calls -> Call]
      BY <1>2, <1>3, CommitCalls, Zenon
    <2>3. Append(g, e) \in Seq(Grant)
      <3> HIDE DEF g, e
      <3> QED
        BY <1>1, <1>5
    <2>4. grants' \in [Keys -> Seq(Grant)]
      BY <1>2, <2>3, Zenon DEF IInv, TypeOK
    <2> QED
      BY <1>2, <2>1, <2>2, <2>4, Zenon DEF IInv, TypeOK
  <1>8. ASSUME NEW j \in Keys PROVE KeyInv(j)'
    <2>1. CASE j = k
      <3>1. /\ Len(g) = r.recoveries + 1
            /\ r.max = MaxRecoveries[g[1].owner]
            /\ invocations[r.invocation] = [key |-> k, digest |-> r.digest]
            /\ \A i \in 1..Len(g) : g[i].invocation = r.invocation /\ g[i].digest = r.digest
            /\ \A i \in 1..Len(g) - 1 : g[i].until <= g[i + 1].from
            /\ r.expires = g[Len(g)].until
        BY <1>1, <1>g, Zenon DEF IInv, KeyInv, History
      <3> DEFINE h == Append(g, e)
      <3>2. /\ Len(h) = Len(g) + 1 /\ h[1] = g[1] /\ h[Len(h)] = e
            /\ \A i \in 1..Len(h) - 1 : h[i].until <= h[i + 1].from
            /\ \A i \in 1..Len(h) : h[i].invocation = e.invocation /\ h[i].digest = e.digest
        <4>1. Len(g) > 0 /\ g[Len(g)].until <= e.from
          <5>1. e.from = q.now
            OBVIOUS
          <5> HIDE DEF e, g, r, q
          <5> QED
            BY <1>g, <1>3, <3>1, <5>1
        <4>2. \A i \in 1..Len(g) : g[i].invocation = e.invocation /\ g[i].digest = e.digest
          BY <1>g, <3>1, Zenon
        <4>3. h = Append(g, e)
          OBVIOUS
        <4>4. /\ g \in Seq(Grant) /\ e \in Grant
              /\ \A i \in 1..Len(g) - 1 : g[i].until <= g[i + 1].from
          BY <1>1, <1>5, <3>1, Zenon
        <4> HIDE DEF e, g, h
        <4> QED
          BY <4>1, <4>2, <4>3, <4>4, HistoryGrows
      <3>3. /\ e.invocation = r.invocation /\ e.digest = r.digest
            /\ e.owner = p /\ e.until = q.now + Lease[p]
        BY <1>g, Zenon
      <3>4. records'[k] = row /\ grants'[k] = h /\ invocations' = invocations
        BY <1>2, <1>6, Zenon
      <3>5. row.recoveries <= row.max /\ Len(h) = row.recoveries + 1
        <4>1. row.recoveries = r.recoveries + 1 /\ row.max = r.max
          BY <1>4, Zenon
        <4>2. r.recoveries \in Nat /\ r.max \in Int /\ r.recoveries < r.max
          BY <1>g, <1>3
        <4>3. Len(h) = Len(g) + 1 /\ Len(g) = r.recoveries + 1
          BY <3>1, <3>2, Zenon
        <4> HIDE DEF row, h, g, r
        <4> QED
          BY <4>1, <4>2, <4>3
      <3> HIDE DEF row, h, e
      <3> QED
        BY <1>4, <2>1, <3>1, <3>2, <3>3, <3>4, <3>5, Zenon DEF KeyInv, History
    <2>2. CASE j # k
      <3>1. /\ records'[j] = records[j] /\ grants'[j] = grants[j]
            /\ invocations' = invocations /\ writer' = writer
        BY <1>2, <1>6, <2>2, Zenon
      <3> QED
        BY <3>1, Zenon DEF IInv, KeyInv
    <2> QED
      BY <2>1, <2>2
  <1>9. ASSUME NEW i \in InvocationIDs PROVE InvocationInv(i)'
    <2> HIDE DEF row
    <2>1. RowsKept
      BY <1>g, <1>4, <1>6, Zenon DEF RowsKept
    <2>2. \A j \in Keys : records'[j].invocation = records[j].invocation
      BY <1>4, <1>6, Zenon
    <2> QED
      BY <1>2, <2>1, <2>2, KeptInvocation, Zenon
  <1>10. ASSUME NEW b \in Calls PROVE CallInv(b)'
    <2> HIDE DEF row
    <2>1. RowsKept
      BY <1>g, <1>4, <1>6, Zenon DEF RowsKept
    <2>2. CASE b = c
      <3>1. /\ calls'[c].key = k /\ calls'[c].digest = q.digest
            /\ \/ calls'[c].kind = "recovered" /\ calls'[c].phase = "holding"
               \/ calls'[c].kind = "error" /\ calls'[c].phase = "idle"
        BY <1>2, <1>3, CommitCalls, Zenon
      <3> QED
        BY <1>1, <1>g, <1>4, <1>6, <2>2, <3>1, Zenon DEF CallInv
    <2>3. CASE b # c
      BY <1>2, <1>3, <2>1, <2>3, CommitCalls, OtherCall, Zenon
    <2> QED
      BY <2>2, <2>3
  <1> QED
    BY <1>7, <1>8, <1>9, <1>10 DEF IInv

(* Steps that only answer or release a request leave the tables alone.     *)
LEMMA TablesKept ==
  ASSUME IInv, UNCHANGED <<records, invocations, grants, writer>>
  PROVE  /\ \A k \in Keys : KeyInv(k)'
         /\ \A i \in InvocationIDs : InvocationInv(i)'
         /\ RowsKept
  BY Zenon DEF IInv, KeyInv, InvocationInv, RowsKept

(* A classification agrees with the row it read.                           *)
LEMMA ClassifyExistingInv ==
  ASSUME IInv, NEW c \in Calls, ClassifyExisting(c)
  PROVE  IInv'
  <1> DEFINE q == calls[c]
             r == records[q.key]
             kind == Classification(q)
             v == IF kind = "replay" THEN r.payload ELSE Null
  <1>1. /\ q.phase = "acquiring" /\ r.state # "absent"
        /\ Answer(c, kind, r.invocation, v)
        /\ UNCHANGED <<records, invocations, clock, grants, writer>>
    BY Zenon DEF ClassifyExisting
  <1>2. q.key \in Keys /\ q.digest \in Digests /\ r \in Record
    BY <1>1, Acquiring, Zenon
  <1>3. /\ r.invocation \in InvocationIDs \union {Null}
        /\ r.payload \in Payloads \union {Null}
    <2>1. r.state # "absent"
      BY <1>1, Zenon
    <2> QED
      BY <1>2, <2>1, RowColumns, Zenon
  <1>4. /\ kind \in {"conflict", "replay", "recovery_exhausted", "pending"}
        /\ kind = "conflict" <=> r.digest # q.digest
        /\ kind = "replay" => r.state = "completed"
    BY Zenon DEF Classification
  <1> HIDE DEF kind
  <1>5. kind \in Kinds /\ v \in Payloads \union {Null}
    BY <1>3, <1>4, Zenon DEF Kinds
  <1>6. /\ calls' \in [Calls -> Call]
        /\ \A b \in Calls : b # c => calls'[b] = calls[b]
        /\ calls'[c].kind = kind /\ calls'[c].payload = v
        /\ calls'[c].key = q.key /\ calls'[c].digest = q.digest
        /\ calls'[c].phase = "idle"
    <2> DEFINE id == r.invocation
    <2>1. Answer(c, kind, id, v) /\ id \in InvocationIDs \union {Null}
      BY <1>1, <1>3, Zenon
    <2>2. kind \notin {"owned", "recovered"}
      BY <1>4, Zenon
    <2> HIDE DEF v, id
    <2> QED
      BY <1>5, <2>1, <2>2, AnswerCalls
  <1>7. TypeOK'
    BY <1>1, <1>6, Zenon DEF IInv, TypeOK
  <1>8. ASSUME NEW b \in Calls PROVE CallInv(b)'
    <2>1. CASE b = c
      BY <1>1, <1>2, <1>4, <1>6, <2>1, Zenon DEF CallInv
    <2>2. CASE b # c
      BY <1>1, <1>6, <2>2, TablesKept, OtherCall, Zenon
    <2> QED
      BY <2>1, <2>2
  <1> QED
    BY <1>1, <1>7, <1>8, TablesKept, Zenon DEF IInv

(* A transaction that is rolled back answers an error and changes no row.  *)
LEMMA AbortInv ==
  ASSUME IInv, NEW c \in Calls, Abort(c)
  PROVE  IInv'
  <1>1. /\ Answer(c, "error", Null, Null)
        /\ UNCHANGED <<records, invocations, clock, grants, writer>>
    BY DEF Abort
  <1>2. /\ calls' \in [Calls -> Call]
        /\ \A b \in Calls : b # c => calls'[b] = calls[b]
        /\ calls'[c].kind = "error" /\ calls'[c].phase = "idle"
    BY <1>1, AnswerCalls, Zenon DEF Kinds
  <1>3. TypeOK'
    BY <1>1, <1>2 DEF IInv, TypeOK
  <1>4. ASSUME NEW b \in Calls PROVE CallInv(b)'
    <2>1. CASE b = c
      BY <1>2, <2>1, Zenon DEF CallInv
    <2>2. CASE b # c
      BY <1>1, <1>2, <2>2, TablesKept, OtherCall, Zenon
    <2> QED
      BY <2>1, <2>2
  <1> QED
    BY <1>1, <1>3, <1>4, TablesKept DEF IInv

(* An owner that gives up leaves its claim as it is.                       *)
LEMMA AbandonInv ==
  ASSUME IInv, NEW c \in Calls, Abandon(c)
  PROVE  IInv'
  <1>1. /\ Answer(c, "none", calls[c].invocation, Null)
        /\ UNCHANGED <<records, invocations, clock, grants, writer>>
    BY DEF Abandon
  <1>2. /\ calls' \in [Calls -> Call]
        /\ \A b \in Calls : b # c => calls'[b] = calls[b]
        /\ calls'[c].kind = "none" /\ calls'[c].phase = "idle"
    <2>1. calls[c].invocation \in InvocationIDs \union {Null}
      BY DEF IInv, TypeOK, Call
    <2> QED
      BY <1>1, <2>1, AnswerCalls, Zenon DEF Kinds
  <1>3. TypeOK'
    BY <1>1, <1>2 DEF IInv, TypeOK
  <1>4. ASSUME NEW b \in Calls PROVE CallInv(b)'
    <2>1. CASE b = c
      BY <1>2, <2>1, Zenon DEF CallInv
    <2>2. CASE b # c
      BY <1>1, <1>2, <2>2, TablesKept, OtherCall, Zenon
    <2> QED
      BY <2>1, <2>2
  <1> QED
    BY <1>1, <1>3, <1>4, TablesKept DEF IInv

(* The passing of time changes the clock only.                             *)
LEMMA TickInv ==
  ASSUME IInv, Tick
  PROVE  IInv'
  <1>1. /\ clock' = clock + 1
        /\ UNCHANGED <<records, invocations, calls, grants, writer>>
    BY Zenon DEF Tick
  <1>2. TypeOK'
    BY <1>1 DEF IInv, TypeOK
  <1>3. \A b \in Calls : CallInv(b)'
    BY <1>1, TablesKept, OtherCall
  <1> QED
    BY <1>1, <1>2, <1>3, TablesKept DEF IInv

(* A completion is by the owner that was granted last.                     *)
LEMMA CompleteInv ==
  ASSUME IInv, NEW c \in Calls, NEW v \in Payloads, Complete(c, v)
  PROVE  IInv'
  <1> DEFINE q == calls[c]
             p == ProcessOf[c]
             k == q.key
             r == records[k]
             Published == /\ MayComplete(c)
                          /\ records' = [records EXCEPT ![k] = Completed(r, v)]
                          /\ writer' = [writer EXCEPT ![k] = p]
             Untouched == UNCHANGED <<records, writer>>
  <1>0. PICK kind \in {"completed", "not_current", "error"},
             id \in {q.invocation, Null} :
          /\ Answer(c, kind, id, Null)
          /\ (kind \in {"completed", "error"} /\ Published)
             \/ (kind \in {"not_current", "error"} /\ Untouched)
    BY Zenon DEF Complete, Commit
  <1> HIDE DEF Published, Untouched
  <1>1. /\ q.phase = "holding"
        /\ UNCHANGED <<invocations, clock, grants>>
    BY Zenon DEF Complete
  <1>2. /\ k \in Keys /\ q.digest \in Digests /\ p \in Processes /\ r \in Record
        /\ q.invocation \in InvocationIDs \union {Null}
    BY <1>1, Acquiring, Zenon DEF Call
  <1>3. /\ calls' \in [Calls -> Call]
        /\ \A b \in Calls : b # c => calls'[b] = calls[b]
        /\ calls'[c].kind = kind /\ calls'[c].key = k /\ calls'[c].digest = q.digest
        /\ calls'[c].phase = "idle"
    <2>1. kind \in Kinds /\ kind \notin {"owned", "recovered"}
      BY <1>0 DEF Kinds
    <2>2. id \in InvocationIDs \union {Null}
      BY <1>0, <1>2, Zenon
    <2> QED
      BY <1>0, <1>1, <1>2, <2>1, <2>2, AnswerCalls
  <1>4. r.state # "absent" /\ r.digest = q.digest
    BY <1>1, <1>2, Zenon DEF IInv, CallInv
  <1>5. CASE kind \in {"not_current", "error"} /\ Untouched
    <2>1. UNCHANGED <<records, invocations, clock, grants, writer>>
      BY <1>1, <1>5, Zenon DEF Untouched
    <2>2. TypeOK'
      BY <2>1, <1>3, Zenon DEF IInv, TypeOK
    <2>3. ASSUME NEW b \in Calls PROVE CallInv(b)'
      <3>1. CASE b = c
        BY <1>3, <1>5, <3>1, Zenon DEF CallInv
      <3>2. CASE b # c
        BY <1>3, <2>1, <3>2, TablesKept, OtherCall, Zenon
      <3> QED
        BY <3>1, <3>2
    <2> QED
      BY <2>1, <2>2, <2>3, TablesKept DEF IInv
  <1>6. CASE kind \in {"completed", "error"} /\ Published
    <2> DEFINE row == Completed(r, v)
    <2>1. /\ records' = [records EXCEPT ![k] = row]
          /\ writer' = [writer EXCEPT ![k] = p]
          /\ r.state = "claimed" /\ r.owner = p
      BY <1>6, Zenon DEF Published, MayComplete
    <2>2. /\ row \in Record /\ row.state = "completed"
          /\ row.digest = r.digest /\ row.recoveries = r.recoveries /\ row.max = r.max
          /\ row.invocation = r.invocation
      BY <1>2, <2>1, CompletedColumns, Zenon
    <2> HIDE DEF row
    <2>3. /\ records'[k] = row /\ writer'[k] = p
          /\ \A j \in Keys : j # k => records'[j] = records[j] /\ writer'[j] = writer[j]
      BY <1>2, <2>1, Zenon DEF IInv, TypeOK
    <2>4. TypeOK'
      <3>1. records' \in [Keys -> Record] /\ writer' \in [Keys -> Processes \union {Null}]
        BY <1>2, <2>1, <2>2, Zenon DEF IInv, TypeOK
      <3> QED
        BY <1>1, <1>3, <3>1, Zenon DEF IInv, TypeOK
    <2>5. ASSUME NEW j \in Keys PROVE KeyInv(j)'
      <3>1. CASE j = k
        <4>1. /\ Len(grants[k]) = r.recoveries + 1
              /\ r.recoveries <= r.max
              /\ r.max = MaxRecoveries[grants[k][1].owner]
              /\ invocations[r.invocation] = [key |-> k, digest |-> r.digest]
              /\ \A i \in 1..Len(grants[k]) : /\ grants[k][i].invocation = r.invocation
                                             /\ grants[k][i].digest = r.digest
              /\ \A i \in 1..Len(grants[k]) - 1 : grants[k][i].until <= grants[k][i + 1].from
              /\ p = grants[k][Len(grants[k])].owner
          BY <1>2, <2>1, Zenon DEF IInv, KeyInv, History
        <4>2. records'[k] = row /\ writer'[k] = p /\ grants' = grants /\ invocations' = invocations
          BY <1>1, <2>3, Zenon
        <4> QED
          BY <2>2, <3>1, <4>1, <4>2, Zenon DEF KeyInv, History
      <3>2. CASE j # k
        BY <1>1, <2>3, <3>2, Zenon DEF IInv, KeyInv
      <3> QED
        BY <3>1, <3>2
    <2>6. ASSUME NEW i \in InvocationIDs PROVE InvocationInv(i)'
      <3>1. RowsKept
        BY <2>1, <2>2, <2>3, Zenon DEF RowsKept
      <3>2. \A j \in Keys : records'[j].invocation = records[j].invocation
        BY <2>2, <2>3, Zenon
      <3> QED
        BY <1>1, <3>1, <3>2, KeptInvocation, Zenon
    <2>7. ASSUME NEW b \in Calls PROVE CallInv(b)'
      <3>1. RowsKept
        BY <2>1, <2>2, <2>3, Zenon DEF RowsKept
      <3>2. CASE b = c
        BY <1>2, <1>3, <1>4, <1>6, <2>2, <2>3, <3>2, Zenon DEF CallInv
      <3>3. CASE b # c
        BY <1>3, <3>1, <3>3, OtherCall, Zenon
      <3> QED
        BY <3>2, <3>3
    <2> QED
      BY <2>4, <2>5, <2>6, <2>7 DEF IInv
  <1> QED
    BY <1>0, <1>5, <1>6, Zenon

(* Every step of the protocol keeps the invariant.                         *)
LEMMA NextInv == IInv /\ [Next]_vars => IInv'
  <1> SUFFICES ASSUME IInv, [Next]_vars PROVE IInv'
    OBVIOUS
  <1>1. CASE Next
    BY <1>1, BeginInv, InsertInv, RecoverInv, ClassifyExistingInv, AbortInv,
       CompleteInv, AbandonInv, TickInv, Zenon DEF Next
  <1>2. CASE UNCHANGED vars
    <2>1. TypeOK'
      BY <1>2 DEF IInv, TypeOK, vars
    <2>2. \A c \in Calls : CallInv(c)'
      BY <1>2, TablesKept, OtherCall DEF vars
    <2> QED
      BY <1>2, <2>1, <2>2, TablesKept DEF IInv, vars
  <1> QED
    BY <1>1, <1>2

(* The acquisition protocol keeps its inductive invariant.                 *)
THEOREM Invariance == Spec => []IInv
  BY InitInv, NextInv, PTL DEF Spec

(* A row with grants exists, and its counters are numbers.                 *)
LEMMA Granted ==
  ASSUME IInv, NEW k \in Keys, NEW i \in Int, 1 <= i, i <= Len(grants[k])
  PROVE  records[k].state # "absent"
  <1> SUFFICES ASSUME records[k].state = "absent" PROVE FALSE
    OBVIOUS
  <1>1. grants[k] = <<>>
    BY Zenon DEF IInv, KeyInv, History
  <1>2. Len(grants[k]) = 0
    BY <1>1
  <1> QED
    BY <1>2

(* The counters of a row are numbers.                                      *)
LEMMA RowNumbers ==
  ASSUME IInv, NEW k \in Keys
  PROVE  records[k].recoveries \in Nat /\ records[k].max \in Int
  <1>1. records[k] \in Record
    BY DEF IInv, TypeOK
  <1> QED
    BY <1>1, RowColumns DEF Absent

(* The tables keep their types and the CHECK constraints of the schema.    *)
THEOREM TypeCorrect == Spec => []TypeOK
  <1>1. IInv => TypeOK
    BY DEF IInv
  <1> QED
    BY <1>1, Invariance, PTL

(* Ownership of a call is handed out at most 1 + max_recoveries times.     *)
THEOREM OwnershipIsBounded == Spec => []BoundedOwnership
  <1>1. IInv => BoundedOwnership
    <2> SUFFICES ASSUME IInv, NEW k \in Keys, grants[k] # <<>>
                 PROVE  Len(grants[k]) <= 1 + MaxRecoveries[grants[k][1].owner]
      BY Zenon DEF BoundedOwnership
    <2>1. records[k].state # "absent"
      BY Zenon DEF IInv, KeyInv, History
    <2>2. /\ Len(grants[k]) = records[k].recoveries + 1
          /\ records[k].recoveries <= records[k].max
          /\ records[k].max = MaxRecoveries[grants[k][1].owner]
      BY <2>1, Zenon DEF IInv, KeyInv, History
    <2>3. records[k].recoveries \in Nat /\ records[k].max \in Int
      BY RowNumbers, Zenon
    <2> QED
      BY <2>2, <2>3
  <1> QED
    BY <1>1, Invariance, PTL

(* Every ownership of a call is of one and the same durable invocation.    *)
THEOREM InvocationIsUnique == Spec => []OneInvocation
  <1>1. IInv => OneInvocation
    <2> SUFFICES ASSUME IInv PROVE OneInvocation
      OBVIOUS
    <2>1. ASSUME NEW k \in Keys, NEW i \in 1..Len(grants[k])
          PROVE  /\ grants[k][i].invocation = records[k].invocation
                 /\ invocations[records[k].invocation] = [key |-> k, digest |-> grants[k][i].digest]
      <3>1. records[k].state # "absent"
        BY Granted
      <3>2. KeyInv(k)
        BY DEF IInv
      <3>3. /\ grants[k][i].invocation = records[k].invocation
            /\ grants[k][i].digest = records[k].digest
            /\ invocations[records[k].invocation] = [key |-> k, digest |-> records[k].digest]
        BY <3>1, <3>2, Zenon DEF KeyInv, History
      <3> QED
        BY <3>3, Zenon
    <2>2. ASSUME NEW i \in InvocationIDs, NEW j \in InvocationIDs,
                 invocations[i] # Null, invocations[j] # Null,
                 invocations[i].key = invocations[j].key
          PROVE  i = j
      BY <2>2 DEF IInv, InvocationInv
    <2> QED
      BY <2>1, <2>2, Zenon DEF OneInvocation
  <1> QED
    BY <1>1, Invariance, PTL

(* On the owners' clocks, leases on a call do not overlap.                 *)
THEOREM LeasesAreDisjoint == Spec => []LeasesDisjoint
  <1>1. IInv => LeasesDisjoint
    <2> SUFFICES ASSUME IInv, NEW k \in Keys, NEW i \in 1..Len(grants[k]) - 1
                 PROVE  grants[k][i].until <= grants[k][i + 1].from
      BY Zenon DEF LeasesDisjoint
    <2>1. grants[k] \in Seq(Grant)
      BY DEF IInv, TypeOK
    <2>2. i \in Int /\ 1 <= i /\ i <= Len(grants[k])
      BY <2>1
    <2>3. records[k].state # "absent"
      BY <2>2, Granted, Zenon
    <2> QED
      BY <2>3, Zenon DEF IInv, KeyInv, History
  <1> QED
    BY <1>1, Invariance, PTL

(* A stale owner cannot complete a claim recovered by another process.     *)
THEOREM StaleOwnerCannotComplete == Spec => []CompletedByLastOwner
  <1>1. IInv => CompletedByLastOwner
    <2> SUFFICES ASSUME IInv, NEW k \in Keys, records[k].state = "completed"
                 PROVE  grants[k] # <<>> /\ writer[k] = grants[k][Len(grants[k])].owner
      BY DEF CompletedByLastOwner
    <2>1. /\ Len(grants[k]) = records[k].recoveries + 1
          /\ writer[k] = grants[k][Len(grants[k])].owner
      BY Zenon DEF IInv, KeyInv, History
    <2>2. records[k].recoveries \in Nat
      BY RowNumbers
    <2> QED
      BY <2>1, <2>2
  <1> QED
    BY <1>1, Invariance, PTL

(* A replay handed out once is the envelope of the call for ever.          *)
THEOREM ReplaysAgree == Spec => []ReplayAgreement
  <1>1. IInv => ReplayAgreement
    BY Zenon DEF IInv, CallInv, ReplayAgreement
  <1> QED
    BY <1>1, Invariance, PTL

(* A mismatched request never owns, completes or replays a call.           *)
THEOREM MismatchesConflict == Spec => []MismatchConflicts
  <1>1. IInv => MismatchConflicts
    BY Zenon DEF IInv, CallInv, MismatchConflicts
  <1> QED
    BY <1>1, Invariance, PTL

-----------------------------------------------------------------------------
(* The proof that LogicalInvocation implements LogicalCall: every step of  *)
(* the acquisition protocol is a step of the logical call it stands for,   *)
(* or leaves it alone.                                                     *)

(* A changed request is a change of what one caller was told.              *)
LEMMA ToldStep ==
  ASSUME NEW c \in Calls, calls' \in [Calls -> Call],
         \A b \in Calls : b # c => calls'[b] = calls[b]
  PROVE  Told' = [Told EXCEPT ![c] = ToldTo(calls'[c])]
  BY Zenon DEF Told

(* A changed row is a change of one logical call.                          *)
LEMMA LogicalStep ==
  ASSUME IInv, NEW k \in Keys, NEW row, records' = [records EXCEPT ![k] = row]
  PROVE  Logical' = [Logical EXCEPT ![k] = LogicalOf(row)]
  BY Zenon DEF Logical, IInv, TypeOK

(* What a request that is in an acquisition, or holds a call, was told.    *)
LEMMA Requests ==
  ASSUME IInv, NEW c \in Calls
  PROVE  /\ Told[c].key = calls[c].key /\ Told[c].digest = calls[c].digest
         /\ Told[c].invocation = calls[c].invocation
         /\ calls[c].phase = "acquiring" => Told[c].kind = "asked"
         /\ calls[c].phase = "holding" => Told[c].kind \in {"owned", "recovered"}
  BY Zenon DEF Told, ToldTo, IInv, CallInv

(* An answer tells its caller what it says.                                *)
LEMMA AnswerTells ==
  ASSUME IInv, NEW c \in Calls, NEW kind \in Kinds,
         NEW id \in InvocationIDs \union {Null}, NEW v \in Payloads \union {Null},
         Answer(c, kind, id, v)
  PROVE  Promise!Tell(c, kind, id, v)
  <1>1. /\ calls' \in [Calls -> Call]
        /\ \A b \in Calls : b # c => calls'[b] = calls[b]
        /\ calls'[c].kind = kind /\ calls'[c].invocation = id /\ calls'[c].payload = v
        /\ calls'[c].key = calls[c].key /\ calls'[c].digest = calls[c].digest
        /\ calls'[c].phase # "acquiring"
    BY AnswerCalls
  <1>2. ToldTo(calls'[c]) = [key |-> calls[c].key, digest |-> calls[c].digest, kind |-> kind,
                             invocation |-> id, envelope |-> v]
    BY <1>1, Zenon DEF ToldTo
  <1> QED
    BY <1>1, <1>2, ToldStep, Requests, Zenon DEF Promise!Tell

(* So does the answer to a commit, unless it is lost.                      *)
LEMMA CommitTells ==
  ASSUME IInv, NEW c \in Calls, NEW kind \in {"owned", "recovered", "completed"},
         NEW id \in InvocationIDs \union {Null}, Commit(c, kind, id)
  PROVE  Promise!TellOrLose(c, kind, id)
  <1>1. CASE Answer(c, kind, id, Null)
    BY <1>1, AnswerTells DEF Kinds, Promise!TellOrLose
  <1>2. CASE Answer(c, "error", Null, Null)
    BY <1>2, AnswerTells DEF Kinds, Promise!TellOrLose
  <1> QED
    BY <1>1, <1>2 DEF Commit

LEMMA BeginAsks ==
  ASSUME IInv, NEW c \in Calls, NEW k \in Keys, NEW d \in Digests, Begin(c, k, d)
  PROVE  Promise!Ask(c, k, d)
  <1>1. /\ calls' \in [Calls -> Call]
        /\ \A b \in Calls : b # c => calls'[b] = calls[b]
    <2>1. IInv'
      BY BeginInv
    <2> QED
      BY <2>1, Zenon DEF IInv, TypeOK, Begin
  <1>2. calls'[c] = [phase |-> "acquiring", key |-> k, digest |-> d,
                     now |-> clock + Skew[ProcessOf[c]],
                     kind |-> "none", invocation |-> Null, payload |-> Null]
    BY Zenon DEF Begin, IInv, TypeOK
  <1>3. ToldTo(calls'[c]) = [key |-> k, digest |-> d, kind |-> "asked", invocation |-> Null,
                             envelope |-> Null]
    BY <1>2 DEF ToldTo
  <1>4. Logical' = Logical
    BY Zenon DEF Begin, Logical
  <1> QED
    BY <1>1, <1>3, <1>4, ToldStep, Zenon DEF Promise!Ask

LEMMA InsertCreates ==
  ASSUME IInv, NEW c \in Calls, NEW id \in InvocationIDs, Insert(c, id)
  PROVE  Promise!Create(c, id, MaxRecoveries[ProcessOf[c]])
  <1> DEFINE q == calls[c]
             p == ProcessOf[c]
             k == q.key
             row == Claim(q.digest, p, q.now + Lease[p], 0, MaxRecoveries[p], id)
  <1>1. /\ q.phase = "acquiring" /\ k \in Keys /\ records[k] \in Record
        /\ MaxRecoveries[p] \in 0..10
    BY Acquiring, Zenon DEF Insert
  <1>2. /\ records[k].state = "absent"
        /\ invocations[id] = Null
        /\ records' = [records EXCEPT ![k] = row]
        /\ Commit(c, "owned", id)
    BY Zenon DEF Insert
  <1>3. Told[c].kind = "asked" /\ Told[c].key = k /\ Told[c].digest = q.digest
    BY <1>1, Requests, Zenon
  <1>4. Logical[k] = Promise!Unused
    <2>1. records[k] = Absent
      BY <1>1, <1>2, RowColumns, Zenon
    <2> QED
      BY <1>1, <2>1 DEF Logical, LogicalOf, Absent, Promise!Unused
  <1>5. ASSUME NEW other \in Keys PROVE Logical[other].invocation # id
    <2>1. Logical[other].invocation = records[other].invocation
      BY Zenon DEF Logical, LogicalOf
    <2>2. CASE records[other].state = "absent"
      <3>1. records[other].invocation = Null
        BY <2>2, RowColumns DEF IInv, TypeOK, Absent
      <3> QED
        BY <2>1, <3>1, ConstantsAssumption, Zenon
    <2>3. CASE records[other].state # "absent"
      <3>1. invocations[records[other].invocation] =
              [key |-> other, digest |-> records[other].digest]
        BY <2>3, Zenon DEF IInv, KeyInv
      <3>2. records[other].digest \in Digests
        BY <2>3, RowColumns, Zenon DEF IInv, TypeOK
      <3>3. [key |-> other, digest |-> records[other].digest] \in [key : Keys, digest : Digests]
        BY <3>2
      <3> QED
        BY <1>2, <2>1, <3>1, <3>3, ConstantsAssumption, Zenon
    <2> QED
      BY <2>2, <2>3, Zenon
  <1>6. LogicalOf(row) = [digest |-> q.digest, invocation |-> id, owner |-> p,
                          left |-> MaxRecoveries[p], envelope |-> Null]
    <2> PICK m \in 0..10 : m = MaxRecoveries[p]
      BY <1>1, Zenon
    <2>1. m - 0 = m
      <3>1. 0 \in Nat
        OBVIOUS
      <3> QED
        BY <3>1, Left, Zenon
    <2> PICK w : w = row
      BY Zenon
    <2>2. /\ w.digest = q.digest /\ w.owner = p /\ w.recoveries = 0 /\ w.max = m
          /\ w.invocation = id /\ w.payload = Null
      BY Zenon DEF Claim
    <2> HIDE DEF row
    <2> QED
      BY <2>1, <2>2, Zenon DEF LogicalOf
  <1>7. Logical' = [Logical EXCEPT ![k] = LogicalOf(row)]
    BY <1>1, <1>2, LogicalStep, Zenon
  <1>8. Promise!TellOrLose(c, "owned", id)
    BY <1>2, CommitTells, Zenon
  <1> HIDE DEF row
  <1> QED
    BY <1>3, <1>4, <1>5, <1>6, <1>7, <1>8, Zenon DEF Promise!Create

LEMMA RecoverTakesOver ==
  ASSUME IInv, NEW c \in Calls, Recover(c)
  PROVE  Promise!TakeOver(c)
  <1> DEFINE q == calls[c]
             p == ProcessOf[c]
             k == q.key
             r == records[k]
             row == Claim(r.digest, p, q.now + Lease[p], r.recoveries + 1, r.max, r.invocation)
  <1>1. q.phase = "acquiring" /\ k \in Keys /\ r \in Record
    BY Acquiring, Zenon DEF Recover
  <1>2. /\ r.state = "claimed" /\ r.digest = q.digest /\ r.recoveries < r.max
        /\ records' = [records EXCEPT ![k] = row]
        /\ Commit(c, "recovered", r.invocation)
    BY Zenon DEF Recover, Recoverable
  <1>3. /\ r.owner \in Processes /\ r.invocation \in InvocationIDs
        /\ r.recoveries \in Nat /\ r.max \in 0..10 /\ r.digest \in Digests
    BY <1>1, <1>2, RowColumns, Zenon
  <1>4. Told[c].kind = "asked" /\ Told[c].key = k /\ Told[c].digest = q.digest
    BY <1>1, Requests, Zenon
  <1>5. Logical[k] = LogicalOf(r)
    BY <1>1, Zenon DEF Logical
  <1>6. /\ LogicalOf(r).digest = r.digest /\ LogicalOf(r).invocation = r.invocation
        /\ LogicalOf(r).owner = r.owner /\ LogicalOf(r).left = r.max - r.recoveries
    BY Zenon DEF LogicalOf
  <1>7. LogicalOf(row) = [digest |-> r.digest, invocation |-> r.invocation, owner |-> p,
                          left |-> (r.max - r.recoveries) - 1, envelope |-> Null]
    <2> PICK n : n = r.recoveries
      BY Zenon
    <2> PICK m : m = r.max
      OBVIOUS
    <2>1. m - (n + 1) = (m - n) - 1
      BY <1>3, Left, Zenon
    <2> PICK w : w = row
      BY Zenon
    <2>2. /\ w.digest = r.digest /\ w.owner = p /\ w.recoveries = n + 1 /\ w.max = m
          /\ w.invocation = r.invocation /\ w.payload = Null
      BY Zenon DEF Claim
    <2> HIDE DEF row
    <2> QED
      BY <2>1, <2>2, Zenon DEF LogicalOf
  <1>8. r.owner # Null /\ r.max - r.recoveries > 0
    BY <1>2, <1>3, Left, ConstantsAssumption, Zenon
  <1>9. Logical' = [Logical EXCEPT ![k] = LogicalOf(row)]
    BY <1>1, <1>2, LogicalStep, Zenon
  <1>10. Promise!TellOrLose(c, "recovered", r.invocation)
    BY <1>2, <1>3, CommitTells, Zenon
  <1> HIDE DEF row, r
  <1> QED
    BY <1>2, <1>4, <1>5, <1>6, <1>7, <1>8, <1>9, <1>10, Zenon DEF Promise!TakeOver

LEMMA ClassifyExistingRefers ==
  ASSUME IInv, NEW c \in Calls, ClassifyExisting(c)
  PROVE  \E kind \in {"conflict", "replay", "pending", "recovery_exhausted"} :
           Promise!Refer(c, kind)
  <1> DEFINE q == calls[c]
             r == records[q.key]
             kind == Classification(q)
             id == r.invocation
             v == IF kind = "replay" THEN r.payload ELSE Null
  <1>1. /\ q.phase = "acquiring" /\ r.state # "absent"
        /\ Answer(c, kind, id, v)
        /\ records' = records
    BY Zenon DEF ClassifyExisting
  <1>2. q.key \in Keys /\ q.digest \in Digests /\ r \in Record
    BY <1>1, Acquiring, Zenon
  <1>3. /\ id \in InvocationIDs
        /\ r.payload \in Payloads \union {Null}
        /\ r.payload # Null <=> r.state = "completed"
        /\ r.recoveries \in Nat /\ r.max \in 0..10
    BY <1>1, <1>2, RowColumns, ConstantsAssumption, Zenon
  <1>4. r.recoveries <= r.max
    BY <1>1, <1>2, Zenon DEF IInv, KeyInv, History
  <1>5. /\ kind \in {"conflict", "replay", "recovery_exhausted", "pending"}
        /\ kind = "conflict" <=> r.digest # q.digest
        /\ kind = "replay" <=> r.digest = q.digest /\ r.state = "completed"
        /\ kind = "recovery_exhausted" => r.recoveries >= r.max
    BY Zenon DEF Classification
  <1>6. Told[c].kind = "asked" /\ Told[c].key = q.key /\ Told[c].digest = q.digest
    BY <1>1, Requests, Zenon
  <1>7. /\ Logical[q.key].digest = r.digest /\ Logical[q.key].invocation = id
        /\ Logical[q.key].envelope = r.payload
        /\ Logical[q.key].left = r.max - r.recoveries
    BY <1>2, Zenon DEF Logical, LogicalOf
  <1>8. Logical[q.key] # Promise!Unused
    BY <1>3, <1>7, ConstantsAssumption DEF Promise!Unused
  <1>9. kind = "recovery_exhausted" => Logical[q.key].left = 0
    BY <1>3, <1>4, <1>5, <1>7, Left, Zenon
  <1> HIDE DEF kind
  <1>10. kind \in Kinds /\ v \in Payloads \union {Null}
    BY <1>3, <1>5, Zenon DEF Kinds
  <1>11. Promise!Tell(c, kind, id, v)
    <2> HIDE DEF id, v
    <2> QED
      BY <1>1, <1>3, <1>10, AnswerTells, Zenon
  <1>12. Logical' = Logical
    BY <1>1, Zenon DEF Logical
  <1>13. Promise!Refer(c, kind)
    BY <1>3, <1>5, <1>6, <1>7, <1>8, <1>9, <1>11, <1>12, Zenon DEF Promise!Refer
  <1> QED
    BY <1>5, <1>13, Zenon

LEMMA CompleteFinishes ==
  ASSUME IInv, NEW c \in Calls, NEW v \in Payloads, Complete(c, v)
  PROVE  Promise!Finish(c, v) \/ Promise!Refuse(c) \/ Promise!Leave(c)
  <1> DEFINE q == calls[c]
             p == ProcessOf[c]
             k == q.key
             r == records[k]
  <1>1. /\ q.phase = "holding" /\ k \in Keys /\ r \in Record /\ p \in Processes
        /\ q.invocation \in InvocationIDs \union {Null}
    BY Acquiring, Zenon DEF Complete, IInv, TypeOK, Call
  <1>2. /\ Told[c].kind \in {"owned", "recovered"} /\ Told[c].key = k
        /\ Told[c].digest = q.digest /\ Told[c].invocation = q.invocation
    BY <1>1, Requests, Zenon
  <1>3. /\ Logical[k].digest = r.digest /\ Logical[k].invocation = r.invocation
        /\ Logical[k].owner = r.owner /\ Logical[k].left = r.max - r.recoveries
    BY <1>1, Zenon DEF Logical, LogicalOf
  <1>4. CASE /\ MayComplete(c)
             /\ records' = [records EXCEPT ![k] = Completed(r, v)]
             /\ Commit(c, "completed", q.invocation)
    <2>1. r.owner = p /\ r.state = "claimed"
      BY <1>4, Zenon DEF MayComplete
    <2>2. r.digest = q.digest
      BY <1>1, Zenon DEF IInv, CallInv
    <2>3. LogicalOf(Completed(r, v)) =
            [digest |-> r.digest, invocation |-> r.invocation, owner |-> Null,
             left |-> r.max - r.recoveries, envelope |-> v]
      BY <1>1, <2>1, CompletedColumns, Zenon
    <2>4. Logical' = [Logical EXCEPT ![k] = LogicalOf(Completed(r, v))]
      BY <1>1, <1>4, LogicalStep, Zenon
    <2>5. Promise!TellOrLose(c, "completed", q.invocation)
      BY <1>1, <1>4, CommitTells, Zenon
    <2> QED
      BY <1>2, <1>3, <2>1, <2>2, <2>3, <2>4, <2>5, Zenon DEF Promise!Finish
  <1>5. CASE /\ ~MayComplete(c)
             /\ Answer(c, "not_current", q.invocation, Null) /\ records' = records
    <2>1. Answer(c, "not_current", q.invocation, Null) /\ records' = records
      BY <1>5
    <2>2. r.owner # p
      BY <1>1, <1>5, RowColumns, ConstantsAssumption DEF MayComplete, Absent
    <2>3. Logical' = Logical
      BY <2>1 DEF Logical
    <2>4. Promise!Tell(c, "not_current", q.invocation, Null)
      BY <1>1, <2>1, AnswerTells, Zenon DEF Kinds
    <2> QED
      BY <1>2, <1>3, <2>2, <2>3, <2>4, Zenon DEF Promise!Refuse
  <1>6. CASE Answer(c, "error", Null, Null) /\ records' = records
    <2>1. Logical' = Logical
      BY <1>6 DEF Logical
    <2>2. Promise!Tell(c, "error", Null, Null)
      BY <1>6, AnswerTells, Zenon DEF Kinds
    <2> QED
      BY <1>2, <2>1, <2>2, Zenon DEF Promise!Leave
  <1> QED
    BY <1>4, <1>5, <1>6, Zenon DEF Complete

LEMMA FailedRequestLeaves ==
  ASSUME IInv, NEW c \in Calls, Abort(c) \/ Abandon(c)
  PROVE  Promise!Leave(c)
  <1>1. Logical' = Logical
    BY Zenon DEF Abort, Abandon, Logical
  <1>2. CASE Abort(c)
    BY <1>1, <1>2, Requests, AnswerTells, Zenon DEF Abort, Kinds, Promise!Leave
  <1>3. CASE Abandon(c)
    <2>1. calls[c].invocation \in InvocationIDs \union {Null}
      BY Zenon DEF IInv, TypeOK, Call
    <2> QED
      BY <1>1, <1>3, <2>1, Requests, AnswerTells, Zenon DEF Abandon, Kinds, Promise!Leave
  <1> QED
    BY <1>2, <1>3

(* Every step of the protocol is a step of the logical call, or none.      *)
LEMMA StepKeepsPromise ==
  IInv /\ [Next]_vars => [Promise!Next]_<<Logical, Told>>
  <1> SUFFICES ASSUME IInv, [Next]_vars PROVE [Promise!Next]_<<Logical, Told>>
    OBVIOUS
  <1>1. ASSUME NEW c \in Calls, NEW id \in InvocationIDs, Insert(c, id)
        PROVE  Promise!Next
    BY <1>1, InsertCreates, ConstantsAssumption, Zenon DEF Promise!Next
  <1>2. CASE Tick \/ UNCHANGED vars
    BY <1>2, Zenon DEF Tick, vars, Logical, Told
  <1> QED
    BY <1>1, <1>2, BeginAsks, RecoverTakesOver, ClassifyExistingRefers, CompleteFinishes,
       FailedRequestLeaves, Zenon
    DEF Next, Promise!Next

(* For any processes, requests, keys, leases, recovery bounds and clocks,  *)
(* the acquisition protocol implements the logical call: created once,     *)
(* passed on a bounded number of times, finished once by its owner, with   *)
(* answers that are true when they are given.                              *)
THEOREM Refinement == Spec => KeepsPromise
  <1>1. Init => Promise!Init
    BY DEF Init, Absent, Logical, LogicalOf, Told, ToldTo, Promise!Init, Promise!Unused
  <1> QED
    BY <1>1, StepKeepsPromise, Invariance, PTL DEF Spec, KeepsPromise, Promise!Spec

-----------------------------------------------------------------------------
(* The executions of connectors.                                           *)

(* narrowSet, unless it returns its error.                                 *)
LEMMA NarrowSetRestricts ==
  ASSUME NEW ceiling, NEW decision, SetNarrows(ceiling, decision)
  PROVE  SetRestricted(NarrowSet(ceiling, decision), ceiling, decision)
BY DEF SetNarrows, SetRestricted, NarrowSet

(* narrowInt64 and narrowDuration: zero is no bound.                       *)
LEMMA NarrowLimitRestricts ==
  ASSUME NEW ceiling \in Nat, NEW decision \in Nat
  PROVE  LimitRestricted(NarrowLimit(ceiling, decision), ceiling, decision)
BY DEF LimitRestricted, NarrowLimit

(* The maxima of arguments.                                                *)
LEMMA NarrowArgumentsRestricts ==
  ASSUME NEW names, NEW others,
         NEW ceiling \in [names -> Nat], NEW decision \in [others -> Nat],
         NEW a \in names
  PROVE  /\ NarrowArguments(ceiling, decision)[a] <= ceiling[a]
         /\ a \in others => NarrowArguments(ceiling, decision)[a] <= decision[a]
<1> DEFINE narrowed == NarrowArguments(ceiling, decision)
<1>1. narrowed[a] = IF a \in others /\ decision[a] < ceiling[a]
                      THEN decision[a] ELSE ceiling[a]
  BY DEF NarrowArguments
<1>2. ceiling[a] \in Nat /\ (a \in others => decision[a] \in Nat)
  OBVIOUS
<1> QED  BY <1>1, <1>2

(* What NarrowAuthorizationConstraints returns: every set that the         *)
(* envelope of the tool version restricts is a non-empty part of it and of *)
(* what the decision allows, no limit or argument is above either bound,   *)
(* and a set is left unrestricted exactly where the envelope leaves it so, *)
(* whatever the decision says of it.                                       *)
THEOREM NarrowingRestricts ==
  ASSUME NEW members, NEW names,
         NEW ceiling \in ConstraintsOver(members, names),
         NEW decision \in ConstraintsOver(members, names),
         Enforceable(ceiling, decision)
  PROVE  /\ Restricts(NarrowAuthorizationConstraints(ceiling, decision), ceiling, decision)
         /\ \A f \in SetFields :
              NarrowAuthorizationConstraints(ceiling, decision).sets[f] = {}
                <=> ceiling.sets[f] = {}
<1> DEFINE narrowed == NarrowAuthorizationConstraints(ceiling, decision)
<1>1. \A f \in SetFields :
        SetRestricted(narrowed.sets[f], ceiling.sets[f], decision.sets[f])
  <2> SUFFICES ASSUME NEW f \in SetFields
               PROVE  SetRestricted(narrowed.sets[f], ceiling.sets[f], decision.sets[f])
    OBVIOUS
  <2>1. SetNarrows(ceiling.sets[f], decision.sets[f])
    BY DEF Enforceable
  <2>2. narrowed.sets[f] = NarrowSet(ceiling.sets[f], decision.sets[f])
    BY DEF NarrowAuthorizationConstraints
  <2> QED  BY <2>1, <2>2, NarrowSetRestricts
<1>2. \A f \in LimitFields :
        LimitRestricted(narrowed.limits[f], ceiling.limits[f], decision.limits[f])
  <2> SUFFICES ASSUME NEW f \in LimitFields
               PROVE  LimitRestricted(narrowed.limits[f], ceiling.limits[f],
                                      decision.limits[f])
    OBVIOUS
  <2>1. ceiling.limits[f] \in Nat /\ decision.limits[f] \in Nat
    BY DEF ConstraintsOver
  <2>2. narrowed.limits[f] = NarrowLimit(ceiling.limits[f], decision.limits[f])
    BY DEF NarrowAuthorizationConstraints
  <2> QED  BY <2>1, <2>2, NarrowLimitRestricts
<1>3. ASSUME NEW a \in DOMAIN ceiling.arguments
      PROVE  /\ narrowed.arguments[a] <= ceiling.arguments[a]
             /\ a \in DOMAIN decision.arguments =>
                  narrowed.arguments[a] <= decision.arguments[a]
  <2>1. PICK some \in SUBSET names : ceiling.arguments \in [some -> Nat]
    BY DEF ConstraintsOver
  <2>2. PICK others \in SUBSET names : decision.arguments \in [others -> Nat]
    BY DEF ConstraintsOver
  <2>3. narrowed.arguments = NarrowArguments(ceiling.arguments, decision.arguments)
    BY DEF NarrowAuthorizationConstraints
  <2>4. a \in some /\ DOMAIN decision.arguments = others
    BY <1>3, <2>1, <2>2
  <2> QED  BY <2>1, <2>2, <2>3, <2>4, NarrowArgumentsRestricts
<1>4. \A f \in SetFields : narrowed.sets[f] = {} <=> ceiling.sets[f] = {}
  <2> SUFFICES ASSUME NEW f \in SetFields
               PROVE  narrowed.sets[f] = {} <=> ceiling.sets[f] = {}
    OBVIOUS
  <2>1. SetNarrows(ceiling.sets[f], decision.sets[f])
    BY DEF Enforceable
  <2>2. narrowed.sets[f] = NarrowSet(ceiling.sets[f], decision.sets[f])
    BY DEF NarrowAuthorizationConstraints
  <2> QED  BY <2>1, <2>2 DEF SetNarrows, NarrowSet
<1> QED  BY <1>1, <1>2, <1>3, <1>4 DEF Restricts

-----------------------------------------------------------------------------
(* The elements of a sequence.                                             *)
LEMMA SeqElement ==
  ASSUME NEW S, NEW g \in Seq(S), NEW i \in 1..Len(g)
  PROVE  g[i] \in S
  OBVIOUS

(* A sequence with one more element.                                       *)
LEMMA SeqAppend ==
  ASSUME NEW S, NEW g \in Seq(S), NEW e \in S
  PROVE  LET h == Append(g, e)
         IN  /\ h \in Seq(S) /\ Len(h) = Len(g) + 1 /\ h[Len(g) + 1] = e
             /\ \A i \in 1..Len(g) : h[i] = g[i]
             /\ \A i : i \in 1..Len(h) <=> i \in 1..Len(g) \/ i = Len(g) + 1
  OBVIOUS

(* A sequence in which one element is replaced.                            *)
LEMMA SeqExcept ==
  ASSUME NEW S, NEW g \in Seq(S), NEW n \in 1..Len(g), NEW e \in S
  PROVE  LET h == [g EXCEPT ![n] = e]
         IN  /\ h \in Seq(S) /\ Len(h) = Len(g)
             /\ \A i \in 1..Len(g) : h[i] = IF i = n THEN e ELSE g[i]
  OBVIOUS

(* The ways to give the members of P different numbers above m, up to n.   *)
Numbering(P, m, n) ==
  {f \in [P -> m + 1..n] : \A b, c \in P : f[b] = f[c] => b = c}

(* Fewer members need no more numbers.                                     *)
LEMMA NumberingShrinks ==
  ASSUME NEW P, NEW Q \in SUBSET P, NEW m \in Nat, NEW n \in Nat, NEW o \in Nat, n <= o,
         Numbering(P, m, n) # {}
  PROVE  Numbering(Q, m, o) # {}
  <1>1. PICK f \in [P -> m + 1..n] : \A b, c \in P : f[b] = f[c] => b = c
    BY DEF Numbering
  <1> DEFINE g == [q \in Q |-> f[q]]
  <1>2. g \in [Q -> m + 1..o] /\ \A b, c \in Q : g[b] = g[c] => b = c
    BY <1>1
  <1> HIDE DEF g
  <1> QED
    BY <1>2 DEF Numbering

(* A new member takes a new number.                                        *)
LEMMA NumberingGrows ==
  ASSUME NEW P, NEW m \in Nat, NEW n \in Nat, m <= n, NEW c, c \notin P,
         Numbering(P, m, n) # {}
  PROVE  Numbering(P \union {c}, m, n + 1) # {}
  <1>1. PICK f \in [P -> m + 1..n] : \A a, b \in P : f[a] = f[b] => a = b
    BY DEF Numbering
  <1> DEFINE g == [q \in P \union {c} |-> IF q = c THEN n + 1 ELSE f[q]]
  <1>2. g \in [P \union {c} -> m + 1..n + 1]
    BY <1>1
  <1>3. \A a, b \in P \union {c} : g[a] = g[b] => a = b
    BY <1>1
  <1> HIDE DEF g
  <1> QED
    BY <1>2, <1>3 DEF Numbering

(* A member that leaves takes the least number with it: whoever has it     *)
(* takes over the number that becomes free.                                *)
LEMMA NumberingSpends ==
  ASSUME NEW P, NEW m \in Nat, NEW n \in Nat, NEW c \in P, Numbering(P, m, n) # {}
  PROVE  m + 1 <= n /\ Numbering(P \ {c}, m + 1, n) # {}
  <1>1. PICK f \in [P -> m + 1..n] : \A a, b \in P : f[a] = f[b] => a = b
    BY DEF Numbering
  <1>2. f[c] \in m + 1..n
    BY <1>1
  <1> DEFINE g == [q \in P \ {c} |-> IF f[q] = m + 1 THEN f[c] ELSE f[q]]
  <1>3. g \in [P \ {c} -> m + 2..n]
    <2> SUFFICES ASSUME NEW q \in P \ {c} PROVE (IF f[q] = m + 1 THEN f[c] ELSE f[q]) \in m + 2..n
      OBVIOUS
    <2>1. f[q] \in m + 1..n /\ f[q] # f[c]
      BY <1>1
    <2> QED
      BY <1>2, <2>1
  <1>4. \A a, b \in P \ {c} : g[a] = g[b] => a = b
    BY <1>1
  <1>5. m + 1 + 1 = m + 2 /\ m + 1 <= n
    BY <1>2
  <1> HIDE DEF g
  <1> QED
    BY <1>3, <1>4, <1>5 DEF Numbering

-----------------------------------------------------------------------------
ToolTypeOK ==
  /\ work \in [Calls -> Work]
  /\ sends \in [Keys -> Seq(Execution)]

(* What a request records, and the steps at which it has done so.          *)
Pair(c) == [invocation |-> calls[c].invocation, decision |-> work[c].decision]

OnRecord == {"recorded", "leased", "executing"}

(* Requests of a call that own it and have not yet executed.               *)
Pending(k) ==
  {c \in Calls : /\ work[c].step \in {"owned", "decided", "recorded", "leased"}
                 /\ calls[c].key = k}

(* Requests that hold a recorded decision they have not yet spent.         *)
Reserved(c) == work[c].step \in {"recorded", "leased"}

(* What a running request knows: it holds the call, its decision is on     *)
(* record, enforceable before it has a credential, and unspent before the  *)
(* execution.                                                              *)
WorkInv(c) ==
  LET k == calls[c].key
      t == work[c]
  IN  /\ t.step # "none" =>
           calls[c].phase = "holding" /\ calls[c].invocation = records[k].invocation
      /\ t.step \in OnRecord => t.decision \in Allowed /\ Pair(c) \in decisions
      /\ t.step = "leased" => Enforceable(Ceiling, Constraints[t.decision])
      /\ t.step = "executing" => t.send \in 1..Len(sends[k])
      /\ c \in leased => t.step \in {"leased", "executing"}
      /\ Reserved(c) => \A n \in 1..Len(sends[k]) : sends[k][n].decision # t.decision

(* Two requests of a call never reserve the same decision.                 *)
Exclusive ==
  \A b, c \in Calls : b # c /\ Reserved(b) /\ Reserved(c) /\ calls[b].key = calls[c].key
    => work[b].decision # work[c].decision

(* What is known of an execution s of the call k, and of two of them.      *)
SentInv(k, s) ==
  /\ s.invocation = records[k].invocation
  /\ s.decision \in Allowed
  /\ [invocation |-> s.invocation, decision |-> s.decision] \in decisions
  /\ Restricts(s.constraints, Ceiling, Constraints[s.decision])

SendInv(k) ==
  /\ \A n \in 1..Len(sends[k]) : SentInv(k, sends[k][n])
  /\ \A m, n \in 1..Len(sends[k]) : m # n => sends[k][m].decision # sends[k][n].decision

(* Executions and the owners that may still execute never outnumber the    *)
(* ownerships handed out: each of these owners can be given an ownership   *)
(* of its own that no execution has used up.                               *)
Paid(k) ==
  /\ Len(sends[k]) <= Len(grants[k])
  /\ Numbering(Pending(k), Len(sends[k]), Len(grants[k])) # {}

(* The inductive invariant of the tool call, beside the acquisition's.     *)
ToolInv ==
  /\ IInv
  /\ ToolTypeOK
  /\ evidence = decisions
  /\ leased \subseteq Calls
  /\ \A c \in Calls : WorkInv(c)
  /\ Exclusive
  /\ \A k \in Keys : SendInv(k) /\ Paid(k)

-----------------------------------------------------------------------------
(* The first state satisfies the invariant.                                *)
LEMMA ToolInitInv == ToolInit => ToolInv
  <1> SUFFICES ASSUME ToolInit PROVE ToolInv
    OBVIOUS
  <1>1. IInv
    BY InitInv DEF ToolInit
  <1>2. ToolTypeOK
    BY DEF ToolInit, ToolTypeOK, Work, NoWork, Results
  <1>3. \A c \in Calls : work[c].step = "none" /\ c \notin leased
    BY DEF ToolInit, NoWork
  <1>4. \A c \in Calls : WorkInv(c)
    BY <1>3 DEF WorkInv, Reserved, OnRecord
  <1>5. Exclusive
    BY <1>3 DEF Exclusive, Reserved
  <1>6. ASSUME NEW k \in Keys PROVE SendInv(k) /\ Paid(k)
    <2>1. sends[k] = <<>> /\ grants[k] = <<>>
      BY DEF ToolInit, Init
    <2>2. Pending(k) = {}
      BY <1>3 DEF Pending
    <2>3. [c \in {} |-> 0] \in Numbering({}, 0, 0)
      BY DEF Numbering
    <2>4. Len(sends[k]) = 0 /\ Len(grants[k]) = 0
      BY <2>1
    <2> QED
      BY <2>2, <2>3, <2>4 DEF SendInv, Paid
  <1> QED
    BY <1>1, <1>2, <1>4, <1>5, <1>6 DEF ToolInv, ToolInit

(* A request that goes through a step as it was, and one that ends.        *)
Kept(b) ==
  /\ calls'[b] = calls[b]
  /\ work'[b] = work[b]
  /\ b \in leased' => b \in leased

Dropped(b) == work'[b].step = "none" /\ b \notin leased'

(* What steps keep of the tables and the histories: a row keeps its        *)
(* invocation, decisions are added with their evidence, ownerships are not *)
(* taken back, and an execution only gets its outcome.                     *)
InvocationsKept ==
  \A k \in Keys : records[k].state # "absent" =>
    records'[k].invocation = records[k].invocation

SendsKept ==
  \A k \in Keys :
    /\ Len(sends'[k]) = Len(sends[k])
    /\ \A n \in 1..Len(sends[k]) :
         /\ sends'[k][n].invocation = sends[k][n].invocation
         /\ sends'[k][n].decision = sends[k][n].decision
         /\ sends'[k][n].constraints = sends[k][n].constraints

TablesGrow ==
  /\ InvocationsKept
  /\ decisions \subseteq decisions'
  /\ evidence' = decisions'
  /\ \A k \in Keys : Len(grants'[k]) \in Nat /\ Len(grants[k]) <= Len(grants'[k])

(* The parts of a request that works on a call.                            *)
LEMMA Working ==
  ASSUME ToolInv, NEW c \in Calls, work[c].step # "none"
  PROVE  /\ calls[c].key \in Keys
         /\ calls[c].phase = "holding"
         /\ records[calls[c].key].state # "absent"
         /\ calls[c].invocation = records[calls[c].key].invocation
         /\ calls[c].invocation \in InvocationIDs
  <1>1. calls[c].phase = "holding" /\ calls[c].invocation = records[calls[c].key].invocation
    BY DEF ToolInv, WorkInv
  <1>2. calls[c].key \in Keys /\ records[calls[c].key].state # "absent"
    BY <1>1, Zenon DEF ToolInv, IInv, CallInv
  <1>3. records[calls[c].key] \in Record
    BY <1>2 DEF ToolInv, IInv, TypeOK
  <1>4. records[calls[c].key].invocation \in InvocationIDs
    BY <1>2, <1>3, RowColumns, Zenon
  <1> QED
    BY <1>1, <1>2, <1>4

(* Lengths are numbers.                                                    *)
LEMMA Lengths ==
  ASSUME ToolInv, NEW k \in Keys
  PROVE  /\ Len(sends[k]) \in Nat /\ Len(grants[k]) \in Nat
         /\ sends[k] \in Seq(Execution)
  <1>1. sends[k] \in Seq(Execution) /\ grants[k] \in Seq(Grant)
    BY DEF ToolInv, ToolTypeOK, IInv, TypeOK
  <1> QED
    BY <1>1

(* A request that a step keeps or ends keeps its part of the invariant.    *)
LEMMA SettledWork ==
  ASSUME ToolInv, TablesGrow, SendsKept, NEW b \in Calls, Kept(b) \/ Dropped(b)
  PROVE  WorkInv(b)'
  <1>1. CASE Dropped(b)
    BY <1>1 DEF Dropped, WorkInv, Reserved, OnRecord
  <1>2. CASE Kept(b) /\ work[b].step # "none"
    <2>1. calls[b].key \in Keys /\ records[calls[b].key].state # "absent"
      BY <1>2, Working
    <2>2. /\ calls'[b] = calls[b] /\ work'[b] = work[b] /\ (b \in leased' => b \in leased)
          /\ records'[calls[b].key].invocation = records[calls[b].key].invocation
          /\ Len(sends'[calls[b].key]) = Len(sends[calls[b].key])
          /\ \A n \in 1..Len(sends[calls[b].key]) :
               sends'[calls[b].key][n].decision = sends[calls[b].key][n].decision
          /\ decisions \subseteq decisions'
      BY <1>2, <2>1, Zenon DEF Kept, TablesGrow, InvocationsKept, SendsKept
    <2>3. WorkInv(b)
      BY DEF ToolInv
    <2> QED
      BY <2>2, <2>3, Zenon DEF WorkInv, Reserved, OnRecord, Pair
  <1>3. CASE Kept(b) /\ work[b].step = "none"
    BY <1>3, Zenon DEF ToolInv, WorkInv, Reserved, OnRecord, Kept
  <1> QED
    BY <1>1, <1>2, <1>3

(* Executions that are on record stay authorized.                          *)
LEMMA SettledSends ==
  ASSUME ToolInv, TablesGrow, SendsKept, NEW k \in Keys
  PROVE  SendInv(k)'
  <1>1. CASE records[k].state = "absent"
    <2>1. grants[k] = <<>>
      BY <1>1, Zenon DEF ToolInv, IInv, KeyInv, History
    <2>2. Len(sends[k]) = 0
      BY <2>1, Lengths DEF ToolInv, Paid
    <2> QED
      BY <2>2 DEF SendsKept, SendInv
  <1>2. CASE records[k].state # "absent"
    <2>1. /\ Len(sends'[k]) = Len(sends[k])
          /\ \A n \in 1..Len(sends[k]) :
               /\ sends'[k][n].invocation = sends[k][n].invocation
               /\ sends'[k][n].decision = sends[k][n].decision
               /\ sends'[k][n].constraints = sends[k][n].constraints
          /\ records'[k].invocation = records[k].invocation
          /\ decisions \subseteq decisions'
      BY <1>2, Zenon DEF SendsKept, TablesGrow, InvocationsKept
    <2>2. SendInv(k)
      BY DEF ToolInv
    <2>3. \A n \in 1..Len(sends'[k]) : SentInv(k, sends[k][n])'
      BY <2>1, <2>2, Zenon DEF SendInv, SentInv
    <2> QED
      BY <2>1, <2>2, <2>3 DEF SendInv
  <1> QED
    BY <1>1, <1>2

(* A step in which requests only end keeps the balance of the ownerships.  *)
LEMMA PendingShrinks ==
  ASSUME ToolInv, TablesGrow, NEW k \in Keys, Len(sends'[k]) = Len(sends[k]),
         Pending(k)' \subseteq Pending(k)
  PROVE  Paid(k)'
  <1>1. /\ Len(sends[k]) <= Len(grants[k])
        /\ Numbering(Pending(k), Len(sends[k]), Len(grants[k])) # {}
    BY DEF ToolInv, Paid
  <1>2. Len(grants'[k]) \in Nat /\ Len(grants[k]) <= Len(grants'[k])
    BY DEF TablesGrow
  <1>3. Len(sends[k]) \in Nat /\ Len(grants[k]) \in Nat
    BY Lengths
  <1>4. Numbering(Pending(k)', Len(sends[k]), Len(grants'[k])) # {}
    BY <1>1, <1>2, <1>3, NumberingShrinks
  <1>5. Len(sends[k]) <= Len(grants'[k])
    BY <1>1, <1>2, <1>3
  <1> QED
    BY <1>4, <1>5 DEF Paid

(* A step in which every request goes on as it was, or ends.               *)
LEMMA QuietStep ==
  ASSUME ToolInv, IInv', ToolTypeOK', TablesGrow, SendsKept, leased' \subseteq Calls,
         \A b \in Calls : Kept(b) \/ Dropped(b)
  PROVE  ToolInv'
  <1>1. \A c \in Calls : WorkInv(c)'
    BY SettledWork
  <1>2. Exclusive'
    BY DEF ToolInv, Exclusive, Reserved, Kept, Dropped
  <1>3. ASSUME NEW k \in Keys PROVE SendInv(k)' /\ Paid(k)'
    <2>1. Pending(k)' \subseteq Pending(k)
      BY DEF Pending, Kept, Dropped
    <2> QED
      BY <2>1, SettledSends, PendingShrinks, Zenon DEF SendsKept
  <1> QED
    BY <1>1, <1>2, <1>3 DEF ToolInv, TablesGrow

(* The tables do not change.                                               *)
LEMMA SameTables ==
  ASSUME ToolInv, UNCHANGED <<records, grants, sends>>,
         decisions \subseteq decisions', evidence' = decisions'
  PROVE  TablesGrow /\ SendsKept
  <1>1. \A k \in Keys : Len(grants[k]) \in Nat
    BY Lengths
  <1> QED
    BY <1>1 DEF TablesGrow, SendsKept, InvocationsKept

(* The results of Create.                                                  *)
LEMMA DoneType ==
  ASSUME NEW result \in Results
  PROVE  /\ [NoWork EXCEPT !.result = result] \in Work
         /\ [NoWork EXCEPT !.result = result].step = "none"
  BY DEF NoWork, Work

(* A request that is refused before it asks for the call.                  *)
LEMMA RefuseInv ==
  ASSUME ToolInv, NEW c \in Calls, Refuse(c)
  PROVE  ToolInv'
  <1> DEFINE done == [NoWork EXCEPT !.result = "invalid"]
  <1>1. /\ calls[c].phase = "idle"
        /\ work' = [work EXCEPT ![c] = done]
        /\ UNCHANGED <<vars, decisions, evidence, leased, sends>>
    BY DEF Refuse
  <1>2. done \in Work /\ done.step = "none"
    BY DoneType DEF Results
  <1> HIDE DEF done
  <1>3. IInv'
    BY <1>1, NextInv DEF ToolInv
  <1>4. ToolTypeOK'
    BY <1>1, <1>2 DEF ToolInv, ToolTypeOK
  <1>5. \A b \in Calls : Kept(b) \/ Dropped(b)
    <2>1. work[c].step = "none" /\ c \notin leased
      BY <1>1, Zenon DEF ToolInv, WorkInv
    <2> QED
      BY <1>1, <1>2, <2>1 DEF Kept, Dropped, ToolInv, ToolTypeOK, vars
  <1>6. TablesGrow /\ SendsKept /\ leased' \subseteq Calls
    BY <1>1, SameTables, Zenon DEF vars, ToolInv
  <1> QED
    BY <1>3, <1>4, <1>5, <1>6, QuietStep

(* A request starts to acquire a call.                                     *)
LEMMA StartInv ==
  ASSUME ToolInv, NEW c \in Calls, NEW k \in Keys, NEW d \in Digests, Start(c, k, d)
  PROVE  ToolInv'
  <1>1. /\ Begin(c, k, d)
        /\ work' = [work EXCEPT ![c] = NoWork]
        /\ UNCHANGED <<decisions, evidence, leased, sends>>
    BY DEF Start
  <1>2. /\ calls[c].phase = "idle"
        /\ \A b \in Calls : b # c => calls'[b] = calls[b]
        /\ UNCHANGED <<records, grants>>
    BY <1>1, Zenon DEF Begin, ToolInv, IInv, TypeOK
  <1>3. IInv'
    BY <1>1, BeginInv DEF ToolInv
  <1>4. NoWork \in Work /\ NoWork.step = "none"
    BY DEF NoWork, Work, Results
  <1>5. ToolTypeOK'
    BY <1>1, <1>4 DEF ToolInv, ToolTypeOK
  <1>6. \A b \in Calls : Kept(b) \/ Dropped(b)
    <2>1. c \notin leased
      BY <1>2, Zenon DEF ToolInv, WorkInv
    <2> QED
      BY <1>1, <1>2, <1>4, <2>1, Zenon DEF Kept, Dropped, ToolInv, ToolTypeOK
  <1>7. TablesGrow /\ SendsKept /\ leased' \subseteq Calls
    BY <1>1, <1>2, SameTables DEF ToolInv
  <1> QED
    BY <1>3, <1>5, <1>6, <1>7, QuietStep

(* Create returns, with whatever result.                                   *)
LEMMA ReturnInv ==
  ASSUME ToolInv, NEW c \in Calls, NEW result \in Results, Abandon(c),
         work' = [work EXCEPT ![c] = [NoWork EXCEPT !.result = result]],
         leased' = leased \ {c}, SendsKept, sends' \in [Keys -> Seq(Execution)],
         decisions \subseteq decisions', evidence' = decisions'
  PROVE  ToolInv'
  <1> DEFINE done == [NoWork EXCEPT !.result = result]
  <1>1. done \in Work /\ done.step = "none" /\ work' = [work EXCEPT ![c] = done]
    BY DoneType
  <1> HIDE DEF done
  <1>2. IInv'
    BY AbandonInv DEF ToolInv
  <1>3. ToolTypeOK'
    BY <1>1, Zenon DEF ToolInv, ToolTypeOK
  <1>4. /\ \A b \in Calls : b # c => calls'[b] = calls[b]
        /\ UNCHANGED <<records, grants>>
    BY DEF Abandon, Answer, ToolInv, IInv, TypeOK
  <1>5. \A b \in Calls : Kept(b) \/ Dropped(b)
    BY <1>1, <1>4, Zenon DEF Kept, Dropped, ToolInv, ToolTypeOK
  <1>6. TablesGrow
    BY <1>4, Lengths DEF TablesGrow, InvocationsKept
  <1>7. leased' \subseteq Calls
    BY DEF ToolInv
  <1> QED
    BY <1>2, <1>3, <1>5, <1>6, <1>7, QuietStep

(* Create returns and no execution changes.                                *)
LEMMA ReturnedInv ==
  ASSUME ToolInv, NEW c \in Calls, NEW result \in Results, Return(c, result), UNCHANGED sends
  PROVE  ToolInv'
  BY ReturnInv, Zenon DEF Return, SendsKept, ToolInv, ToolTypeOK

(* What an acquisition leaves: the other requests as they were, rows with  *)
(* their invocations, and either a request that does not own the call or   *)
(* one more ownership of it.                                               *)
Owns(c) ==
  LET k == calls[c].key
  IN  /\ calls'[c].kind \in {"owned", "recovered"}
      /\ calls'[c].phase = "holding"
      /\ calls'[c].invocation = records'[k].invocation
      /\ Len(grants'[k]) = Len(grants[k]) + 1

AcquiredBy(c) ==
  /\ InvocationsKept
  /\ \A k \in Keys : Len(grants'[k]) \in Nat /\ Len(grants[k]) <= Len(grants'[k])
  /\ \A b \in Calls : b # c => calls'[b] = calls[b]
  /\ calls'[c].key = calls[c].key
  /\ calls'[c].kind \in Kinds
  /\ calls'[c].kind \notin {"owned", "recovered"} \/ Owns(c)

(* A grant appended to the history of a call.                              *)
LEMMA GrantGrows ==
  ASSUME ToolInv, NEW c \in Calls, NEW id, calls[c].key \in Keys, GrantTo(c, id)
  PROVE  /\ Len(grants'[calls[c].key]) = Len(grants[calls[c].key]) + 1
         /\ \A k \in Keys : Len(grants'[k]) \in Nat /\ Len(grants[k]) <= Len(grants'[k])
  <1> DEFINE k == calls[c].key
  <1>1. PICK e : grants' = [grants EXCEPT ![k] = Append(@, e)]
    BY Zenon DEF GrantTo
  <1>2. grants \in [Keys -> Seq(Grant)]
    BY DEF ToolInv, IInv, TypeOK
  <1>3. grants[k] \in Seq(Grant) /\ grants'[k] = Append(grants[k], e)
    BY <1>1, <1>2, Zenon
  <1>4. Len(grants'[k]) = Len(grants[k]) + 1
    BY <1>3
  <1>5. ASSUME NEW j \in Keys PROVE Len(grants'[j]) \in Nat /\ Len(grants[j]) <= Len(grants'[j])
    <2>1. Len(grants[j]) \in Nat
      BY Lengths
    <2>2. CASE j = k
      BY <1>4, <2>1, <2>2
    <2>3. CASE j # k
      BY <1>1, <1>2, <2>1, <2>3
    <2> QED
      BY <2>2, <2>3
  <1> QED
    BY <1>4, <1>5

LEMMA InsertAcquires ==
  ASSUME ToolInv, NEW c \in Calls, NEW id \in InvocationIDs, Insert(c, id)
  PROVE  AcquiredBy(c)
  <1> DEFINE k == calls[c].key
             p == ProcessOf[c]
             row == Claim(calls[c].digest, p, calls[c].now + Lease[p], 0, MaxRecoveries[p], id)
  <1>1. k \in Keys
    BY Acquiring, Zenon DEF Insert, ToolInv
  <1>2. records' = [records EXCEPT ![k] = row] /\ row.invocation = id
    BY Zenon DEF Insert, Claim
  <1> HIDE DEF row
  <1>3. records[k].state = "absent" /\ GrantTo(c, id) /\ Commit(c, "owned", id)
    BY Zenon DEF Insert
  <1>4. records'[k].invocation = id /\ \A j \in Keys : j # k => records'[j] = records[j]
    BY <1>1, <1>2 DEF ToolInv, IInv, TypeOK
  <1>5. InvocationsKept
    BY <1>3, <1>4, Zenon DEF InvocationsKept
  <1>6. /\ \A b \in Calls : b # c => calls'[b] = calls[b]
        /\ calls'[c].key = calls[c].key
        /\ \/ /\ calls'[c].kind = "owned" /\ calls'[c].phase = "holding"
              /\ calls'[c].invocation = id
           \/ calls'[c].kind = "error"
    BY <1>3, CommitCalls, Zenon DEF ToolInv
  <1> QED
    BY <1>1, <1>3, <1>4, <1>5, <1>6, GrantGrows, Zenon DEF AcquiredBy, Owns, Kinds

LEMMA RecoverAcquires ==
  ASSUME ToolInv, NEW c \in Calls, Recover(c)
  PROVE  AcquiredBy(c)
  <1> DEFINE k == calls[c].key
             id == records[k].invocation
             p == ProcessOf[c]
             row == Claim(records[k].digest, p, calls[c].now + Lease[p],
                          records[k].recoveries + 1, records[k].max, id)
  <1>1. k \in Keys /\ records[k] \in Record
    BY Acquiring, Zenon DEF Recover, ToolInv
  <1>2. records' = [records EXCEPT ![k] = row] /\ row.invocation = id
    BY Zenon DEF Recover, Claim
  <1> HIDE DEF row
  <1>3. records[k].state = "claimed" /\ GrantTo(c, id) /\ Commit(c, "recovered", id)
    BY Zenon DEF Recover, Recoverable
  <1>4. id \in InvocationIDs
    <2> PICK r : r = records[k]
      OBVIOUS
    <2>1. r.state = "claimed" /\ r \in Record
      BY <1>1, <1>3, Zenon
    <2>2. r.invocation \in InvocationIDs
      BY <2>1, RowColumns, Zenon
    <2> QED
      BY <2>2, Zenon
  <1>5. records'[k].invocation = id /\ \A j \in Keys : j # k => records'[j] = records[j]
    BY <1>1, <1>2, Zenon DEF ToolInv, IInv, TypeOK
  <1>6. InvocationsKept
    BY <1>5, Zenon DEF InvocationsKept
  <1> HIDE DEF id
  <1>7. /\ \A b \in Calls : b # c => calls'[b] = calls[b]
        /\ calls'[c].key = calls[c].key
        /\ \/ /\ calls'[c].kind = "recovered" /\ calls'[c].phase = "holding"
              /\ calls'[c].invocation = id
           \/ calls'[c].kind = "error"
    BY <1>3, <1>4, CommitCalls, Zenon DEF ToolInv
  <1> QED
    BY <1>1, <1>3, <1>5, <1>6, <1>7, GrantGrows, Zenon DEF AcquiredBy, Owns, Kinds

(* Classifications and errors hand out nothing.                            *)
LEMMA RefusalAcquires ==
  ASSUME ToolInv, NEW c \in Calls, ClassifyExisting(c) \/ Abort(c)
  PROVE  AcquiredBy(c)
  <1>1. UNCHANGED <<records, grants>>
    BY Zenon DEF ClassifyExisting, Abort
  <1>2. PICK kind \in Kinds \ {"owned", "recovered"} : \E id, v : Answer(c, kind, id, v)
    BY Zenon DEF ClassifyExisting, Abort, Classification, Kinds
  <1>3. PICK id, v : Answer(c, kind, id, v)
    BY <1>2
  <1>4. /\ \A b \in Calls : b # c => calls'[b] = calls[b]
        /\ calls'[c].key = calls[c].key
        /\ calls'[c].kind = kind
    <2>1. calls \in [Calls -> Call] /\ calls[c] \in Call
      BY DEF ToolInv, IInv, TypeOK
    <2> QED
      BY <1>3, <2>1 DEF Answer, Call
  <1>5. InvocationsKept
    BY <1>1, Zenon DEF InvocationsKept
  <1>6. \A k \in Keys : Len(grants'[k]) \in Nat /\ Len(grants[k]) <= Len(grants'[k])
    BY <1>1, Lengths
  <1>7. calls'[c].kind \in Kinds /\ calls'[c].kind \notin {"owned", "recovered"}
    BY <1>2, <1>4, Zenon
  <1> QED
    BY <1>4, <1>5, <1>6, <1>7, Zenon DEF AcquiredBy

(* An acquisition: the request goes on exactly when it owns the call.      *)
LEMMA AcquireInv ==
  ASSUME ToolInv, NEW c \in Calls, Acquire(c)
  PROVE  ToolInv'
  <1> DEFINE k == calls[c].key
             t == Acquired(calls'[c].kind)
  <1>1. /\ \/ \E id \in InvocationIDs : Insert(c, id)
           \/ Recover(c)
           \/ ClassifyExisting(c)
           \/ Abort(c)
        /\ work' = [work EXCEPT ![c] = t]
        /\ UNCHANGED <<decisions, evidence, leased, sends>>
    BY DEF Acquire
  <1>2. IInv'
    BY <1>1, InsertInv, RecoverInv, ClassifyExistingInv, AbortInv DEF ToolInv
  <1>3. AcquiredBy(c)
    BY <1>1, InsertAcquires, RecoverAcquires, RefusalAcquires
  <1>4. calls[c].phase = "acquiring" /\ k \in Keys
    <2>1. calls[c].phase = "acquiring"
      BY <1>1, Zenon DEF Insert, Recover, ClassifyExisting, Abort
    <2> QED
      BY <2>1, Acquiring, Zenon DEF ToolInv
  <1>5. work[c].step = "none" /\ c \notin leased
    BY <1>4, Zenon DEF ToolInv, WorkInv
  <1>6. /\ t \in Work
        /\ t.step = IF calls'[c].kind \in {"owned", "recovered"} THEN "owned" ELSE "none"
    BY <1>3 DEF AcquiredBy, Acquired, NoWork, Work, Results
  <1> HIDE DEF t
  <1>7. /\ work'[c] = t /\ \A b \in Calls : b # c => work'[b] = work[b]
        /\ ToolTypeOK'
    BY <1>1, <1>6, Zenon DEF ToolInv, ToolTypeOK
  <1>8. TablesGrow /\ SendsKept /\ leased' \subseteq Calls
    BY <1>1, <1>3, Zenon DEF TablesGrow, SendsKept, AcquiredBy, ToolInv
  <1>9. \A b \in Calls : b # c => Kept(b)
    BY <1>1, <1>3, <1>7, Zenon DEF Kept, AcquiredBy
  <1>10. CASE calls'[c].kind \notin {"owned", "recovered"}
    <2>1. Dropped(c)
      BY <1>1, <1>5, <1>6, <1>7, <1>10, Zenon DEF Dropped
    <2> QED
      BY <1>2, <1>7, <1>8, <1>9, <2>1, QuietStep, Zenon
  <1>11. CASE calls'[c].kind \in {"owned", "recovered"}
    <2>1. Owns(c) /\ t.step = "owned" /\ calls'[c].key = k
      BY <1>3, <1>6, <1>11, Zenon DEF AcquiredBy
    <2>2. WorkInv(c)'
      BY <1>1, <1>5, <1>7, <2>1, Zenon DEF WorkInv, Owns, Reserved, OnRecord
    <2>3. \A b \in Calls : WorkInv(b)'
      BY <1>8, <1>9, <2>2, SettledWork
    <2>4. Exclusive'
      <3>1. ~Reserved(c)'
        BY <1>7, <2>1, Zenon DEF Reserved
      <3> SUFFICES ASSUME NEW a \in Calls, NEW b \in Calls, a # b, Reserved(a)',
                          Reserved(b)', calls'[a].key = calls'[b].key
                   PROVE  work'[a].decision # work'[b].decision
        BY Zenon DEF Exclusive
      <3>2. a # c /\ b # c
        BY <3>1, Zenon
      <3> QED
        BY <1>9, <3>2, Zenon DEF ToolInv, Exclusive, Reserved, Kept
    <2>5. ASSUME NEW j \in Keys PROVE Paid(j)'
      <3>1. CASE j # k
        <4>1. Pending(j)' \subseteq Pending(j)
          BY <1>9, <2>1, <3>1, Zenon DEF Pending, Kept
        <4> QED
          BY <1>8, <4>1, PendingShrinks, Zenon DEF SendsKept
      <3>2. CASE j = k
        <4>1. Pending(j)' = Pending(j) \union {c} /\ c \notin Pending(j)
          BY <1>5, <1>7, <1>9, <2>1, <3>2, Zenon DEF Pending, Kept
        <4>2. /\ Len(sends[j]) <= Len(grants[j])
              /\ Numbering(Pending(j), Len(sends[j]), Len(grants[j])) # {}
          BY DEF ToolInv, Paid
        <4>3. Len(sends[j]) \in Nat /\ Len(grants[j]) \in Nat
          BY Lengths
        <4>4. Numbering(Pending(j)', Len(sends[j]), Len(grants[j]) + 1) # {}
          BY <4>1, <4>2, <4>3, NumberingGrows, Zenon
        <4>5. Len(grants'[j]) = Len(grants[j]) + 1 /\ Len(sends'[j]) = Len(sends[j])
          BY <1>8, <2>1, <3>2, Zenon DEF Owns, SendsKept
        <4>6. Len(sends[j]) <= Len(grants[j]) + 1
          BY <4>2, <4>3
        <4> QED
          BY <4>4, <4>5, <4>6 DEF Paid
      <3> QED
        BY <3>1, <3>2
    <2> QED
      BY <1>2, <1>7, <1>8, <2>3, <2>4, <2>5, SettledSends, Zenon DEF ToolInv, TablesGrow
  <1> QED
    BY <1>10, <1>11

(* A request that goes on with the same call: the others are kept, and so  *)
(* are the tables.  It remains to look at this request.                    *)
LEMMA OneStep ==
  ASSUME ToolInv, NEW c \in Calls, UNCHANGED <<vars, sends>>,
         decisions \subseteq decisions', evidence' = decisions',
         leased' \subseteq leased \union {c},
         NEW t \in Work, work' = [work EXCEPT ![c] = t],
         work[c].step \in {"owned", "decided", "recorded"}, t.step # "none",
         WorkInv(c)',
         Reserved(c)' => \A b \in Calls : b # c /\ Reserved(b) /\ calls[b].key = calls[c].key
                                          => work[b].decision # t.decision
  PROVE  ToolInv'
  <1>1. IInv'
    BY NextInv DEF ToolInv
  <1>2. /\ ToolTypeOK'
        /\ work'[c] = t /\ \A b \in Calls : b # c => work'[b] = work[b]
    BY Zenon DEF ToolInv, ToolTypeOK
  <1>3. calls' = calls /\ TablesGrow /\ SendsKept
    BY SameTables, Zenon DEF vars
  <1>4. \A b \in Calls : b # c => Kept(b)
    BY <1>2, <1>3, Zenon DEF Kept
  <1>5. \A b \in Calls : WorkInv(b)'
    BY <1>3, <1>4, SettledWork, Zenon
  <1>6. Exclusive'
    <2> SUFFICES ASSUME NEW a \in Calls, NEW b \in Calls, a # b, Reserved(a)', Reserved(b)',
                        calls'[a].key = calls'[b].key
                 PROVE  work'[a].decision # work'[b].decision
      BY Zenon DEF Exclusive
    <2>1. CASE a # c /\ b # c
      BY <1>2, <1>3, <2>1 DEF ToolInv, Exclusive, Reserved
    <2>2. CASE a = c
      BY <1>2, <1>3, <2>2, Zenon DEF Reserved
    <2>3. CASE b = c
      BY <1>2, <1>3, <2>3, Zenon DEF Reserved
    <2> QED
      BY <2>1, <2>2, <2>3, Zenon
  <1>7. ASSUME NEW k \in Keys PROVE SendInv(k)' /\ Paid(k)'
    <2>1. Pending(k)' \subseteq Pending(k)
      BY <1>2, <1>3, <1>4, Zenon DEF Pending, Kept
    <2> QED
      BY <1>3, <2>1, SettledSends, PendingShrinks, Zenon DEF SendsKept
  <1> QED
    BY <1>1, <1>2, <1>3, <1>5, <1>6, <1>7, Zenon DEF ToolInv, TablesGrow

(* The authorizer answers, and the answer is held against the request.     *)
LEMMA AuthorizeInv ==
  ASSUME ToolInv, NEW c \in Calls, Authorize(c)
  PROVE  ToolInv'
  <1>1. CASE Return(c, "unavailable") \/ Return(c, "denied")
    BY <1>1, ReturnedInv DEF Authorize, Results
  <1>2. ASSUME NEW a \in Decisions,
               work' = [work EXCEPT ![c] = [step |-> "decided", decision |-> a,
                                            send |-> 0, result |-> "none"]],
               UNCHANGED <<vars, decisions, evidence, leased>>
        PROVE  ToolInv'
    <2> DEFINE t == [step |-> "decided", decision |-> a, send |-> 0, result |-> "none"]
    <2>1. t \in Work /\ t.step = "decided" /\ work' = [work EXCEPT ![c] = t]
      BY <1>2, Zenon DEF Work, Results
    <2> HIDE DEF t
    <2>2. work[c].step = "owned" /\ UNCHANGED sends
      BY DEF Authorize
    <2>3. work'[c] = t
      BY <2>1 DEF ToolInv, ToolTypeOK
    <2>4. c \notin leased /\ calls[c].phase = "holding"
          /\ calls[c].invocation = records[calls[c].key].invocation
      BY <2>2, Zenon DEF ToolInv, WorkInv
    <2>5. WorkInv(c)' /\ ~Reserved(c)'
      BY <1>2, <2>1, <2>3, <2>4, Zenon DEF WorkInv, Reserved, OnRecord, vars
    <2> QED
      BY <1>2, <2>1, <2>2, <2>5, OneStep, Zenon DEF ToolInv
  <1> QED
    BY <1>1, <1>2 DEF Authorize

(* A decision goes on record with its evidence; only an allow that was not *)
(* on record before goes on.                                               *)
LEMMA RecordAuthorizationInv ==
  ASSUME ToolInv, NEW c \in Calls, RecordAuthorization(c)
  PROVE  ToolInv'
  <1> DEFINE a == work[c].decision
             pair == Pair(c)
             t == [work[c] EXCEPT !.step = "recorded"]
  <1>1. work[c].step = "decided" /\ UNCHANGED <<leased, sends>>
    BY DEF RecordAuthorization
  <1>2. c \notin leased
    BY <1>1, Zenon DEF ToolInv, WorkInv
  <1>3. CASE /\ Recordable(pair) /\ Proceeds(a) /\ To(c, "recorded") /\ UNCHANGED vars
             /\ decisions' = decisions \union {pair} /\ evidence' = evidence \union {pair}
    <2>1. work[c] \in Work
      BY DEF ToolInv, ToolTypeOK
    <2>2. /\ t \in Work /\ t.step = "recorded" /\ t.decision = a
          /\ work' = [work EXCEPT ![c] = t] /\ work'[c] = t
      BY <1>3, <2>1, Zenon DEF To, Work, ToolInv, ToolTypeOK
    <2> HIDE DEF t
    <2>3. /\ calls[c].key \in Keys
          /\ calls[c].phase = "holding"
          /\ calls[c].invocation = records[calls[c].key].invocation
      BY <1>1, Working, Zenon
    <2>4. pair \notin decisions /\ a \in Allowed
      BY <1>3 DEF Recordable, Proceeds
    <2>5. ASSUME NEW n \in 1..Len(sends[calls[c].key])
          PROVE  sends[calls[c].key][n].decision # a
      <3>1. /\ sends[calls[c].key][n].invocation = calls[c].invocation
            /\ [invocation |-> sends[calls[c].key][n].invocation,
                decision |-> sends[calls[c].key][n].decision] \in decisions
        BY <2>3, Zenon DEF ToolInv, SendInv, SentInv
      <3> QED
        BY <2>4, <3>1, Zenon DEF Pair
    <2>6. calls' = calls /\ records' = records
      BY <1>3 DEF vars
    <2>7. WorkInv(c)'
      <3>1. Pair(c)' = pair
        BY <2>2, <2>6, Zenon DEF Pair
      <3> QED
        BY <1>1, <1>2, <1>3, <2>2, <2>3, <2>4, <2>5, <2>6, <3>1, Zenon
        DEF WorkInv, Reserved, OnRecord
    <2>8. ASSUME NEW b \in Calls, b # c, Reserved(b), calls[b].key = calls[c].key
          PROVE  work[b].decision # a
      <3>1. Pair(b) \in decisions /\ calls[b].invocation = calls[c].invocation
        BY <2>3, <2>8, Zenon DEF ToolInv, WorkInv, Reserved, OnRecord
      <3> QED
        BY <2>4, <3>1, Zenon DEF Pair
    <2>9. decisions \subseteq decisions' /\ evidence' = decisions' /\ leased' \subseteq leased \union {c}
      BY <1>1, <1>3, Zenon DEF ToolInv
    <2>10. \A b \in Calls : b # c /\ Reserved(b) /\ calls[b].key = calls[c].key
                              => work[b].decision # t.decision
      BY <2>2, <2>8
    <2>11. UNCHANGED <<vars, sends>>
      BY <1>1, <1>3, Zenon
    <2> HIDE DEF a, pair
    <2> QED
      BY <1>1, <2>2, <2>7, <2>9, <2>10, <2>11, OneStep, Zenon
  <1>4. ASSUME NEW result \in {"denied", "unavailable"}, Abandon(c),
               work' = [work EXCEPT ![c] = [NoWork EXCEPT !.result = result]],
               \/ decisions' = decisions \union {pair} /\ evidence' = evidence \union {pair}
               \/ UNCHANGED <<decisions, evidence>>
        PROVE  ToolInv'
    <2>1. result \in Results
      BY DEF Results
    <2>2. decisions \subseteq decisions' /\ evidence' = decisions'
      BY <1>4 DEF ToolInv
    <2>3. /\ leased' = leased \ {c} /\ SendsKept
          /\ sends' \in [Keys -> Seq(Execution)]
      BY <1>1, <1>2 DEF SendsKept, ToolInv, ToolTypeOK
    <2> HIDE DEF pair
    <2> QED
      BY <1>4, <2>1, <2>2, <2>3, ReturnInv, Zenon
  <1> QED
    BY <1>3, <1>4 DEF RecordAuthorization, Pair

(* A credential is leased under enforceable constraints only.              *)
LEMMA ResolveInv ==
  ASSUME ToolInv, NEW c \in Calls, Resolve(c)
  PROVE  ToolInv'
  <1> DEFINE t == [work[c] EXCEPT !.step = "leased"]
  <1>1. work[c].step = "recorded" /\ UNCHANGED sends
    BY Zenon DEF Resolve
  <1>2. CASE Return(c, "credential_unavailable") \/ Return(c, "internal") \/ Return(c, "denied")
    BY <1>1, <1>2, ReturnedInv, Zenon DEF Results
  <1>3. CASE /\ Enforceable(Ceiling, Constraints[work[c].decision])
             /\ To(c, "leased") /\ leased' = leased \union {c}
             /\ UNCHANGED <<vars, decisions, evidence>>
    <2>1. work[c] \in Work
      BY DEF ToolInv, ToolTypeOK
    <2>2. /\ t \in Work /\ t.step = "leased" /\ t.decision = work[c].decision
          /\ work' = [work EXCEPT ![c] = t] /\ work'[c] = t
      BY <1>3, <2>1, Zenon DEF To, Work, ToolInv, ToolTypeOK
    <2> HIDE DEF t
    <2>3. WorkInv(c) /\ calls' = calls /\ records' = records
      BY <1>3, Zenon DEF ToolInv, vars
    <2>4. WorkInv(c)'
      <3>1. /\ Pair(c)' = Pair(c) /\ calls' = calls /\ records' = records
            /\ sends' = sends /\ decisions' = decisions
        BY <1>1, <1>3, <2>2, <2>3, Zenon DEF Pair
      <3> QED
        BY <1>1, <1>3, <2>2, <2>3, <3>1, Zenon DEF WorkInv, Reserved, OnRecord
    <2>5. \A b \in Calls : b # c /\ Reserved(b) /\ calls[b].key = calls[c].key
                             => work[b].decision # t.decision
      BY <1>1, <2>2, Zenon DEF ToolInv, Exclusive, Reserved
    <2> QED
      BY <1>1, <1>3, <2>2, <2>4, <2>5, OneStep, Zenon DEF ToolInv
  <1> QED
    BY <1>2, <1>3, Zenon DEF Resolve

(* What the connector is handed is well typed.                             *)
LEMMA NarrowedType ==
  ASSUME NEW members, NEW names,
         NEW ceiling \in ConstraintsOver(members, names),
         NEW decision \in ConstraintsOver(members, names)
  PROVE  NarrowAuthorizationConstraints(ceiling, decision) \in ConstraintsOver(members, names)
  <1> DEFINE sets == [f \in SetFields |-> NarrowSet(ceiling.sets[f], decision.sets[f])]
             limits == [f \in LimitFields |-> NarrowLimit(ceiling.limits[f], decision.limits[f])]
             arguments == NarrowArguments(ceiling.arguments, decision.arguments)
  <1>1. /\ ceiling.sets \in [SetFields -> SUBSET members]
        /\ ceiling.limits \in [LimitFields -> Nat]
        /\ decision.sets \in [SetFields -> SUBSET members]
        /\ decision.limits \in [LimitFields -> Nat]
    BY Zenon DEF ConstraintsOver
  <1>2. sets \in [SetFields -> SUBSET members]
    BY <1>1, Zenon DEF NarrowSet
  <1>3. limits \in [LimitFields -> Nat]
    BY <1>1, Zenon DEF NarrowLimit
  <1>4. arguments \in UNION {[some -> Nat] : some \in SUBSET names}
    <2>1. PICK some \in SUBSET names : ceiling.arguments \in [some -> Nat]
      BY Zenon DEF ConstraintsOver
    <2>2. PICK others \in SUBSET names : decision.arguments \in [others -> Nat]
      BY Zenon DEF ConstraintsOver
    <2>3. arguments \in [some -> Nat]
      BY <2>1, <2>2, Zenon DEF NarrowArguments
    <2> QED
      BY <2>3, Zenon
  <1>5. NarrowAuthorizationConstraints(ceiling, decision)
          = [sets |-> sets, arguments |-> arguments, limits |-> limits]
    BY Zenon DEF NarrowAuthorizationConstraints
  <1> HIDE DEF sets, limits, arguments
  <1> QED
    BY <1>2, <1>3, <1>4, <1>5 DEF ConstraintsOver

(* The connector is executed: an ownership turns into an execution under   *)
(* the request's own decision.                                             *)
LEMMA ExecuteInv ==
  ASSUME ToolInv, NEW c \in Calls, Execute(c)
  PROVE  ToolInv'
  <1> PICK k : k = calls[c].key
    OBVIOUS
  <1> PICK d : d = work[c].decision
    OBVIOUS
  <1> DEFINE n == Len(sends[k]) + 1
             e == [invocation |-> calls[c].invocation, decision |-> d,
                   constraints |-> NarrowAuthorizationConstraints(Ceiling, Constraints[d]),
                   blind |-> \E i \in 1..Len(sends[k]) : sends[k][i].outcome = "unknown",
                   outcome |-> "pending"]
             t == [step |-> "executing", decision |-> d, send |-> n, result |-> "none"]
  <1>1. /\ work[c].step = "leased"
        /\ sends' = [sends EXCEPT ![k] = Append(@, e)]
        /\ work' = [work EXCEPT ![c] = t]
        /\ UNCHANGED <<vars, decisions, evidence, leased>>
    BY Zenon DEF Execute
  <1>2. /\ k \in Keys /\ calls[c].phase = "holding"
        /\ calls[c].invocation = records[k].invocation
        /\ calls[c].invocation \in InvocationIDs
    BY <1>1, Working, Zenon
  <1>3. /\ d \in Allowed /\ Pair(c) \in decisions
        /\ Enforceable(Ceiling, Constraints[d])
        /\ \A i \in 1..Len(sends[k]) : sends[k][i].decision # d
    BY <1>1, Zenon DEF ToolInv, WorkInv, Reserved, OnRecord
  <1>4. d \in Decisions /\ Constraints[d] \in ConstraintsOver(Members, Arguments)
    BY <1>3, DecisionsAssumption, Zenon
  <1> DEFINE v == NarrowAuthorizationConstraints(Ceiling, Constraints[d])
  <1>5. v \in ConstraintsOver(Members, Arguments) /\ Restricts(v, Ceiling, Constraints[d])
    BY <1>3, <1>4, DecisionsAssumption, NarrowedType, NarrowingRestricts, Zenon
  <1>6. e \in Execution /\ e.invocation = calls[c].invocation /\ e.decision = d /\ e.constraints = v
    <2> PICK w \in BOOLEAN : w = (\E i \in 1..Len(sends[k]) : sends[k][i].outcome = "unknown")
      BY Zenon
    <2>1. e = [invocation |-> calls[c].invocation, decision |-> d, constraints |-> v,
               blind |-> w, outcome |-> "pending"]
      BY Zenon
    <2> HIDE DEF e, v
    <2> QED
      BY <1>2, <1>4, <1>5, <2>1, Zenon DEF Execution
  <1> HIDE DEF e, v
  <1>7. Len(sends[k]) \in Nat /\ n \in Nat /\ sends[k] \in Seq(Execution)
    BY <1>2, Lengths
  <1>8. /\ sends'[k] \in Seq(Execution) /\ Len(sends'[k]) = n /\ sends'[k][n] = e
        /\ \A i \in 1..Len(sends[k]) : sends'[k][i] = sends[k][i]
        /\ \A i : i \in 1..Len(sends'[k]) <=> i \in 1..Len(sends[k]) \/ i = n
        /\ \A j \in Keys : j # k => sends'[j] = sends[j]
        /\ sends' \in [Keys -> Seq(Execution)]
    <2>1. sends \in [Keys -> Seq(Execution)]
      BY DEF ToolInv, ToolTypeOK
    <2>2. sends'[k] = Append(sends[k], e) /\ \A j \in Keys : j # k => sends'[j] = sends[j]
      BY <1>1, <1>2, <2>1, Zenon
    <2>3. LET h == Append(sends[k], e)
          IN  /\ h \in Seq(Execution) /\ Len(h) = Len(sends[k]) + 1
              /\ h[Len(sends[k]) + 1] = e
              /\ \A i \in 1..Len(sends[k]) : h[i] = sends[k][i]
              /\ \A i : i \in 1..Len(h) <=> i \in 1..Len(sends[k]) \/ i = Len(sends[k]) + 1
      <3> PICK g : g = sends[k]
        OBVIOUS
      <3>1. g \in Seq(Execution) /\ e \in Execution
        BY <1>6, <1>7, Zenon
      <3> QED
        BY <3>1, SeqAppend
    <2>4. sends' \in [Keys -> Seq(Execution)]
      BY <1>1, <1>2, <2>1, <2>3, Zenon
    <2> QED
      BY <2>2, <2>3, <2>4, Zenon
  <1>9. t \in Work /\ t.step = "executing" /\ t.decision = d /\ t.send = n
    BY <1>4, <1>7, Zenon DEF Work, Results
  <1> HIDE DEF t
  <1>10. /\ ToolTypeOK' /\ work'[c] = t /\ \A b \in Calls : b # c => work'[b] = work[b]
    BY <1>1, <1>8, <1>9, Zenon DEF ToolInv, ToolTypeOK
  <1>11. IInv' /\ calls' = calls /\ records' = records /\ grants' = grants
    BY <1>1, NextInv, Zenon DEF ToolInv, vars
  <1>12. ASSUME NEW b \in Calls PROVE WorkInv(b)'
    <2>1. CASE b = c
      <3>1. Pair(c)' = Pair(c)
        BY <1>9, <1>10, <1>11, Zenon DEF Pair
      <3>2. n \in 1..Len(sends'[k])
        BY <1>8, Zenon
      <3> QED
        BY <1>1, <1>2, <1>3, <1>9, <1>10, <1>11, <2>1, <3>1, <3>2, Zenon DEF WorkInv, Reserved, OnRecord
    <2>2. CASE b # c /\ calls[b].key # k /\ work[b].step # "none"
      <3>1. sends'[calls[b].key] = sends[calls[b].key]
        BY <1>8, <2>2, Working, Zenon
      <3>2. WorkInv(b) /\ work'[b] = work[b] /\ calls'[b] = calls[b] /\ Pair(b)' = Pair(b)
        BY <1>10, <1>11, <2>2, Zenon DEF ToolInv, Pair
      <3>3. records' = records /\ decisions' = decisions /\ leased' = leased
        BY <1>1, <1>11, Zenon
      <3> QED
        BY <3>1, <3>2, <3>3, Zenon DEF WorkInv, Reserved, OnRecord
    <2>4. CASE b # c /\ work[b].step = "none"
      <3>1. work'[b].step = "none" /\ b \notin leased'
        BY <1>1, <1>10, <2>4, Zenon DEF ToolInv, WorkInv
      <3> QED
        BY <3>1, Zenon DEF WorkInv, Reserved, OnRecord
    <2>3. CASE b # c /\ calls[b].key = k /\ work[b].step # "none"
      <3>1. WorkInv(b) /\ work'[b] = work[b] /\ calls'[b] = calls[b] /\ Pair(b)' = Pair(b)
        BY <1>10, <1>11, <2>3, Zenon DEF ToolInv, Pair
      <3>2. Reserved(b) => work[b].decision # d
        BY <1>1, <2>3, Zenon DEF ToolInv, Exclusive, Reserved
      <3>3. Reserved(b) => \A i \in 1..Len(sends'[k]) : sends'[k][i].decision # work[b].decision
        <4> SUFFICES ASSUME Reserved(b), NEW i \in 1..Len(sends'[k])
                     PROVE  sends'[k][i].decision # work[b].decision
          BY Zenon
        <4>1. CASE i = n
          BY <1>6, <1>8, <3>2, <4>1, Zenon
        <4>2. CASE i \in 1..Len(sends[k])
          BY <1>8, <2>3, <3>1, <4>2, Zenon DEF WorkInv
        <4>3. i = n \/ i \in 1..Len(sends[k])
          BY <1>8, Zenon
        <4> QED
          BY <4>1, <4>2, <4>3, Zenon
      <3>4. 1..Len(sends[k]) \subseteq 1..Len(sends'[k])
        BY <1>8, Zenon
      <3> QED
        BY <1>1, <1>11, <2>3, <3>1, <3>3, <3>4, Zenon DEF WorkInv, Reserved, OnRecord
    <2> QED
      BY <2>1, <2>2, <2>3, <2>4, Zenon
  <1>13. Exclusive'
    <2>1. ~Reserved(c)'
      BY <1>9, <1>10, Zenon DEF Reserved
    <2> SUFFICES ASSUME NEW a \in Calls, NEW b \in Calls, a # b, Reserved(a)', Reserved(b)',
                        calls'[a].key = calls'[b].key
                 PROVE  work'[a].decision # work'[b].decision
      BY Zenon DEF Exclusive
    <2>2. a # c /\ b # c
      BY <2>1, Zenon
    <2> QED
      BY <1>10, <1>11, <2>2, Zenon DEF ToolInv, Exclusive, Reserved
  <1>14. ASSUME NEW j \in Keys PROVE SendInv(j)'
    <2>0. SendInv(j)
      BY Zenon DEF ToolInv
    <2>1. CASE j # k
      <3>1. sends'[j] = sends[j] /\ records' = records /\ decisions' = decisions
        BY <1>1, <1>8, <1>11, <2>1, Zenon
      <3> QED
        BY <2>0, <3>1, Zenon DEF SendInv, SentInv
    <2>2. CASE j = k
      <3>1. /\ \A i \in 1..Len(sends'[j]) : i = n \/ i \in 1..Len(sends[j])
            /\ \A i \in 1..Len(sends[j]) : sends'[j][i] = sends[j][i]
            /\ sends'[j][n] = e
        BY <1>8, <2>2, Zenon
      <3>2. SentInv(j, e)
        BY <1>2, <1>3, <1>5, <1>6, <2>2, Zenon DEF SentInv, Pair
      <3>3. \A i \in 1..Len(sends'[j]) : SentInv(j, sends'[j][i])
        BY <2>0, <3>1, <3>2, Zenon DEF SendInv
      <3>4. ASSUME NEW i \in 1..Len(sends'[j]) PROVE SentInv(j, sends[j][i])'
        BY <1>1, <1>11, <3>3, Zenon DEF SentInv
      <3>5. \A i \in 1..Len(sends[j]) : sends[j][i].decision # e.decision
        BY <1>3, <1>6, <2>2, Zenon
      <3> HIDE DEF n
      <3>6. ASSUME NEW l \in 1..Len(sends'[j]), NEW m \in 1..Len(sends'[j]), l # m
            PROVE  sends'[j][l].decision # sends'[j][m].decision
        <4>1. CASE l = n
          BY <3>1, <3>5, <3>6, <4>1, Zenon
        <4>2. CASE m = n
          BY <3>1, <3>5, <3>6, <4>2, Zenon
        <4>3. CASE l \in 1..Len(sends[j]) /\ m \in 1..Len(sends[j])
          BY <2>0, <3>1, <3>6, <4>3, Zenon DEF SendInv
        <4> QED
          BY <3>1, <4>1, <4>2, <4>3, Zenon
      <3> QED
        BY <3>4, <3>6, Zenon DEF SendInv
    <2> QED
      BY <2>1, <2>2, Zenon
  <1>15. ASSUME NEW j \in Keys PROVE Paid(j)'
    <2>1. /\ Len(sends[j]) <= Len(grants[j])
          /\ Numbering(Pending(j), Len(sends[j]), Len(grants[j])) # {}
      BY Zenon DEF ToolInv, Paid
    <2>2. Len(sends[j]) \in Nat /\ Len(grants[j]) \in Nat
      BY Lengths, Zenon
    <2>3. CASE j # k
      <3>1. Pending(j)' = Pending(j)
        BY <1>10, <1>11, <2>3, Zenon DEF Pending
      <3> QED
        BY <1>8, <1>11, <2>1, <2>3, <3>1, Zenon DEF Paid
    <2>4. CASE j = k
      <3>1. Pending(j)' = Pending(j) \ {c} /\ c \in Pending(j)
        BY <1>1, <1>9, <1>10, <1>11, <2>4, Zenon DEF Pending
      <3>2. /\ Len(sends[j]) + 1 <= Len(grants[j])
            /\ Numbering(Pending(j)', Len(sends[j]) + 1, Len(grants[j])) # {}
        BY <2>1, <2>2, <3>1, NumberingSpends, Zenon
      <3>3. Len(sends'[j]) = Len(sends[j]) + 1 /\ grants' = grants
        BY <1>8, <1>11, <2>4, Zenon
      <3> QED
        BY <3>2, <3>3, Zenon DEF Paid
    <2> QED
      BY <2>3, <2>4
  <1> QED
    BY <1>1, <1>10, <1>11, <1>12, <1>13, <1>14, <1>15, Zenon DEF ToolInv

(* An execution that gets its outcome keeps everything else.               *)
LEMMA EndedType ==
  ASSUME NEW s \in Execution, NEW outcome \in Outcomes \union {"lost"}
  PROVE  /\ Ended(s, outcome) \in Execution
         /\ Ended(s, outcome).invocation = s.invocation
         /\ Ended(s, outcome).decision = s.decision
         /\ Ended(s, outcome).constraints = s.constraints
  BY Zenon DEF Ended, Execution

(* The connector returns and Create answers.                               *)
LEMMA FinishInv ==
  ASSUME ToolInv, NEW c \in Calls, NEW outcome \in Outcomes, Finish(c, outcome)
  PROVE  ToolInv'
  <1> PICK k : k = calls[c].key
    OBVIOUS
  <1> PICK n : n = work[c].send
    OBVIOUS
  <1> DEFINE e == Ended(sends[k][n], outcome)
  <1>1. /\ work[c].step = "executing"
        /\ sends' = [sends EXCEPT ![k] = [sends[k] EXCEPT ![n] = e]]
        /\ Return(c, ConnectorState(outcome))
    BY Zenon DEF Finish
  <1>2. k \in Keys /\ n \in 1..Len(sends[k]) /\ sends[k] \in Seq(Execution)
    BY <1>1, Working, Lengths, Zenon DEF ToolInv, WorkInv
  <1>3. sends[k][n] \in Execution
    BY <1>2, SeqElement, Zenon
  <1>4. /\ e \in Execution /\ e.invocation = sends[k][n].invocation
        /\ e.decision = sends[k][n].decision /\ e.constraints = sends[k][n].constraints
    BY <1>3, EndedType, Zenon
  <1> HIDE DEF e
  <1>5. /\ sends'[k] = [sends[k] EXCEPT ![n] = e]
        /\ \A j \in Keys : j # k => sends'[j] = sends[j]
    BY <1>1, <1>2, Zenon DEF ToolInv, ToolTypeOK
  <1>6. /\ sends'[k] \in Seq(Execution) /\ Len(sends'[k]) = Len(sends[k])
        /\ \A i \in 1..Len(sends[k]) : sends'[k][i] = IF i = n THEN e ELSE sends[k][i]
    <2>1. sends'[k] = [sends[k] EXCEPT ![n] = e]
      BY <1>5, Zenon
    <2>2. LET h == [sends[k] EXCEPT ![n] = e]
          IN  /\ h \in Seq(Execution) /\ Len(h) = Len(sends[k])
              /\ \A i \in 1..Len(sends[k]) : h[i] = IF i = n THEN e ELSE sends[k][i]
      <3> PICK g : g = sends[k]
        BY Zenon
      <3>1. g \in Seq(Execution) /\ n \in 1..Len(g) /\ e \in Execution
        BY <1>2, <1>4, Zenon
      <3> QED
        BY <3>1, SeqExcept
    <2> QED
      BY <2>1, <2>2, Zenon
  <1>7. sends' \in [Keys -> Seq(Execution)]
    BY <1>1, <1>5, <1>6, Zenon DEF ToolInv, ToolTypeOK
  <1>8. SendsKept
    <2> SUFFICES ASSUME NEW j \in Keys
                 PROVE  /\ Len(sends'[j]) = Len(sends[j])
                        /\ \A i \in 1..Len(sends[j]) :
                             /\ sends'[j][i].invocation = sends[j][i].invocation
                             /\ sends'[j][i].decision = sends[j][i].decision
                             /\ sends'[j][i].constraints = sends[j][i].constraints
      BY Zenon DEF SendsKept
    <2>1. CASE j # k
      BY <1>5, <2>1, Zenon
    <2>2. CASE j = k
      BY <1>4, <1>6, <2>2, Zenon
    <2> QED
      BY <2>1, <2>2, Zenon
  <1>9. ConnectorState(outcome) \in Results
    BY DEF Outcomes, ConnectorState, Results
  <1>10. PICK result \in Results : result = ConnectorState(outcome)
    BY <1>9, Zenon
  <1>11. Return(c, result)
    BY <1>1, <1>10, Zenon
  <1> QED
    BY <1>7, <1>8, <1>11, ReturnInv, Zenon DEF Return, ToolInv

(* A process that dies takes its requests with it and leaves the tables.   *)
LEMMA CrashedCalls ==
  ASSUME ToolInv, NEW p \in Processes, Crash(p)
  PROVE  IInv'
  <1>1. /\ calls' = [c \in Calls |-> IF ProcessOf[c] = p
                                       THEN [calls[c] EXCEPT !.phase = "idle", !.kind = "none"]
                                       ELSE calls[c]]
        /\ UNCHANGED <<records, invocations, clock, grants, writer>>
    BY Zenon DEF Crash
  <1>2. IInv
    BY DEF ToolInv
  <1>3. ASSUME NEW c \in Calls
        PROVE  /\ calls'[c] \in Call
               /\ \/ calls'[c] = calls[c]
                  \/ calls'[c].phase = "idle" /\ calls'[c].kind = "none"
    <2>1. calls[c] \in Call
      BY <1>2 DEF IInv, TypeOK
    <2> QED
      BY <1>1, <2>1, Zenon DEF Call, Kinds
  <1>4. calls' \in [Calls -> Call]
    BY <1>1, <1>3, Zenon
  <1>5. TypeOK'
    BY <1>1, <1>2, <1>4, Zenon DEF IInv, TypeOK
  <1>6. ASSUME NEW c \in Calls PROVE CallInv(c)'
    <2>1. CASE calls'[c] = calls[c]
      BY <1>1, <1>2, <2>1, TablesKept, OtherCall, Zenon
    <2>2. CASE calls'[c].phase = "idle" /\ calls'[c].kind = "none"
      BY <2>2, Zenon DEF CallInv
    <2> QED
      BY <1>3, <2>1, <2>2, Zenon
  <1> QED
    BY <1>1, <1>2, <1>5, <1>6, TablesKept, Zenon DEF IInv

LEMMA CrashInv ==
  ASSUME ToolInv, NEW p \in Processes, Crash(p)
  PROVE  ToolInv'
  <1> DEFINE mine == {c \in Calls : ProcessOf[c] = p}
             Lost(k, n) == \E c \in mine : /\ work[c].step = "executing"
                                            /\ calls[c].key = k
                                            /\ work[c].send = n
  <1>1. /\ calls' = [c \in Calls |-> IF c \in mine
                                       THEN [calls[c] EXCEPT !.phase = "idle", !.kind = "none"]
                                       ELSE calls[c]]
        /\ work' = [c \in Calls |-> IF c \in mine THEN NoWork ELSE work[c]]
        /\ leased' = leased \ mine
        /\ sends' = [k \in Keys |-> [n \in 1..Len(sends[k]) |->
                       IF Lost(k, n) THEN Ended(sends[k][n], "lost") ELSE sends[k][n]]]
        /\ UNCHANGED <<records, grants, decisions, evidence>>
    BY Zenon DEF Crash
  <1>2. NoWork \in Work /\ NoWork.step = "none"
    BY DEF NoWork, Work, Results
  <1> HIDE DEF Lost
  <1>3. ASSUME NEW k \in Keys
        PROVE  /\ sends'[k] \in Seq(Execution)
               /\ Len(sends'[k]) = Len(sends[k])
               /\ \A n \in 1..Len(sends[k]) :
                    /\ sends'[k][n].invocation = sends[k][n].invocation
                    /\ sends'[k][n].decision = sends[k][n].decision
                    /\ sends'[k][n].constraints = sends[k][n].constraints
    <2> DEFINE f(n) == IF Lost(k, n) THEN Ended(sends[k][n], "lost") ELSE sends[k][n]
    <2>1. sends[k] \in Seq(Execution) /\ Len(sends[k]) \in Nat
      BY Lengths
    <2>2. ASSUME NEW n \in 1..Len(sends[k])
          PROVE  /\ f(n) \in Execution
                 /\ f(n).invocation = sends[k][n].invocation
                 /\ f(n).decision = sends[k][n].decision
                 /\ f(n).constraints = sends[k][n].constraints
      <3>1. sends[k][n] \in Execution
        BY <2>1
      <3> QED
        BY <3>1, EndedType, Zenon
    <2>3. sends'[k] = [n \in 1..Len(sends[k]) |-> f(n)]
      BY <1>1, Zenon
    <2> HIDE DEF f
    <2>4. sends'[k] \in Seq(Execution) /\ Len(sends'[k]) = Len(sends[k])
      <3>1. PICK m \in Nat : m = Len(sends[k])
        BY <2>1, Zenon
      <3>2. sends'[k] = [n \in 1..m |-> f(n)] /\ \A n \in 1..m : f(n) \in Execution
        BY <2>2, <2>3, <3>1, Zenon
      <3> QED
        BY <3>1, <3>2
    <2>5. \A n \in 1..Len(sends[k]) : sends'[k][n] = f(n)
      BY <2>3, Zenon
    <2> QED
      BY <2>2, <2>4, <2>5, Zenon
  <1>4. ToolTypeOK'
    <2>1. work' \in [Calls -> Work]
      BY <1>1, <1>2, Zenon DEF ToolInv, ToolTypeOK
    <2>2. sends' \in [Keys -> Seq(Execution)]
      BY <1>1, <1>3, Zenon
    <2> QED
      BY <2>1, <2>2 DEF ToolTypeOK
  <1>5. SendsKept
    BY <1>3, Zenon DEF SendsKept
  <1>6. TablesGrow
    <2>1. UNCHANGED <<records, grants, decisions, evidence>>
      BY <1>1, Zenon
    <2>2. \A k \in Keys : Len(grants[k]) \in Nat
      BY Lengths
    <2> QED
      BY <2>1, <2>2 DEF TablesGrow, InvocationsKept, ToolInv
  <1>7. \A b \in Calls : Kept(b) \/ Dropped(b)
    BY <1>1, <1>2, Zenon DEF Kept, Dropped
  <1>8. leased' \subseteq Calls
    BY <1>1, Zenon DEF ToolInv
  <1> QED
    BY <1>4, <1>5, <1>6, <1>7, <1>8, CrashedCalls, QuietStep

(* Every step of a tool call keeps the invariant.                          *)
LEMMA ToolNextInv == ToolInv /\ [ToolNext]_allVars => ToolInv'
  <1> SUFFICES ASSUME ToolInv, [ToolNext]_allVars PROVE ToolInv'
    OBVIOUS
  <1>1. CASE ToolNext /\ ~Pass
    BY <1>1, RefuseInv, StartInv, AcquireInv, AuthorizeInv, RecordAuthorizationInv,
       ResolveInv, ExecuteInv, FinishInv, CrashInv, Zenon DEF ToolNext
  <1>2. CASE Pass \/ UNCHANGED allVars
    <2>1. UNCHANGED <<records, calls, grants, toolVars>>
      BY <1>2, Zenon DEF Pass, Tick, allVars, vars
    <2>2. IInv'
      BY <1>2, TickInv, NextInv DEF Pass, allVars, ToolInv
    <2>3. ToolTypeOK' /\ leased' \subseteq Calls /\ \A b \in Calls : Kept(b)
      BY <2>1, Zenon DEF toolVars, ToolInv, ToolTypeOK, Kept
    <2>4. TablesGrow /\ SendsKept
      BY <2>1, SameTables DEF toolVars, ToolInv
    <2> QED
      BY <2>2, <2>3, <2>4, QuietStep
  <1> QED
    BY <1>1, <1>2

(* The tool call keeps its invariant, and with it the acquisition's.       *)
THEOREM ToolInvariance == ToolSpec => []ToolInv
  BY ToolInitInv, ToolNextInv, PTL DEF ToolSpec

(* Every execution is of the durable invocation of its call and under an   *)
(* allow that was recorded for it, with evidence, before the send          *)
(* (Create).                                                               *)
THEOREM EverySendIsAuthorized == ToolSpec => []SendsAreAuthorized
  <1>1. ToolInv => SendsAreAuthorized
    BY Zenon DEF ToolInv, SendInv, SentInv, SendsAreAuthorized
  <1> QED
    BY <1>1, ToolInvariance, PTL

(* Two executions of a call are under different recorded decisions.        *)
THEOREM NoDecisionIsSpentTwice == ToolSpec => []DecisionsAreSpentOnce
  <1>1. ToolInv => DecisionsAreSpentOnce
    BY Zenon DEF ToolInv, SendInv, DecisionsAreSpentOnce
  <1> QED
    BY <1>1, ToolInvariance, PTL

(* A call is executed at most once per ownership of it.                    *)
THEOREM SendsAreBounded == ToolSpec => []BoundedSends
  <1>1. ToolInv => BoundedSends
    BY DEF ToolInv, Paid, BoundedSends
  <1> QED
    BY <1>1, ToolInvariance, PTL

(* What the bound means for the provider: the connector is executed at     *)
(* most 1 + max_recoveries times for one tool_call_id, with the bound of   *)
(* the process that created the call.                                      *)
THEOREM ExecutionsAreBounded ==
  ToolSpec => [](\A k \in Keys : sends[k] # <<>> =>
                   Len(sends[k]) <= 1 + MaxRecoveries[grants[k][1].owner])
  <1> DEFINE Bounded == \A k \in Keys : sends[k] # <<>> =>
                          Len(sends[k]) <= 1 + MaxRecoveries[grants[k][1].owner]
  <1>1. ToolInv => Bounded
    <2> SUFFICES ASSUME ToolInv, NEW k \in Keys, sends[k] # <<>>
                 PROVE  Len(sends[k]) <= 1 + MaxRecoveries[grants[k][1].owner]
      BY Zenon
    <2>1. /\ Len(sends[k]) \in Nat /\ Len(grants[k]) \in Nat
          /\ sends[k] \in Seq(Execution)
      BY Lengths, Zenon
    <2>2. Len(sends[k]) <= Len(grants[k])
      BY Zenon DEF ToolInv, Paid
    <2>3. Len(sends[k]) # 0
      BY <2>1
    <2>4. 1 <= Len(grants[k])
      BY <2>1, <2>2, <2>3
    <2>5. records[k].state # "absent"
      BY <2>1, <2>4, Granted DEF ToolInv
    <2>6. /\ Len(grants[k]) = records[k].recoveries + 1
          /\ records[k].recoveries <= records[k].max
          /\ records[k].max = MaxRecoveries[grants[k][1].owner]
      BY <2>5, Zenon DEF ToolInv, IInv, KeyInv, History
    <2>7. records[k].recoveries \in Nat /\ records[k].max \in Int
      BY RowNumbers, Zenon DEF ToolInv
    <2> QED
      BY <2>1, <2>2, <2>6, <2>7
  <1> QED
    BY <1>1, ToolInvariance, PTL

(* A credential lease is held only by a running request that has an allow  *)
(* on record.                                                              *)
THEOREM NoLeaseLeaks == ToolSpec => []NoLeakedLease
  <1>1. ToolInv => NoLeakedLease
    BY Zenon DEF ToolInv, WorkInv, OnRecord, Pair, NoLeakedLease
  <1> QED
    BY <1>1, ToolInvariance, PTL

(* With any decisions and any envelope that Create builds, an execution    *)
(* runs under actions, and under resources if there are any, that are a    *)
(* non-empty part of the envelope and of its decision, and under limits    *)
(* that are positive and above neither.                                    *)
THEOREM ConstraintsAlwaysNarrow == ToolSpec => []ConstraintsOnlyNarrow
  <1>1. ASSUME NEW s, NEW d, Restricts(s, Ceiling, d)
        PROVE  s.sets["actions"] # {} /\ \A f \in LimitFields : s.limits[f] > 0
    <2>1. s.sets["actions"] # {}
      BY <1>1, CeilingAssumption, Zenon DEF Restricts, SetRestricted, CreateCeiling, SetFields
    <2>2. ASSUME NEW f \in LimitFields PROVE s.limits[f] > 0
      <3>1. s.limits[f] \in 1..Ceiling.limits[f]
        BY <1>1, CeilingAssumption, Zenon DEF Restricts, LimitRestricted, CreateCeiling
      <3>2. Ceiling.limits[f] \in Nat
        BY DecisionsAssumption, Zenon DEF ConstraintsOver
      <3> QED
        BY <3>1, <3>2
    <2> QED
      BY <2>1, <2>2
  <1>2. ToolInv => ConstraintsOnlyNarrow
    BY <1>1, Zenon DEF ToolInv, SendInv, SentInv, ConstraintsOnlyNarrow
  <1> QED
    BY <1>2, ToolInvariance, PTL
=============================================================================
