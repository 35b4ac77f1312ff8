------------------------- MODULE TransactionsProof -------------------------
(***************************************************************************)
(* Proof that transactions implement the atomic queries, for every load,   *)
(* every number of connections and every interleaving of statements.       *)
(***************************************************************************)
EXTENDS Transactions, FiniteSetTheorems, TLAPS

\* t has executed the statement what, about row i.
Did(t, what, i) ==
  /\ InTransaction(t)
  /\ \E k \in 1..done[t] : Statements(query[t])[k] = <<what, i>>

Whats == {"insert_workflow", "references", "insert_event", "update", "for_update",
          "select_exists", "skip_locked"}

\* Locks exclude each other as they should.
Exclusion ==
  \A t, u \in Connections, i \in Ids : t # u => Compatible(held[t][i], held[u][i])

\* What a statement leaves held until the transaction ends.
LocksHeld ==
  \A t \in Connections, i \in Ids :
    /\ Did(t, "insert_event", i) => held[t][i] >= KeyShare
    /\ Did(t, "update", i) => held[t][i] >= NoKeyUpdate
    /\ \A what \in {"insert_workflow", "for_update", "skip_locked"} :
         Did(t, what, i) => held[t][i] = Update

\* What a transaction has written, and that it is based on the newest versions.
Drafted ==
  \A t \in Connections, i \in Ids :
    /\ draft[t][i] = IF Did(t, "update", i) \/ Did(t, "insert_workflow", i)
                     THEN Written(query[t], i, Version(i)) ELSE None
    /\ inserted[t][i] = IF Did(t, "insert_event", i) THEN <<EventOf(query[t], i)>> ELSE <<>>

\* What a transaction has read still holds.
ReadsHold ==
  \A t \in Connections, i \in Ids :
    /\ Did(t, "select_exists", i) => ~SignalReceived(i, query[t].key)
    /\ Did(t, "skip_locked", i) => Eligible(i)
    /\ Did(t, "insert_workflow", i) => status[i] = "absent"

Progress == \A t \in Connections : InTransaction(t) => done[t] <= Len(Statements(query[t]))

Inv == TypeOK /\ Exclusion /\ LocksHeld /\ Drafted /\ ReadsHold /\ Progress

-----------------------------------------------------------------------------
(***************************************************************************)
(* Statements.                                                             *)
(***************************************************************************)
LEMMA SameRecords == A!EventRecord = EventRecord
BY DEF A!EventRecord, EventRecord, A!EventType, EventType, A!Keys, Keys, A!Values, Values

LEMMA LoadTyped ==
  ASSUME NEW q \in Load
  PROVE  /\ q \in A!Query /\ q.id \in Ids /\ q.kin \in Ids \cup {None} /\ q.kin # q.id
         /\ q.name \in A!QueryNames /\ q.n \in Nat /\ q.slot \in Slots \cup {None}
         /\ q.name = "create_child_workflow" => q.kin \in Ids
         /\ q.name \in {"write_event", "write_signal_and_wake_workflow"} => q.event \in EventRecord
BY TransactionsAssumption, SameRecords DEF A!WellFormed, A!Query

\* No statement occurs twice; an UPDATE and a look-up come after the lock they rely on.
LEMMA StatementsShape ==
  ASSUME NEW q \in Load
  PROVE  /\ Len(Statements(q)) \in 1..4
         /\ \A k \in 1..Len(Statements(q)) : Statements(q)[k] \in Whats \X Ids
         /\ \A k, m \in 1..Len(Statements(q)) : Statements(q)[k] = Statements(q)[m] => k = m
         /\ \A k \in 1..Len(Statements(q)), i \in Ids :
              Statements(q)[k] = <<"select_exists", i>> =>
                \E m \in 1..(k - 1) : Statements(q)[m] = <<"for_update", i>>
<1> DEFINE S == Statements(q)
<1> HIDE DEF S
<1> DEFINE Short == Len(S) \in 1..4
           Typed == \A k \in 1..Len(S) : S[k] \in Whats \X Ids
           Once == \A k, m \in 1..Len(S) : S[k] = S[m] => k = m
           Locked == \A k \in 1..Len(S), i \in Ids : S[k] = <<"select_exists", i>> =>
                       \E m \in 1..(k - 1) : S[m] = <<"for_update", i>>
<1> SUFFICES Short /\ Typed /\ Once /\ Locked
  BY DEF S
<1>1. q.id \in Ids /\ q.kin \in Ids \cup {None} /\ q.kin # q.id /\ q.name \in A!QueryNames
  BY LoadTyped
<1>2. CASE q.name = "create_child_workflow"
  <2>0. q.kin \in Ids
    BY <1>2, LoadTyped
  <2>1. S = <<<<"insert_workflow", q.kin>>, <<"references", q.id>>, <<"insert_event", q.kin>>, <<"insert_event", q.id>>>>
    BY <1>2 DEF S, Statements, Insert, Set, mark_statements, signal_statements, Endings
  <2>2. Short
    BY <1>1, <2>0, <2>1
  <2>3. Typed
    BY <1>1, <2>0, <2>1 DEF Whats
  <2>4. Once
    BY <1>1, <2>0, <2>1
  <2>5. Locked
    BY <1>1, <2>0, <2>1
  <2> QED
    BY <2>2, <2>3, <2>4, <2>5
<1>3. CASE q.name = "claim_next_workflow"
  <2>1. S = <<<<"skip_locked", q.id>>, <<"update", q.id>>>>
    BY <1>3 DEF S, Statements, Insert, Set, mark_statements, signal_statements, Endings
  <2>2. Short
    BY <1>1, <2>1
  <2>3. Typed
    BY <1>1, <2>1 DEF Whats
  <2>4. Once
    BY <1>1, <2>1
  <2>5. Locked
    BY <1>1, <2>1
  <2> QED
    BY <2>2, <2>3, <2>4, <2>5
<1>4. CASE q.name = "mark_workflow_waiting"
  <2>1. S = <<<<"for_update", q.id>>, <<"select_exists", q.id>>, <<"update", q.id>>>>
    BY <1>4 DEF S, Statements, Insert, Set, mark_statements, signal_statements, Endings
  <2>2. Short
    BY <1>1, <2>1
  <2>3. Typed
    BY <1>1, <2>1 DEF Whats
  <2>4. Once
    BY <1>1, <2>1
  <2>5. Locked
    BY <1>1, <2>1
  <2> QED
    BY <2>2, <2>3, <2>4, <2>5
<1>5. CASE q.name \in {"update_workflow_run_at", "extend_workflow_lock"}
  <2>1. S = <<<<"update", q.id>>>>
    BY <1>5 DEF S, Statements, Insert, Set, mark_statements, signal_statements, Endings
  <2>2. Short
    BY <1>1, <2>1
  <2>3. Typed
    BY <1>1, <2>1 DEF Whats
  <2>4. Once
    BY <1>1, <2>1
  <2>5. Locked
    BY <1>1, <2>1
  <2> QED
    BY <2>2, <2>3, <2>4, <2>5
<1>6. CASE q.name = "write_event"
  <2>1. S = <<<<"insert_event", q.id>>>>
    BY <1>6 DEF S, Statements, Insert, Set, mark_statements, signal_statements, Endings
  <2>2. Short
    BY <1>1, <2>1
  <2>3. Typed
    BY <1>1, <2>1 DEF Whats
  <2>4. Once
    BY <1>1, <2>1
  <2>5. Locked
    BY <1>1, <2>1
  <2> QED
    BY <2>2, <2>3, <2>4, <2>5
<1>7. CASE q.name = "write_signal_and_wake_workflow" \/ (q.name \in Endings /\ q.kin = None)
  <2>1. S = <<<<"insert_event", q.id>>, <<"update", q.id>>>>
    BY <1>7 DEF S, Statements, Insert, Set, mark_statements, signal_statements, Endings
  <2>2. Short
    BY <1>1, <2>1
  <2>3. Typed
    BY <1>1, <2>1 DEF Whats
  <2>4. Once
    BY <1>1, <2>1
  <2>5. Locked
    BY <1>1, <2>1
  <2> QED
    BY <2>2, <2>3, <2>4, <2>5
<1>8. CASE q.name \in Endings /\ q.kin # None
  <2>0. q.kin \in Ids
    BY <1>1, <1>8
  <2>1. S = <<<<"insert_event", q.id>>, <<"update", q.id>>,
             <<"insert_event", q.kin>>, <<"update", q.kin>>>>
    BY <1>8 DEF S, Statements, Insert, Set, mark_statements, signal_statements, Endings
  <2>2. Short
    BY <1>1, <2>0, <2>1
  <2>3. Typed
    BY <1>1, <2>0, <2>1 DEF Whats
  <2>4. Once
    BY <1>1, <2>0, <2>1
  <2>5. Locked
    BY <1>1, <2>0, <2>1
  <2> QED
    BY <2>2, <2>3, <2>4, <2>5
<1> QED
  BY <1>1, <1>2, <1>3, <1>4, <1>5, <1>6, <1>7, <1>8 DEF A!QueryNames, Endings

LEMMA WrittenTyped ==
  ASSUME NEW q \in Load, NEW i \in Ids, NEW r \in Row
  PROVE  Written(q, i, r) \in Row
<1>1. q.slot \in Slots \cup {None} /\ q.n \in Nat /\ q.name \in A!QueryNames
  BY LoadTyped
<1> QED
  BY <1>1 DEF Written, Unlocked, Row, WorkflowStatus, Live, Terminal, A!QueryNames, Endings

LEMMA VersionTyped == ASSUME TablesOK, NEW i \in Ids PROVE Version(i) \in Row
BY DEF TablesOK, Version, Row

LEMMA EventTyped ==
  ASSUME NEW q \in Load, NEW i \in Ids, NEW k \in 1..Len(Statements(q)),
         Statements(q)[k] = <<"insert_event", i>>
  PROVE  EventOf(q, i) \in EventRecord
<1>1. q.id \in Ids /\ q.kin \in Ids \cup {None} /\ q.name \in A!QueryNames /\ q.n \in Nat
  BY LoadTyped
<1>2. CASE q.name \in Endings
  BY <1>1, <1>2 DEF EventOf, Endings, Event, EventRecord, EventType, Keys, Values
<1>3. CASE q.name = "create_child_workflow"
  <2>1. q.kin \in Ids
    BY <1>3, LoadTyped
  <2> QED
    BY <1>1, <1>3, <2>1 DEF EventOf, Event, EventRecord, EventType, Keys, Values
<1>4. CASE q.name \in {"write_event", "write_signal_and_wake_workflow"}
  BY <1>4, LoadTyped DEF EventOf, Endings
<1>5. q.name \in Endings \cup {"create_child_workflow", "write_event", "write_signal_and_wake_workflow"}
  BY <1>1 DEF Statements, Insert, Set, mark_statements, signal_statements, Endings, A!QueryNames
<1> QED
  BY <1>2, <1>3, <1>4, <1>5 DEF Endings

-----------------------------------------------------------------------------
(***************************************************************************)
(* What transactions have done, as they go on.                             *)
(***************************************************************************)
LEMMA QueryTyped ==
  ASSUME TypeOK, NEW t \in Connections, InTransaction(t)
  PROVE  query[t] \in Load /\ done[t] \in Nat
<1>1. query \in [Connections -> Load \cup {None}] /\ done \in [Connections -> 0..4]
  BY DEF TypeOK
<1> QED
  BY <1>1 DEF InTransaction

LEMMA Executing ==
  ASSUME TypeOK, Progress, NEW t \in Connections, NEW what \in Whats, NEW i \in Ids,
         Runs(t, what, i), Executed(t)
  PROVE  /\ Progress'
         /\ ~Did(t, what, i)
         /\ \A u \in Connections, w \in Whats, j \in Ids :
              Did(u, w, j)' <=> Did(u, w, j) \/ (u = t /\ w = what /\ j = i)
<1>1. /\ query[t] \in Load /\ done[t] \in Nat /\ done[t] < Len(Statements(query[t]))
      /\ query' = query /\ done' = [done EXCEPT ![t] = done[t] + 1]
      /\ Statements(query[t])[done[t] + 1] = <<what, i>>
  BY QueryTyped DEF Runs, Executed
<1>2. Len(Statements(query[t])) \in Nat
  BY <1>1, StatementsShape
<1>3. Progress'
  BY <1>1, <1>2 DEF Progress, InTransaction, TypeOK
<1>4. ~Did(t, what, i)
  <2>1. SUFFICES ASSUME NEW k \in 1..done[t], Statements(query[t])[k] = <<what, i>>
                 PROVE  FALSE
    BY DEF Did
  <2>2. k \in 1..Len(Statements(query[t])) /\ done[t] + 1 \in 1..Len(Statements(query[t]))
    BY <1>1, <1>2
  <2>3. k = done[t] + 1
    BY <1>1, <2>1, <2>2, StatementsShape
  <2> QED
    BY <1>1, <2>3
<1>5. ASSUME NEW u \in Connections, NEW w \in Whats, NEW j \in Ids
      PROVE  Did(u, w, j)' <=> Did(u, w, j) \/ (u = t /\ w = what /\ j = i)
  <2>1. CASE u # t
    BY <1>1, <2>1 DEF Did, InTransaction, TypeOK
  <2>2. CASE u = t
    <3>1. done'[t] = done[t] + 1 /\ InTransaction(t) /\ InTransaction(t)'
      BY <1>1 DEF TypeOK, InTransaction, Runs
    <3>2. Did(t, w, j)' <=> \E k \in 1..(done[t] + 1) : Statements(query[t])[k] = <<w, j>>
      BY <1>1, <3>1 DEF Did
    <3>3. Did(t, w, j) <=> \E k \in 1..done[t] : Statements(query[t])[k] = <<w, j>>
      BY <3>1 DEF Did
    <3>4. \A k : k \in 1..(done[t] + 1) <=> k \in 1..done[t] \/ k = done[t] + 1
      BY <1>1
    <3> QED
      BY <1>1, <2>2, <3>2, <3>3, <3>4
  <2> QED
    BY <2>1, <2>2
<1> QED
  BY <1>3, <1>4, <1>5

LEMMA Ending_ ==
  ASSUME TypeOK, NEW t \in Connections, Over(t)
  PROVE  /\ \A u \in Connections \ {t} : \A w, j : Did(u, w, j)' <=> Did(u, w, j)
         /\ \A w, j : ~Did(t, w, j)'
         /\ \A u \in Connections \ {t} : /\ held'[u] = held[u] /\ draft'[u] = draft[u]
                                         /\ inserted'[u] = inserted[u] /\ query'[u] = query[u]
         /\ held'[t] = NoLocks /\ draft'[t] = NoDraft /\ inserted'[t] = NoEvents
         /\ query'[t] = None
         /\ Progress => Progress'
BY DEF Did, InTransaction, Over, TypeOK, Progress

LEMMA Locking ==
  ASSUME TypeOK, Exclusion, NEW t \in Connections, NEW i \in Ids, NEW m \in Modes, Locks(t, i, m)
  PROVE  /\ held' \in [Connections -> [Ids -> Modes]]
         /\ Exclusion'
         /\ held'[t][i] >= m
         /\ \A u \in Connections, j \in Ids : held'[u][j] >= held[u][j]
<1> USE DEF Modes, NoLock, KeyShare, NoKeyUpdate, Update
<1>1. held \in [Connections -> [Ids -> Modes]]
  BY DEF TypeOK
<1>2. held' = [held EXCEPT ![t][i] = Stronger(held[t][i], m)]
  BY DEF Locks
<1>3. Stronger(held[t][i], m) \in Modes /\ Stronger(held[t][i], m) >= m
      /\ Stronger(held[t][i], m) >= held[t][i]
  BY <1>1 DEF Stronger
<1>4. \A u \in Connections \ {t} : Compatible(Stronger(held[t][i], m), held[u][i])
  BY <1>1 DEF Locks, Granted, Exclusion, Stronger, Compatible
<1>5. held' \in [Connections -> [Ids -> Modes]]
  BY <1>1, <1>2, <1>3
<1>6. /\ held'[t][i] = Stronger(held[t][i], m)
      /\ \A u \in Connections, j \in Ids : (u # t \/ j # i) => held'[u][j] = held[u][j]
  BY <1>1, <1>2
<1>7. Exclusion'
  <2>1. SUFFICES ASSUME NEW u \in Connections, NEW v \in Connections, NEW j \in Ids, u # v
                 PROVE  Compatible(held'[u][j], held'[v][j])
    BY DEF Exclusion, Compatible
  <2>2. Compatible(held[u][j], held[v][j])
    BY <2>1 DEF Exclusion
  <2>3. CASE j # i \/ (u # t /\ v # t)
    BY <1>6, <2>2, <2>3
  <2>4. CASE j = i /\ u = t
    BY <1>4, <1>6, <2>1, <2>4
  <2>5. CASE j = i /\ v = t
    <3>1. Compatible(Stronger(held[t][i], m), held[u][i])
      BY <1>4, <2>1, <2>5
    <3>2. held'[v][j] = Stronger(held[t][i], m) /\ held'[u][j] = held[u][i]
      BY <1>6, <2>1, <2>5
    <3>3. held[u][i] \in Nat /\ Stronger(held[t][i], m) \in Nat
      BY <1>1, <1>3
    <3> QED
      BY <3>1, <3>2, <3>3 DEF Compatible
  <2> QED
    BY <2>3, <2>4, <2>5
<1> QED
  BY <1>1, <1>3, <1>5, <1>6, <1>7

LEMMA Types ==
  ASSUME TypeOK
  PROVE  /\ TablesOK
         /\ query \in [Connections -> Load \cup {None}]
         /\ done \in [Connections -> 0..4]
         /\ held \in [Connections -> [Ids -> Modes]]
         /\ draft \in [Connections -> [Ids -> Row \cup {None}]]
         /\ inserted \in [Connections -> [Ids -> Seq(EventRecord)]]
         /\ count \in Nat
BY DEF TypeOK

\* A statement that is executed keeps the invariant when it takes the locks that
\* belong to it, writes its draft, and has read what it goes on with.
LEMMA StatementKeeps ==
  ASSUME Inv, NEW t \in Connections, NEW what \in Whats, NEW i \in Ids,
         Runs(t, what, i), Executed(t),
         held' \in [Connections -> [Ids -> Modes]], Exclusion',
         \A u \in Connections, j \in Ids : held'[u][j] >= held[u][j],
         what = "insert_event" => held'[t][i] >= KeyShare,
         what = "update" => held'[t][i] >= NoKeyUpdate,
         what \in {"insert_workflow", "for_update", "skip_locked"} => held'[t][i] >= Update,
         IF what \in {"update", "insert_workflow"}
         THEN draft' = [draft EXCEPT ![t][i] = Written(query[t], i, Version(i))]
         ELSE draft' = draft,
         IF what = "insert_event"
         THEN inserted' = [inserted EXCEPT ![t][i] = Append(@, EventOf(query[t], i))]
         ELSE inserted' = inserted,
         what = "select_exists" => ~SignalReceived(i, query[t].key),
         what = "skip_locked" => Eligible(i),
         what = "insert_workflow" => status[i] = "absent",
         \A u \in Connections \ {t} : held'[u] = held[u]
  PROVE  Inv'
<1>1. /\ UNCHANGED <<tables, elapsed, query, count>> /\ query[t] \in Load /\ done[t] \in Nat
      /\ done' = [done EXCEPT ![t] = done[t] + 1] /\ done[t] < Len(Statements(query[t]))
      /\ Statements(query[t])[done[t] + 1] = <<what, i>>
      /\ Len(Statements(query[t])) \in 1..4
  BY QueryTyped, StatementsShape DEF Inv, Runs, Executed
<1>2. /\ ~Did(t, what, i)
      /\ \A u \in Connections, w \in Whats, j \in Ids :
           Did(u, w, j)' <=> Did(u, w, j) \/ (u = t /\ w = what /\ j = i)
      /\ Progress'
  BY Executing DEF Inv
<1>3. \A j \in Ids : Version(j)' = Version(j)
  BY <1>1 DEF Version, tables
<1>4. TypeOK'
  <2>1. TablesOK'
    BY <1>1 DEF Inv, TypeOK, TablesOK, tables
  <2>2. done' \in [Connections -> 0..4]
    BY <1>1, Types DEF Inv
  <2>3. draft' \in [Connections -> [Ids -> Row \cup {None}]]
    <3>1. Written(query[t], i, Version(i)) \in Row
      BY <1>1, Types, VersionTyped, WrittenTyped DEF Inv
    <3>2. draft \in [Connections -> [Ids -> Row \cup {None}]]
      BY Types DEF Inv
    <3>3. CASE what \in {"update", "insert_workflow"}
      <4>1. draft' = [draft EXCEPT ![t][i] = Written(query[t], i, Version(i))]
        BY <3>3
      <4> QED
        BY <3>1, <3>2, <4>1
    <3>4. CASE what \notin {"update", "insert_workflow"}
      <4>1. draft' = draft
        BY <3>4
      <4> QED
        BY <3>2, <4>1
    <3> QED
      BY <3>3, <3>4
  <2>4. inserted' \in [Connections -> [Ids -> Seq(EventRecord)]]
    <3>1. ASSUME what = "insert_event" PROVE EventOf(query[t], i) \in EventRecord
      <4>1. done[t] + 1 \in 1..Len(Statements(query[t]))
        BY <1>1
      <4> QED
        BY <1>1, <3>1, <4>1, EventTyped
    <3>2. inserted \in [Connections -> [Ids -> Seq(EventRecord)]]
      BY Types DEF Inv
    <3>3. ASSUME what = "insert_event"
          PROVE  Append(inserted[t][i], EventOf(query[t], i)) \in Seq(EventRecord)
      BY <3>1, <3>2, <3>3
    <3>4. CASE what = "insert_event"
      <4>1. inserted' = [inserted EXCEPT ![t][i] = Append(@, EventOf(query[t], i))]
        BY <3>4
      <4> QED
        BY <3>2, <3>3, <3>4, <4>1
    <3>5. CASE what # "insert_event"
      <4>1. inserted' = inserted
        BY <3>5
      <4> QED
        BY <3>2, <4>1
    <3> QED
      BY <3>4, <3>5
  <2>5. query' \in [Connections -> Load \cup {None}] /\ count' \in Nat
    BY <1>1, Types DEF Inv
  <2>6. ASSUME NEW u \in Connections, query'[u] = None
        PROVE  done'[u] = 0 /\ held'[u] = NoLocks /\ draft'[u] = NoDraft /\ inserted'[u] = NoEvents
    <3>1. u # t /\ query[u] = None
      BY <1>1, <2>6, NullAssumption
    <3>2. done[u] = 0 /\ held[u] = NoLocks /\ draft[u] = NoDraft /\ inserted[u] = NoEvents
      BY <3>1 DEF Inv, TypeOK
    <3>3. done'[u] = done[u] /\ draft'[u] = draft[u] /\ inserted'[u] = inserted[u]
      BY <1>1, <3>1, Types DEF Inv
    <3> QED
      BY <3>1, <3>2, <3>3
  <2> QED
    BY <2>1, <2>2, <2>3, <2>4, <2>5, <2>6 DEF TypeOK
<1>5. LocksHeld'
  <2> USE DEF Modes, NoLock, KeyShare, NoKeyUpdate, Update
  <2>1. SUFFICES ASSUME NEW u \in Connections, NEW j \in Ids
        PROVE  /\ Did(u, "insert_event", j)' => held'[u][j] >= KeyShare
               /\ Did(u, "update", j)' => held'[u][j] >= NoKeyUpdate
               /\ \A w \in {"insert_workflow", "for_update", "skip_locked"} :
                    Did(u, w, j)' => held'[u][j] = Update
    BY DEF LocksHeld
  <2>2. held[u][j] \in 0..3 /\ held'[u][j] \in 0..3 /\ held'[u][j] >= held[u][j]
    BY Types DEF Inv
  <2> QED
    BY <1>2, <2>2 DEF Inv, LocksHeld, Whats
<1>6. Drafted'
  <2>1. SUFFICES ASSUME NEW u \in Connections, NEW j \in Ids
        PROVE  /\ draft'[u][j] = IF Did(u, "update", j)' \/ Did(u, "insert_workflow", j)'
                                 THEN Written(query'[u], j, Version(j)') ELSE None
               /\ inserted'[u][j] = IF Did(u, "insert_event", j)' THEN <<EventOf(query'[u], j)>> ELSE <<>>
    BY DEF Drafted
  <2>2. /\ draft[u][j] = IF Did(u, "update", j) \/ Did(u, "insert_workflow", j)
                         THEN Written(query[u], j, Version(j)) ELSE None
        /\ inserted[u][j] = IF Did(u, "insert_event", j) THEN <<EventOf(query[u], j)>> ELSE <<>>
    BY DEF Inv, Drafted
  <2>3. draft \in [Connections -> [Ids -> Row \cup {None}]]
        /\ inserted \in [Connections -> [Ids -> Seq(EventRecord)]]
    BY Types DEF Inv
  <2>4. CASE u = t /\ j = i
    <3>0. /\ Did(t, "update", i)' <=> Did(t, "update", i) \/ what = "update"
          /\ Did(t, "insert_workflow", i)' <=> Did(t, "insert_workflow", i) \/ what = "insert_workflow"
          /\ Did(t, "insert_event", i)' <=> Did(t, "insert_event", i) \/ what = "insert_event"
          /\ query'[t] = query[t] /\ Version(i)' = Version(i)
      BY <1>1, <1>2, <1>3 DEF Whats
    <3>1. what = "insert_event" => inserted'[t][i] = <<EventOf(query[t], i)>>
      BY <1>2, <2>2, <2>3, <2>4
    <3>2. CASE what \in {"update", "insert_workflow"}
      <4>1. draft'[t][i] = Written(query[t], i, Version(i)) /\ inserted'[t][i] = inserted[t][i]
        BY <2>3, <3>2
      <4> QED
        BY <2>2, <2>4, <3>0, <3>2, <4>1
    <3>3. CASE what = "insert_event"
      <4>1. draft'[t][i] = draft[t][i]
        BY <3>3
      <4> QED
        BY <2>2, <2>4, <3>0, <3>1, <3>3, <4>1
    <3>4. CASE what \in Whats \ {"update", "insert_workflow", "insert_event"}
      <4>1. draft'[t][i] = draft[t][i] /\ inserted'[t][i] = inserted[t][i]
        BY <3>4
      <4> QED
        BY <2>2, <2>4, <3>0, <3>4, <4>1
    <3> QED
      BY <3>2, <3>3, <3>4
  <2>5. CASE ~(u = t /\ j = i)
    <3>1. draft'[u][j] = draft[u][j] /\ inserted'[u][j] = inserted[u][j]
      BY <2>3, <2>5
    <3> QED
      BY <1>1, <1>2, <1>3, <2>2, <2>5, <3>1 DEF Whats
  <2> QED
    BY <2>4, <2>5
<1>7. ReadsHold'
  <2>1. \A j \in Ids : /\ \A k : SignalReceived(j, k)' <=> SignalReceived(j, k)
                       /\ Eligible(j)' <=> Eligible(j)
                       /\ status'[j] = status[j]
    BY <1>1 DEF SignalReceived, Eligible, RunAtReached, LeaseFree, tables
  <2> QED
    BY <1>1, <1>2, <2>1 DEF Inv, ReadsHold, Whats
<1> QED
  BY <1>2, <1>4, <1>5, <1>6, <1>7 DEF Inv

LEMMA StatementInv ==
  ASSUME Inv, NEW t \in Connections, NEW i \in Ids, Statement(t, i)
  PROVE  Inv' \/ Returns(t)
<1> USE DEF Modes, NoLock, KeyShare, NoKeyUpdate, Update
<1>1. TypeOK /\ Exclusion
  BY DEF Inv
<1>2. ASSUME NEW m \in Modes, Locks(t, i, m)
      PROVE  /\ held' \in [Connections -> [Ids -> Modes]] /\ Exclusion' /\ held'[t][i] >= m
             /\ \A u \in Connections, j \in Ids : held'[u][j] >= held[u][j]
             /\ \A u \in Connections \ {t} : held'[u] = held[u]
  <2>1. held \in [Connections -> [Ids -> Modes]]
    BY <1>1, Types
  <2> QED
    BY <1>1, <1>2, <2>1, Locking DEF Locks
<1>3. CASE insert_event(t, i)
  <2>1. /\ Runs(t, "insert_event", i) /\ Locks(t, i, KeyShare) /\ Executed(t) /\ draft' = draft
        /\ inserted' = [inserted EXCEPT ![t][i] = Append(inserted[t][i], EventOf(query[t], i))]
    BY <1>3 DEF insert_event
  <2>2. /\ held' \in [Connections -> [Ids -> Modes]] /\ Exclusion' /\ held'[t][i] >= KeyShare
        /\ \A u \in Connections, j \in Ids : held'[u][j] >= held[u][j]
        /\ \A u \in Connections \ {t} : held'[u] = held[u]
    BY <1>2, <2>1
  <2> QED
    BY <2>1, <2>2, StatementKeeps DEF Whats
<1>4. CASE insert_workflow(t, i)
  <2>1. CASE Granted(t, i, Update) /\ status[i] # "absent"
    BY <1>4, <2>1 DEF insert_workflow
  <2>2. CASE ~(Granted(t, i, Update) /\ status[i] # "absent")
    <3>1. Runs(t, "insert_workflow", i) /\ Locks(t, i, Update) /\ Executed(t)
          /\ draft' = [draft EXCEPT ![t][i] = Written(query[t], i, Version(i))]
          /\ inserted' = inserted
      BY <1>4, <2>2 DEF insert_workflow
    <3>2. status[i] = "absent"
      BY <2>2, <3>1 DEF Locks
    <3>3. /\ held' \in [Connections -> [Ids -> Modes]] /\ Exclusion' /\ held'[t][i] >= Update
          /\ \A u \in Connections, j \in Ids : held'[u][j] >= held[u][j]
          /\ \A u \in Connections \ {t} : held'[u] = held[u]
      BY <1>2, <3>1
    <3> QED
      BY <3>1, <3>2, <3>3, StatementKeeps DEF Whats
  <2> QED
    BY <2>1, <2>2
<1>5. CASE check_reference(t, i)
  BY <1>2, <1>5, StatementKeeps DEF check_reference, Whats
<1>6. CASE update(t, i)
  <2>1. /\ Runs(t, "update", i) /\ Locks(t, i, NoKeyUpdate) /\ Executed(t) /\ inserted' = inserted
        /\ draft' = [draft EXCEPT ![t][i] = Written(query[t], i, Version(i))]
    BY <1>6 DEF update
  <2>2. /\ held' \in [Connections -> [Ids -> Modes]] /\ Exclusion' /\ held'[t][i] >= NoKeyUpdate
        /\ \A u \in Connections, j \in Ids : held'[u][j] >= held[u][j]
        /\ \A u \in Connections \ {t} : held'[u] = held[u]
    BY <1>2, <2>1
  <2> QED
    BY <2>1, <2>2, StatementKeeps DEF Whats
<1>7. CASE select_for_update(t, i)
  BY <1>2, <1>7, StatementKeeps DEF select_for_update, Whats
<1>8. CASE select_exists(t, i)
  <2>1. CASE SignalReceived(i, query[t].key)
    BY <1>8, <2>1 DEF select_exists
  <2>2. CASE ~SignalReceived(i, query[t].key)
    <3>1. Runs(t, "select_exists", i) /\ Executed(t)
          /\ draft' = draft /\ inserted' = inserted /\ held' = held
      BY <1>8, <2>2 DEF select_exists
    <3>2. held \in [Connections -> [Ids -> 0..3]]
      BY <1>1, Types
    <3>3. Exclusion' /\ \A u \in Connections, j \in Ids : held'[u][j] >= held[u][j]
      BY <1>1, <3>1, <3>2 DEF Exclusion, Compatible
    <3> QED
      BY <2>2, <3>1, <3>2, <3>3, StatementKeeps DEF Whats
  <2> QED
    BY <2>1, <2>2
<1>9. CASE select_skip_locked(t, i)
  <2>1. CASE ~(Eligible(i) /\ Granted(t, i, Update))
    BY <1>9, <2>1 DEF select_skip_locked
  <2>2. CASE Eligible(i) /\ Granted(t, i, Update)
    <3>1. Runs(t, "skip_locked", i) /\ Locks(t, i, Update) /\ Executed(t)
          /\ draft' = draft /\ inserted' = inserted
      BY <1>9, <2>2 DEF select_skip_locked
    <3> QED
      BY <1>2, <2>2, <3>1, StatementKeeps DEF Whats
  <2> QED
    BY <2>1, <2>2
<1> QED
  BY <1>3, <1>4, <1>5, <1>6, <1>7, <1>8, <1>9 DEF Statement

LEMMA OverTypes ==
  ASSUME TypeOK, NEW t \in Connections, Over(t), TablesOK'
  PROVE  TypeOK'
<1> USE DEF NoLocks, NoDraft, NoEvents, Modes, NoLock, Update
<1>1. /\ query' \in [Connections -> Load \cup {None}]
      /\ done' \in [Connections -> 0..4] /\ count' \in Nat
  BY Types DEF Over
<1>2. held' \in [Connections -> [Ids -> Modes]]
  <2>1. [i \in Ids |-> 0] \in [Ids -> Modes]
    OBVIOUS
  <2> QED
    BY <2>1, Types DEF Over
<1>3. draft' \in [Connections -> [Ids -> Row \cup {None}]]
  <2>1. [i \in Ids |-> None] \in [Ids -> Row \cup {None}]
    OBVIOUS
  <2> QED
    BY <2>1, Types DEF Over
<1>4. inserted' \in [Connections -> [Ids -> Seq(EventRecord)]]
  <2>1. [i \in Ids |-> <<>>] \in [Ids -> Seq(EventRecord)]
    OBVIOUS
  <2> QED
    BY <2>1, Types DEF Over
<1>5. ASSUME NEW u \in Connections, query'[u] = None
      PROVE  done'[u] = 0 /\ held'[u] = NoLocks /\ draft'[u] = NoDraft /\ inserted'[u] = NoEvents
  <2>1. CASE u = t
    BY <2>1, Types DEF Over
  <2>2. CASE u # t
    <3>1. query[u] = None
      BY <1>5, <2>2, Types DEF Over
    <3>2. done[u] = 0 /\ held[u] = NoLocks /\ draft[u] = NoDraft /\ inserted[u] = NoEvents
      BY <3>1 DEF TypeOK
    <3> QED
      BY <2>2, <3>2, Types DEF Over
  <2> QED
    BY <2>1, <2>2
<1> QED
  BY <1>1, <1>2, <1>3, <1>4, <1>5 DEF TypeOK

\* A transaction that ends leaves the others as they are when no row they have
\* written and no fact they have read has changed.
LEMMA OverKeeps ==
  ASSUME Inv, NEW t \in Connections, Over(t), TablesOK',
         \A u \in Connections \ {t}, i \in Ids :
           /\ Did(u, "update", i) \/ Did(u, "insert_workflow", i) => Version(i)' = Version(i)
           /\ Did(u, "select_exists", i) => events'[i] = events[i]
           /\ Did(u, "skip_locked", i) => Version(i)' = Version(i) /\ elapsed'[i] = elapsed[i]
           /\ Did(u, "insert_workflow", i) => status'[i] = status[i]
  PROVE  Inv'
<1>1. TypeOK'
  BY OverTypes DEF Inv
<1>2. /\ \A u \in Connections \ {t} : \A w, j : Did(u, w, j)' <=> Did(u, w, j)
      /\ \A w, j : ~Did(t, w, j)'
      /\ \A u \in Connections \ {t} : /\ held'[u] = held[u] /\ draft'[u] = draft[u]
                                      /\ inserted'[u] = inserted[u] /\ query'[u] = query[u]
      /\ held'[t] = NoLocks /\ draft'[t] = NoDraft /\ inserted'[t] = NoEvents
      /\ Progress'
  BY Ending_ DEF Inv
<1>3. Exclusion'
  <2>1. held \in [Connections -> [Ids -> 0..3]]
    BY Types DEF Inv, Modes, NoLock, Update
  <2>2. SUFFICES ASSUME NEW u \in Connections, NEW v \in Connections, NEW i \in Ids, u # v
                 PROVE  held'[u][i] + held'[v][i] < 4
    BY DEF Exclusion, Compatible
  <2>3. u # t /\ v # t => held[u][i] + held[v][i] < 4
    BY <2>2 DEF Inv, Exclusion, Compatible
  <2> QED
    BY <1>2, <2>1, <2>2, <2>3 DEF NoLocks, NoLock
<1>4. LocksHeld'
  BY <1>2 DEF Inv, LocksHeld
<1>5. Drafted'
  <2>1. SUFFICES ASSUME NEW u \in Connections, NEW i \in Ids
        PROVE  /\ draft'[u][i] = IF Did(u, "update", i)' \/ Did(u, "insert_workflow", i)'
                                 THEN Written(query'[u], i, Version(i)') ELSE None
               /\ inserted'[u][i] = IF Did(u, "insert_event", i)' THEN <<EventOf(query'[u], i)>> ELSE <<>>
    BY DEF Drafted
  <2>2. CASE u = t
    BY <1>2, <2>2 DEF NoDraft, NoEvents
  <2>3. CASE u # t
    <3>1. /\ draft[u][i] = IF Did(u, "update", i) \/ Did(u, "insert_workflow", i)
                           THEN Written(query[u], i, Version(i)) ELSE None
          /\ inserted[u][i] = IF Did(u, "insert_event", i) THEN <<EventOf(query[u], i)>> ELSE <<>>
      BY DEF Inv, Drafted
    <3> QED
      BY <1>2, <2>3, <3>1
  <2> QED
    BY <2>2, <2>3
<1>6. ReadsHold'
  <2>1. \A i \in Ids : events'[i] = events[i] => \A k : SignalReceived(i, k)' <=> SignalReceived(i, k)
    BY DEF SignalReceived
  <2>2. \A i \in Ids : Version(i)' = Version(i) /\ elapsed'[i] = elapsed[i] => (Eligible(i)' <=> Eligible(i))
    BY DEF Version, Eligible, RunAtReached, LeaseFree
  <2> QED
    BY <1>2, <2>1, <2>2 DEF Inv, ReadsHold
<1> QED
  BY <1>1, <1>2, <1>3, <1>4, <1>5, <1>6 DEF Inv

LEMMA ReturnsKeeps ==
  ASSUME Inv, NEW t \in Connections, Returns(t)
  PROVE  Inv'
<1>1. Over(t) /\ UNCHANGED <<status, run_at, locked_by, locked_until, events, elapsed>>
  BY DEF Returns, tables
<1>2. TablesOK'
  BY <1>1 DEF Inv, TypeOK, TablesOK
<1> QED
  BY <1>1, <1>2, OverKeeps DEF Version

-----------------------------------------------------------------------------
(***************************************************************************)
(* What a commit does to the tables.                                       *)
(***************************************************************************)
Updates(q, j) ==
  \E k \in 1..Len(Statements(q)) : Statements(q)[k] \in {<<"update", j>>, <<"insert_workflow", j>>}
Inserts(q, j) == \E k \in 1..Len(Statements(q)) : Statements(q)[k] = <<"insert_event", j>>

LEMMA Rewritten ==
  ASSUME NEW q \in Load, NEW j \in Ids
  PROVE  /\ q.name = "create_child_workflow" =>
              (Updates(q, j) <=> j = q.kin) /\ (Inserts(q, j) <=> j \in {q.id, q.kin})
         /\ q.name \in {"claim_next_workflow", "mark_workflow_waiting",
                        "update_workflow_run_at", "extend_workflow_lock"} =>
              (Updates(q, j) <=> j = q.id) /\ ~Inserts(q, j)
         /\ q.name = "write_event" => ~Updates(q, j) /\ (Inserts(q, j) <=> j = q.id)
         /\ q.name = "write_signal_and_wake_workflow" =>
              (Updates(q, j) <=> j = q.id) /\ (Inserts(q, j) <=> j = q.id)
         /\ q.name \in Endings =>
              (Updates(q, j) <=> j \in {q.id, q.kin}) /\ (Inserts(q, j) <=> j \in {q.id, q.kin})
<1> DEFINE S == Statements(q)
           U == \E k \in 1..Len(S) : S[k] \in {<<"update", j>>, <<"insert_workflow", j>>}
           I == \E k \in 1..Len(S) : S[k] = <<"insert_event", j>>
<1> USE DEF Insert, Set, mark_statements, signal_statements, Endings
<1>1. Updates(q, j) = U /\ Inserts(q, j) = I
  BY DEF Updates, Inserts
<1>2. None \notin Ids
  BY NullAssumption
<1>3. ASSUME q.name = "create_child_workflow"
      PROVE  (U <=> j = q.kin) /\ (I <=> j \in {q.id, q.kin})
  <2>1. S = <<<<"insert_workflow", q.kin>>, <<"references", q.id>>, Insert(q.kin), Insert(q.id)>>
    BY <1>3 DEF Statements
  <2> HIDE DEF S
  <2>2. Len(S) = 4 /\ S[1] = <<"insert_workflow", q.kin>> /\ S[2] = <<"references", q.id>>
        /\ S[3] = Insert(q.kin) /\ S[4] = Insert(q.id)
    BY <2>1
  <2> QED
    BY <2>2
<1>4. ASSUME q.name = "claim_next_workflow" PROVE (U <=> j = q.id) /\ ~I
  <2>1. S = <<<<"skip_locked", q.id>>, Set(q.id)>>
    BY <1>4 DEF Statements
  <2> HIDE DEF S
  <2> QED
    BY <2>1
<1>5. ASSUME q.name = "mark_workflow_waiting" PROVE (U <=> j = q.id) /\ ~I
  <2>1. S = <<<<"for_update", q.id>>, <<"select_exists", q.id>>, Set(q.id)>>
    BY <1>5 DEF Statements
  <2> HIDE DEF S
  <2> QED
    BY <2>1
<1>6. ASSUME q.name \in {"update_workflow_run_at", "extend_workflow_lock"} PROVE (U <=> j = q.id) /\ ~I
  <2>1. S = <<Set(q.id)>>
    BY <1>6 DEF Statements
  <2> HIDE DEF S
  <2> QED
    BY <2>1
<1>7. ASSUME q.name = "write_event" PROVE ~U /\ (I <=> j = q.id)
  <2>1. S = <<Insert(q.id)>>
    BY <1>7 DEF Statements
  <2> HIDE DEF S
  <2> QED
    BY <2>1
<1>8. ASSUME q.name = "write_signal_and_wake_workflow" \/ (q.name \in Endings /\ q.kin = None)
      PROVE  (U <=> j = q.id) /\ (I <=> j = q.id)
  <2>1. S = <<Insert(q.id), Set(q.id)>>
    BY <1>8 DEF Statements
  <2> HIDE DEF S
  <2> QED
    BY <2>1
<1>9. ASSUME q.name \in Endings /\ q.kin # None
      PROVE  (U <=> j \in {q.id, q.kin}) /\ (I <=> j \in {q.id, q.kin})
  <2>1. S = <<Insert(q.id), Set(q.id), Insert(q.kin), Set(q.kin)>>
    BY <1>9 DEF Statements
  <2> HIDE DEF S
  <2>2. Len(S) = 4 /\ S[1] = Insert(q.id) /\ S[2] = Set(q.id) /\ S[3] = Insert(q.kin) /\ S[4] = Set(q.kin)
    BY <2>1
  <2> QED
    BY <2>2
<1> HIDE DEF U, I
<1> QED
  BY <1>1, <1>2, <1>3, <1>4, <1>5, <1>6, <1>7, <1>8, <1>9

LEMMA CommitEffect ==
  ASSUME Inv, NEW t \in Connections, commit(t)
  PROVE  /\ TablesOK' /\ elapsed' = elapsed
         /\ \A j \in Ids :
              /\ Version(j)' = IF Updates(query[t], j) THEN Written(query[t], j, Version(j)) ELSE Version(j)
              /\ events'[j] = IF Inserts(query[t], j) THEN Append(events[j], EventOf(query[t], j))
                              ELSE events[j]
<1> DEFINE q == query[t]
           New(j) == IF draft[t][j] = None THEN Version(j) ELSE draft[t][j]
<1>1. q \in Load /\ InTransaction(t) /\ done[t] = Len(Statements(q))
  BY QueryTyped DEF Inv, commit, Complete
<1>2. \A j \in Ids : /\ Did(t, "update", j) \/ Did(t, "insert_workflow", j) <=> Updates(q, j)
                     /\ Did(t, "insert_event", j) <=> Inserts(q, j)
  BY <1>1 DEF Did, Updates, Inserts
<1>3. ASSUME NEW j \in Ids
      PROVE  /\ New(j) = IF Updates(q, j) THEN Written(q, j, Version(j)) ELSE Version(j)
             /\ New(j) \in Row
  <2>1. Version(j) \in Row /\ Written(q, j, Version(j)) \in Row
    BY <1>1, Types, VersionTyped, WrittenTyped DEF Inv
  <2>2. draft[t][j] = IF Updates(q, j) THEN Written(q, j, Version(j)) ELSE None
    BY <1>2 DEF Inv, Drafted
  <2> QED
    BY <2>1, <2>2, NullAssumption
<1>4. /\ status' = [j \in Ids |-> New(j).status] /\ run_at' = [j \in Ids |-> New(j).run_at]
      /\ locked_by' = [j \in Ids |-> New(j).locked_by]
      /\ locked_until' = [j \in Ids |-> New(j).locked_until]
      /\ events' = [j \in Ids |-> events[j] \o inserted[t][j]] /\ elapsed' = elapsed
  BY DEF commit
<1>5. ASSUME NEW j \in Ids PROVE Version(j)' = New(j)
  <2>1. Version(j)' = [status |-> New(j).status, run_at |-> New(j).run_at,
                       locked_by |-> New(j).locked_by, locked_until |-> New(j).locked_until]
    BY <1>4 DEF Version
  <2>2. New(j) \in Row
    BY <1>3
  <2> HIDE DEF New
  <2> QED
    BY <2>1, <2>2 DEF Row
<1>6. ASSUME NEW j \in Ids
      PROVE  /\ events'[j] = IF Inserts(q, j) THEN Append(events[j], EventOf(q, j)) ELSE events[j]
             /\ events'[j] \in Seq(EventRecord)
  <2>1. events[j] \in Seq(EventRecord) /\ inserted[t][j] \in Seq(EventRecord)
    BY Types DEF Inv, TablesOK
  <2>2. inserted[t][j] = IF Inserts(q, j) THEN <<EventOf(q, j)>> ELSE <<>>
    BY <1>2 DEF Inv, Drafted
  <2>3. events'[j] = events[j] \o inserted[t][j]
    BY <1>4
  <2>4. CASE Inserts(q, j)
    <3>1. EventOf(q, j) \in EventRecord
      BY <1>1, <2>4, EventTyped DEF Inserts
    <3> QED
      BY <2>1, <2>2, <2>3, <2>4, <3>1
  <2>5. CASE ~Inserts(q, j)
    BY <2>1, <2>2, <2>3, <2>5
  <2> QED
    BY <2>4, <2>5
<1>7. TablesOK'
  <2>1. \A j \in Ids : New(j) \in Row
    BY <1>3
  <2> HIDE DEF New
  <2>2. /\ status' \in [Ids -> WorkflowStatus] /\ run_at' \in [Ids -> Nat]
        /\ locked_by' \in [Ids -> Slots \cup {None}]
        /\ locked_until' \in [Ids -> {"null", "past", "future"}]
    BY <1>4, <2>1 DEF Row
  <2>3. events' \in [Ids -> Seq(EventRecord)]
    BY <1>4, <1>6
  <2>4. elapsed' \in [Ids -> SUBSET Nat]
    BY <1>4, Types DEF Inv, TablesOK
  <2> QED
    BY <2>2, <2>3, <2>4 DEF TablesOK
<1>8. elapsed' = elapsed
  BY <1>4
<1> HIDE DEF New
<1> QED
  BY <1>3, <1>5, <1>6, <1>7, <1>8

LEMMA CommitKeeps ==
  ASSUME Inv, NEW t \in Connections, commit(t)
  PROVE  Inv'
<1> USE DEF NoLock, KeyShare, NoKeyUpdate, Update
<1>1. query[t] \in Load /\ Over(t) /\ elapsed' = elapsed /\ TablesOK'
      /\ InTransaction(t) /\ done[t] = Len(Statements(query[t]))
  BY QueryTyped, CommitEffect DEF Inv, commit, Complete
<1>2. \A j \in Ids : /\ Updates(query[t], j) => held[t][j] >= NoKeyUpdate
                     /\ Inserts(query[t], j) => held[t][j] >= KeyShare
  <2>1. \A j \in Ids : /\ Updates(query[t], j) => Did(t, "update", j) \/ Did(t, "insert_workflow", j)
                       /\ Inserts(query[t], j) => Did(t, "insert_event", j)
    BY <1>1 DEF Did, Updates, Inserts
  <2> QED
    BY <2>1 DEF Inv, LocksHeld
<1>3. SUFFICES ASSUME NEW u \in Connections \ {t}, NEW i \in Ids
      PROVE  /\ Did(u, "update", i) \/ Did(u, "insert_workflow", i) => Version(i)' = Version(i)
             /\ Did(u, "select_exists", i) => events'[i] = events[i]
             /\ Did(u, "skip_locked", i) => Version(i)' = Version(i) /\ elapsed'[i] = elapsed[i]
             /\ Did(u, "insert_workflow", i) => status'[i] = status[i]
  BY <1>1, OverKeeps
<1>4. held[u][i] \in Nat /\ held[t][i] \in Nat /\ held[u][i] + held[t][i] < 4
  <2>1. held \in [Connections -> [Ids -> 0..3]]
    BY Types DEF Inv, Modes
  <2>2. held[u][i] + held[t][i] < 4
    BY DEF Inv, Exclusion, Compatible
  <2> QED
    BY <2>1, <2>2
<1>5. held[u][i] >= NoKeyUpdate => ~Updates(query[t], i)
  BY <1>2, <1>4
<1>6. held[u][i] = Update => ~Inserts(query[t], i)
  BY <1>2, <1>4
<1>7. ASSUME Did(u, "select_exists", i) PROVE held[u][i] = Update
  <2>1. query[u] \in Load /\ done[u] \in Nat /\ done[u] <= Len(Statements(query[u]))
    BY <1>7, QueryTyped DEF Inv, Progress, Did
  <2>2. PICK k \in 1..done[u] : Statements(query[u])[k] = <<"select_exists", i>>
    BY <1>7 DEF Did
  <2>3. k \in 1..Len(Statements(query[u]))
    BY <2>1, StatementsShape
  <2>4. PICK m \in 1..(k - 1) : Statements(query[u])[m] = <<"for_update", i>>
    BY <2>1, <2>2, <2>3, StatementsShape
  <2>5. m \in 1..done[u]
    BY <2>1, <2>2, <2>4
  <2>6. Did(u, "for_update", i)
    BY <1>7, <2>4, <2>5 DEF Did
  <2> QED
    BY <2>6 DEF Inv, LocksHeld
<1>8. /\ ~Updates(query[t], i) => Version(i)' = Version(i) /\ status'[i] = status[i]
      /\ ~Inserts(query[t], i) => events'[i] = events[i]
  <2>1. Version(i)' = Version(i) => status'[i] = status[i]
    BY DEF Version
  <2> QED
    BY <2>1, CommitEffect
<1>9. /\ Did(u, "update", i) => held[u][i] >= NoKeyUpdate
      /\ Did(u, "insert_workflow", i) \/ Did(u, "skip_locked", i) => held[u][i] >= NoKeyUpdate
  BY DEF Inv, LocksHeld
<1> QED
  BY <1>1, <1>5, <1>6, <1>7, <1>8, <1>9

-----------------------------------------------------------------------------
(***************************************************************************)
(* The other steps.                                                        *)
(***************************************************************************)
LEMMA InitInv == Init => Inv
<1> SUFFICES ASSUME Init PROVE Inv
  OBVIOUS
<1> USE DEF NoLocks, NoDraft, NoEvents, Modes, NoLock, Update
<1>1. TablesOK
  <2>1. Event("started", 0, None, None) \in EventRecord
    BY DEF Event, EventRecord, EventType, Keys, Values
  <2>2. A!Event("started", 0, None, None) = Event("started", 0, None, None)
    BY DEF A!Event, Event
  <2>3. events \in [Ids -> Seq(EventRecord)]
    BY <2>1, <2>2 DEF Init, A!Init
  <2> QED
    BY <2>3 DEF Init, A!Init, TablesOK, WorkflowStatus, Live
<1>2. \A t \in Connections : query[t] = None /\ done[t] = 0 /\ held[t] = NoLocks
                             /\ draft[t] = NoDraft /\ inserted[t] = NoEvents
  BY DEF Init
<1>3. TypeOK
  <2>1. query \in [Connections -> Load \cup {None}] /\ done \in [Connections -> 0..4] /\ count \in Nat
    BY DEF Init
  <2>2. [i \in Ids |-> 0] \in [Ids -> 0..3] /\ [i \in Ids |-> None] \in [Ids -> Row \cup {None}]
        /\ [i \in Ids |-> <<>>] \in [Ids -> Seq(EventRecord)]
    OBVIOUS
  <2>3. held \in [Connections -> [Ids -> Modes]]
    BY <2>2 DEF Init
  <2>4. draft \in [Connections -> [Ids -> Row \cup {None}]]
    BY <2>2 DEF Init
  <2>5. inserted \in [Connections -> [Ids -> Seq(EventRecord)]]
    BY <2>2 DEF Init
  <2> QED
    BY <1>1, <1>2, <2>1, <2>3, <2>4, <2>5 DEF TypeOK
<1>4. \A t \in Connections : \A w, i : ~Did(t, w, i)
  BY <1>2 DEF Did, InTransaction
<1>5. Exclusion
  BY <1>2 DEF Exclusion, Compatible
<1> QED
  BY <1>2, <1>3, <1>4, <1>5 DEF Inv, LocksHeld, Drafted, ReadsHold, Progress, InTransaction

LEMMA BeginKeeps ==
  ASSUME Inv, NEW t \in Connections, NEW q \in Load, begin(t, q)
  PROVE  Inv'
<1>1. /\ query[t] = None /\ query' = [query EXCEPT ![t] = q] /\ count' = count + 1
      /\ UNCHANGED <<status, run_at, locked_by, locked_until, events, elapsed>>
      /\ UNCHANGED <<done, held, draft, inserted>>
  BY DEF begin, tables
<1>2. q # None
  BY NullAssumption
<1>3. done[t] = 0
  BY <1>1 DEF Inv, TypeOK
<1>4. query \in [Connections -> Load \cup {None}] /\ count \in Nat
  BY Types DEF Inv
<1>5. \A u \in Connections : \A w, i : Did(u, w, i)' <=> Did(u, w, i)
  BY <1>1, <1>3, <1>4 DEF Did, InTransaction
<1>6. \A u \in Connections : u # t => query'[u] = query[u]
  BY <1>1, <1>4
<1>7. \A w, i : ~Did(t, w, i)
  BY <1>3 DEF Did
<1>8. TypeOK'
  <2>1. query' \in [Connections -> Load \cup {None}] /\ count' \in Nat
    BY <1>1, <1>4
  <2>2. \A u \in Connections : query'[u] = None => query[u] = None
    BY <1>1, <1>4, <1>6
  <2>3. TablesOK'
    BY <1>1 DEF Inv, TypeOK, TablesOK
  <2> QED
    BY <1>1, <2>1, <2>2, <2>3 DEF Inv, TypeOK
<1>9. \A i \in Ids : /\ Version(i)' = Version(i) /\ (Eligible(i)' <=> Eligible(i))
                     /\ \A k : SignalReceived(i, k)' <=> SignalReceived(i, k)
  BY <1>1 DEF Version, Eligible, RunAtReached, LeaseFree, SignalReceived
<1>10. Drafted'
  <2>1. SUFFICES ASSUME NEW u \in Connections, NEW i \in Ids
        PROVE  /\ draft'[u][i] = IF Did(u, "update", i)' \/ Did(u, "insert_workflow", i)'
                                 THEN Written(query'[u], i, Version(i)') ELSE None
               /\ inserted'[u][i] = IF Did(u, "insert_event", i)' THEN <<EventOf(query'[u], i)>> ELSE <<>>
    BY DEF Drafted
  <2> QED
    <3>1. /\ draft[u][i] = IF Did(u, "update", i) \/ Did(u, "insert_workflow", i)
                           THEN Written(query[u], i, Version(i)) ELSE None
          /\ inserted[u][i] = IF Did(u, "insert_event", i) THEN <<EventOf(query[u], i)>> ELSE <<>>
      BY DEF Inv, Drafted
    <3>2. CASE u = t
      BY <1>1, <1>5, <1>7, <3>1, <3>2
    <3>3. CASE u # t
      BY <1>1, <1>5, <1>6, <1>9, <3>1, <3>3
    <3> QED
      BY <3>2, <3>3
<1>11. Progress'
  <2>1. Len(Statements(q)) \in 1..4
    BY StatementsShape
  <2>2. query'[t] = q
    BY <1>1, <1>4
  <2> QED
    BY <1>1, <1>3, <1>6, <2>1, <2>2 DEF Inv, Progress, InTransaction
<1>12. LocksHeld' /\ Exclusion'
  BY <1>1, <1>5 DEF Inv, LocksHeld, Exclusion
<1>13. ReadsHold'
  BY <1>1, <1>5, <1>6, <1>7, <1>9 DEF Inv, ReadsHold
<1> QED
  BY <1>8, <1>10, <1>11, <1>12, <1>13 DEF Inv

\* A version whose lock has lapsed, and what an UPDATE makes of it.
Lapsed(r) == [r EXCEPT !.locked_until = "past"]

LEMMA WrittenLapsed ==
  ASSUME NEW q \in Load, NEW i \in Ids, NEW r \in Row, r.locked_until = "future"
  PROVE  Written(q, i, Lapsed(r)) =
           IF q.name \notin {"claim_next_workflow", "extend_workflow_lock"}
              /\ Written(q, i, r).locked_until = "future"
           THEN Lapsed(Written(q, i, r)) ELSE Written(q, i, r)
<1>1. q.name \in A!QueryNames
  BY LoadTyped
<1> QED
  BY <1>1 DEF Written, Unlocked, Lapsed, Row, A!QueryNames, Endings

LEMMA LapseKeeps ==
  ASSUME Inv, NEW i \in Ids, lapse(i)
  PROVE  Inv'
<1>1. /\ locked_until[i] = "future" /\ locked_until' = [locked_until EXCEPT ![i] = "past"]
      /\ UNCHANGED <<status, run_at, locked_by, events, elapsed>>
      /\ UNCHANGED <<query, done, held, inserted, count>>
  BY DEF lapse, A!Lapses
<1>2. draft' = [t \in Connections |->
        IF draft[t][i] # None /\ query[t].name \notin {"claim_next_workflow", "extend_workflow_lock"}
           /\ draft[t][i].locked_until = "future"
        THEN [draft[t] EXCEPT ![i] = Lapsed(draft[t][i])]
        ELSE draft[t]]
  BY DEF lapse, Lapsed
<1>3. /\ TablesOK /\ draft \in [Connections -> [Ids -> Row \cup {None}]]
      /\ query \in [Connections -> Load \cup {None}]
  BY Types DEF Inv
<1>4. \A t \in Connections : \A w, j : Did(t, w, j)' <=> Did(t, w, j)
  BY <1>1 DEF Did, InTransaction
<1>5. TypeOK'
  <2>1. TablesOK'
    BY <1>1, <1>3 DEF TablesOK
  <2>2. draft' \in [Connections -> [Ids -> Row \cup {None}]]
    <3>1. \A r \in Row : Lapsed(r) \in Row
      BY DEF Lapsed, Row
    <3> QED
      BY <1>2, <1>3, <3>1
  <2>3. \A t \in Connections : query[t] = None => draft'[t] = NoDraft
    <3>1. SUFFICES ASSUME NEW t \in Connections, query[t] = None PROVE draft'[t] = NoDraft
      OBVIOUS
    <3>2. draft[t] = NoDraft
      BY <3>1 DEF Inv, TypeOK
    <3> QED
      BY <1>2, <3>2 DEF NoDraft
  <2> QED
    BY <1>1, <2>1, <2>2, <2>3 DEF Inv, TypeOK
<1>6. Drafted'
  <2>1. SUFFICES ASSUME NEW t \in Connections, NEW j \in Ids
        PROVE  draft'[t][j] = IF Did(t, "update", j) \/ Did(t, "insert_workflow", j)
                              THEN Written(query[t], j, Version(j)') ELSE None
    BY <1>1, <1>4 DEF Inv, Drafted
  <2>2. draft[t][j] = IF Did(t, "update", j) \/ Did(t, "insert_workflow", j)
                      THEN Written(query[t], j, Version(j)) ELSE None
    BY DEF Inv, Drafted
  <2>3. CASE j # i
    <3>1. Version(j)' = Version(j)
      BY <1>1, <1>3, <2>3 DEF Version, TablesOK
    <3>2. draft'[t][j] = draft[t][j]
      BY <1>2, <1>3, <2>3
    <3> QED
      BY <2>2, <3>1, <3>2
  <2>4. CASE j = i /\ ~(Did(t, "update", i) \/ Did(t, "insert_workflow", i))
    BY <1>2, <1>3, <2>2, <2>4
  <2>5. CASE j = i /\ (Did(t, "update", i) \/ Did(t, "insert_workflow", i))
    <3>1. query[t] \in Load
      BY <2>5, QueryTyped DEF Inv, Did
    <3>2. Version(i) \in Row /\ Version(i).locked_until = "future"
      BY <1>1, <1>3, VersionTyped DEF Version
    <3>3. Version(i)' = Lapsed(Version(i))
      <4>1. locked_until'[i] = "past"
        BY <1>1, <1>3 DEF TablesOK
      <4>2. Version(i)' = [status |-> status[i], run_at |-> run_at[i],
                           locked_by |-> locked_by[i], locked_until |-> "past"]
        BY <1>1, <4>1 DEF Version
      <4> QED
        BY <4>2 DEF Version, Lapsed
    <3>4. draft[t][i] = Written(query[t], i, Version(i)) /\ draft[t][i] \in Row /\ draft[t][i] # None
      BY <2>2, <2>5, <3>1, <3>2, WrittenTyped, NullAssumption
    <3>5. draft'[t][i] = IF query[t].name \notin {"claim_next_workflow", "extend_workflow_lock"}
                            /\ draft[t][i].locked_until = "future"
                         THEN Lapsed(draft[t][i]) ELSE draft[t][i]
      BY <1>2, <1>3, <3>4
    <3> QED
      BY <2>5, <3>1, <3>2, <3>3, <3>4, <3>5, WrittenLapsed
  <2> QED
    BY <2>3, <2>4, <2>5
<1>7. \A j \in Ids : Eligible(j) => Eligible(j)'
  BY <1>1, <1>3 DEF Eligible, RunAtReached, LeaseFree, TablesOK
<1>8. ReadsHold'
  BY <1>1, <1>4, <1>7 DEF Inv, ReadsHold, SignalReceived
<1>9. LocksHeld' /\ Exclusion' /\ Progress'
  BY <1>1, <1>4 DEF Inv, LocksHeld, Exclusion, Progress, InTransaction
<1> QED
  BY <1>5, <1>6, <1>8, <1>9 DEF Inv

LEMMA ElapseKeeps ==
  ASSUME Inv, NEW i \in Ids, elapse(i)
  PROVE  Inv'
<1>1. /\ elapsed' = [elapsed EXCEPT ![i] = elapsed[i] \cup {run_at[i]}]
      /\ UNCHANGED <<status, run_at, locked_by, locked_until, events>>
      /\ UNCHANGED <<query, done, held, draft, inserted, count>>
  BY DEF elapse, A!Elapses, A!tables, transactions
<1>2. TablesOK
  BY Types DEF Inv
<1>3. \A t \in Connections : \A w, j : Did(t, w, j)' <=> Did(t, w, j)
  BY <1>1 DEF Did, InTransaction
<1>4. TypeOK'
  <2>1. TablesOK'
    BY <1>1, <1>2 DEF TablesOK
  <2> QED
    BY <1>1, <2>1 DEF Inv, TypeOK
<1>5. \A j \in Ids : Eligible(j) => Eligible(j)'
  BY <1>1, <1>2 DEF Eligible, RunAtReached, LeaseFree, TablesOK
<1>6. ReadsHold'
  BY <1>1, <1>3, <1>5 DEF Inv, ReadsHold, SignalReceived
<1>7. LocksHeld' /\ Exclusion' /\ Progress' /\ Drafted'
  BY <1>1, <1>3 DEF Inv, LocksHeld, Exclusion, Progress, Drafted, InTransaction, Version
<1> QED
  BY <1>4, <1>6, <1>7 DEF Inv

LEMMA UnchangedKeeps == Inv /\ UNCHANGED vars => Inv'
<1> SUFFICES ASSUME Inv, UNCHANGED vars PROVE Inv'
  OBVIOUS
<1>1. UNCHANGED <<status, run_at, locked_by, locked_until, events, elapsed, query, done, held,
                  draft, inserted, count>>
  BY DEF vars, tables, transactions
<1>2. \A t \in Connections : \A w, j : Did(t, w, j)' <=> Did(t, w, j)
  BY <1>1 DEF Did, InTransaction
<1>3. TypeOK'
  BY <1>1 DEF Inv, TypeOK, TablesOK
<1>4. LocksHeld' /\ Exclusion' /\ Progress' /\ Drafted'
  BY <1>1, <1>2 DEF Inv, LocksHeld, Exclusion, Progress, Drafted, InTransaction, Version
<1>5. ReadsHold'
  BY <1>1, <1>2 DEF Inv, ReadsHold, SignalReceived, Eligible, RunAtReached, LeaseFree
<1> QED
  BY <1>3, <1>4, <1>5 DEF Inv

LEMMA NextInv == Inv /\ [Next]_vars => Inv'
<1> SUFFICES ASSUME Inv, [Next]_vars PROVE Inv'
  OBVIOUS
<1>1. CASE \E t \in Connections, q \in Load : begin(t, q)
  BY <1>1, BeginKeeps
<1>2. CASE \E t \in Connections, i \in Ids : Statement(t, i)
  BY <1>2, StatementInv, ReturnsKeeps
<1>3. CASE \E t \in Connections : commit(t)
  BY <1>3, CommitKeeps
<1>4. CASE \E t \in Connections : rollback(t)
  BY <1>4, ReturnsKeeps DEF rollback
<1>5. CASE \E i \in Ids : lapse(i)
  BY <1>5, LapseKeeps
<1>6. CASE \E i \in Ids : elapse(i)
  BY <1>6, ElapseKeeps
<1>7. CASE UNCHANGED vars
  BY <1>7, UnchangedKeeps
<1> QED
  BY <1>1, <1>2, <1>3, <1>4, <1>5, <1>6, <1>7 DEF Next, Step

-----------------------------------------------------------------------------
(***************************************************************************)
(* Every step of a transaction is a step of AtomicQueries or changes no    *)
(* table.                                                                  *)
(***************************************************************************)
LEMMA Fields ==
  ASSUME Inv, NEW t \in Connections, commit(t)
  PROVE  /\ TablesOK /\ TablesOK' /\ elapsed' = elapsed /\ query[t] \in Load
         /\ \A j \in Ids :
              /\ Updates(query[t], j) =>
                   /\ status'[j] = Written(query[t], j, Version(j)).status
                   /\ run_at'[j] = Written(query[t], j, Version(j)).run_at
                   /\ locked_by'[j] = Written(query[t], j, Version(j)).locked_by
                   /\ locked_until'[j] = Written(query[t], j, Version(j)).locked_until
              /\ ~Updates(query[t], j) =>
                   /\ status'[j] = status[j] /\ run_at'[j] = run_at[j]
                   /\ locked_by'[j] = locked_by[j] /\ locked_until'[j] = locked_until[j]
              /\ Inserts(query[t], j) => events'[j] = Append(events[j], EventOf(query[t], j))
              /\ ~Inserts(query[t], j) => events'[j] = events[j]
<1>1. query[t] \in Load
  BY QueryTyped DEF Inv, commit, Complete
<1>2. \A j \in Ids :
        /\ Version(j)'.status = status'[j] /\ Version(j)'.run_at = run_at'[j]
        /\ Version(j)'.locked_by = locked_by'[j] /\ Version(j)'.locked_until = locked_until'[j]
        /\ Version(j).status = status[j] /\ Version(j).run_at = run_at[j]
        /\ Version(j).locked_by = locked_by[j] /\ Version(j).locked_until = locked_until[j]
  BY DEF Version
<1>3. TablesOK /\ TablesOK' /\ elapsed' = elapsed
  BY Types, CommitEffect DEF Inv
<1>4. ASSUME NEW j \in Ids
      PROVE  /\ Version(j)' = IF Updates(query[t], j) THEN Written(query[t], j, Version(j)) ELSE Version(j)
             /\ events'[j] = IF Inserts(query[t], j) THEN Append(events[j], EventOf(query[t], j))
                             ELSE events[j]
  BY CommitEffect
<1>5. ASSUME NEW j \in Ids, Updates(query[t], j)
      PROVE  /\ status'[j] = Written(query[t], j, Version(j)).status
             /\ run_at'[j] = Written(query[t], j, Version(j)).run_at
             /\ locked_by'[j] = Written(query[t], j, Version(j)).locked_by
             /\ locked_until'[j] = Written(query[t], j, Version(j)).locked_until
  BY <1>2, <1>4, <1>5
<1>6. ASSUME NEW j \in Ids, ~Updates(query[t], j)
      PROVE  /\ status'[j] = status[j] /\ run_at'[j] = run_at[j]
             /\ locked_by'[j] = locked_by[j] /\ locked_until'[j] = locked_until[j]
  BY <1>2, <1>4, <1>6
<1> QED
  BY <1>1, <1>3, <1>4, <1>5, <1>6

\* What a complete transaction has read.
LEMMA ReadByThen ==
  ASSUME Inv, NEW t \in Connections, commit(t)
  PROVE  LET q == query[t] IN
         /\ q.name = "create_child_workflow" => status[q.kin] = "absent"
         /\ q.name = "claim_next_workflow" => Eligible(q.id)
         /\ q.name = "mark_workflow_waiting" => ~SignalReceived(q.id, q.key)
<1> DEFINE q == query[t]
<1>1. q \in Load /\ InTransaction(t) /\ done[t] = Len(Statements(q))
  BY QueryTyped DEF Inv, commit, Complete
<1>2. q.id \in Ids /\ (q.name = "create_child_workflow" => q.kin \in Ids)
  BY <1>1, LoadTyped
<1>3. \A w, i : (\E k \in 1..Len(Statements(q)) : Statements(q)[k] = <<w, i>>) => Did(t, w, i)
  BY <1>1 DEF Did
<1>4. ASSUME q.name = "create_child_workflow" PROVE status[q.kin] = "absent"
  <2>1. Statements(q) = <<<<"insert_workflow", q.kin>>, <<"references", q.id>>, Insert(q.kin), Insert(q.id)>>
    BY <1>4 DEF Statements, mark_statements, signal_statements, Endings
  <2>2. Len(Statements(q)) = 4 /\ Statements(q)[1] = <<"insert_workflow", q.kin>>
    BY <2>1
  <2>3. Did(t, "insert_workflow", q.kin)
    BY <1>3, <2>2
  <2> QED
    BY <1>2, <1>4, <2>3 DEF Inv, ReadsHold
<1>5. ASSUME q.name = "claim_next_workflow" PROVE Eligible(q.id)
  <2>1. Statements(q) = <<<<"skip_locked", q.id>>, Set(q.id)>>
    BY <1>5 DEF Statements, mark_statements, signal_statements, Endings
  <2>2. Len(Statements(q)) = 2 /\ Statements(q)[1] = <<"skip_locked", q.id>>
    BY <2>1
  <2>3. Did(t, "skip_locked", q.id)
    BY <1>3, <2>2
  <2> QED
    BY <1>2, <2>3 DEF Inv, ReadsHold
<1>6. ASSUME q.name = "mark_workflow_waiting" PROVE ~SignalReceived(q.id, q.key)
  <2>1. Statements(q) = <<<<"for_update", q.id>>, <<"select_exists", q.id>>, Set(q.id)>>
    BY <1>6 DEF Statements, mark_statements, signal_statements, Endings
  <2>2. Len(Statements(q)) = 3 /\ Statements(q)[2] = <<"select_exists", q.id>>
    BY <2>1
  <2>3. Did(t, "select_exists", q.id)
    BY <1>3, <2>2
  <2> QED
    BY <1>2, <2>3 DEF Inv, ReadsHold
<1> QED
  BY <1>4, <1>5, <1>6

LEMMA CommitTakes ==
  ASSUME Inv, NEW t \in Connections, commit(t)
  PROVE  A!Takes(query[t])
<1> DEFINE q == query[t]
           r(j) == Version(j)
           w(j) == Written(q, j, Version(j))
<1>1. /\ TablesOK /\ TablesOK' /\ q \in Load
      /\ \A j \in Ids :
           /\ Updates(q, j) => /\ status'[j] = w(j).status /\ run_at'[j] = w(j).run_at
                               /\ locked_by'[j] = w(j).locked_by /\ locked_until'[j] = w(j).locked_until
           /\ ~Updates(q, j) => /\ status'[j] = status[j] /\ run_at'[j] = run_at[j]
                                /\ locked_by'[j] = locked_by[j] /\ locked_until'[j] = locked_until[j]
           /\ Inserts(q, j) => events'[j] = Append(events[j], EventOf(q, j))
           /\ ~Inserts(q, j) => events'[j] = events[j]
  BY Fields
<1>2. q.id \in Ids /\ q.kin \in Ids \cup {None} /\ q.kin # q.id /\ q.name \in A!QueryNames /\ None \notin Ids
  BY <1>1, LoadTyped, NullAssumption
<1>3. /\ status \in [Ids -> WorkflowStatus] /\ status' \in [Ids -> WorkflowStatus]
      /\ run_at \in [Ids -> Nat] /\ run_at' \in [Ids -> Nat]
      /\ locked_by \in [Ids -> Slots \cup {None}] /\ locked_by' \in [Ids -> Slots \cup {None}]
      /\ locked_until \in [Ids -> {"null", "past", "future"}]
      /\ locked_until' \in [Ids -> {"null", "past", "future"}]
      /\ events \in [Ids -> Seq(EventRecord)] /\ events' \in [Ids -> Seq(EventRecord)]
  BY <1>1 DEF TablesOK
<1>4. \A j \in Ids : /\ r(j) \in Row /\ r(j).status = status[j] /\ r(j).run_at = run_at[j]
                     /\ r(j).locked_by = locked_by[j] /\ r(j).locked_until = locked_until[j]
  BY <1>1, VersionTyped DEF Version
<1>5. CASE q.name = "create_child_workflow"
  <2>1. q.kin \in Ids /\ status[q.kin] = "absent"
    BY <1>1, <1>5, LoadTyped, ReadByThen
  <2>2. \A j \in Ids : (Updates(q, j) <=> j = q.kin) /\ (Inserts(q, j) <=> j \in {q.id, q.kin})
    BY <1>1, <1>5, Rewritten
  <2>3. w(q.kin) = [r(q.kin) EXCEPT !.status = "running", !.run_at = 0]
    BY <1>5 DEF Written, Endings
  <2>4. /\ EventOf(q, q.kin) = Event("started", 0, q.id, None)
        /\ EventOf(q, q.id) = Event("child_started", q.n, q.kin, q.kin)
    BY <1>2, <1>5 DEF EventOf, Endings
  <2> HIDE DEF q, r, w
  <2>5. /\ w(q.kin).status = "running" /\ w(q.kin).run_at = 0
        /\ w(q.kin).locked_by = locked_by[q.kin] /\ w(q.kin).locked_until = locked_until[q.kin]
    BY <1>4, <2>1, <2>3 DEF Row
  <2>6. status' = [status EXCEPT ![q.kin] = "running"] /\ run_at' = [run_at EXCEPT ![q.kin] = 0]
    BY <1>1, <1>3, <2>1, <2>2, <2>5
  <2>7. locked_by' = locked_by /\ locked_until' = locked_until
    BY <1>1, <1>3, <2>1, <2>2, <2>5
  <2>8. events' = [j \in Ids |-> IF j = q.kin THEN Append(events[j], Event("started", 0, q.id, None))
                                ELSE IF j = q.id THEN Append(events[j], Event("child_started", q.n, q.kin, q.kin))
                                ELSE events[j]]
    BY <1>1, <1>2, <1>3, <2>1, <2>2, <2>4
  <2>9. A!create_child_workflow(q.id, q.kin, q.n)
    BY <2>1, <2>6, <2>7, <2>8 DEF A!create_child_workflow, A!Event, Event
  <2> QED
    BY <1>5, <2>9 DEF A!Takes, q
<1>6. CASE q.name = "claim_next_workflow"
  <2>1. Eligible(q.id)
    BY <1>6, ReadByThen
  <2>2. \A j \in Ids : (Updates(q, j) <=> j = q.id) /\ ~Inserts(q, j)
    BY <1>1, <1>6, Rewritten
  <2>3. w(q.id) = [r(q.id) EXCEPT !.locked_by = q.slot, !.locked_until = "future"]
    BY <1>6 DEF Written, Endings
  <2> HIDE DEF q, r, w
  <2>4. /\ w(q.id).status = status[q.id] /\ w(q.id).run_at = run_at[q.id]
        /\ w(q.id).locked_by = q.slot /\ w(q.id).locked_until = "future"
    BY <1>2, <1>4, <2>3 DEF Row
  <2>5. /\ locked_by' = [locked_by EXCEPT ![q.id] = q.slot]
        /\ locked_until' = [locked_until EXCEPT ![q.id] = "future"]
    BY <1>1, <1>2, <1>3, <2>2, <2>4
  <2>6. status' = status /\ run_at' = run_at /\ events' = events
    BY <1>1, <1>2, <1>3, <2>2, <2>4
  <2>7. A!claim_next_workflow(q.id, q.slot)
    BY <2>1, <2>5, <2>6 DEF A!claim_next_workflow, A!RunAtReached, A!LeaseFree, Eligible, RunAtReached, LeaseFree
  <2> QED
    BY <1>6, <2>7 DEF A!Takes, q
<1>7. CASE q.name = "mark_workflow_waiting"
  <2>1. ~SignalReceived(q.id, q.key)
    BY <1>7, ReadByThen
  <2>2. \A j \in Ids : (Updates(q, j) <=> j = q.id) /\ ~Inserts(q, j)
    BY <1>1, <1>7, Rewritten
  <2>3. w(q.id) = [Unlocked(r(q.id)) EXCEPT !.status = "waiting"]
    BY <1>7 DEF Written, Endings
  <2> HIDE DEF q, r, w
  <2>4. /\ w(q.id).status = "waiting" /\ w(q.id).run_at = run_at[q.id]
        /\ w(q.id).locked_by = None /\ w(q.id).locked_until = "null"
    BY <1>2, <1>4, <2>3 DEF Row, Unlocked
  <2>5. /\ status' = [status EXCEPT ![q.id] = "waiting"]
        /\ locked_by' = [locked_by EXCEPT ![q.id] = None]
        /\ locked_until' = [locked_until EXCEPT ![q.id] = "null"]
    BY <1>1, <1>2, <1>3, <2>2, <2>4
  <2>6. run_at' = run_at /\ events' = events
    BY <1>1, <1>2, <1>3, <2>2, <2>4
  <2>7. ~A!SignalReceived(q.id, q.key)
    BY <2>1 DEF A!SignalReceived, A!IsReceived, SignalReceived, IsReceived
  <2>8. A!mark_workflow_waiting(q.id, q.key)
    BY <2>5, <2>6, <2>7 DEF A!mark_workflow_waiting, A!Unlock
  <2> QED
    BY <1>7, <2>8 DEF A!Takes, q
<1>8. CASE q.name = "update_workflow_run_at"
  <2>1. \A j \in Ids : (Updates(q, j) <=> j = q.id) /\ ~Inserts(q, j)
    BY <1>1, <1>8, Rewritten
  <2>2. w(q.id) = [Unlocked(r(q.id)) EXCEPT !.run_at = q.n]
    BY <1>8 DEF Written, Endings
  <2> HIDE DEF q, r, w
  <2>3. /\ w(q.id).status = status[q.id] /\ w(q.id).run_at = q.n
        /\ w(q.id).locked_by = None /\ w(q.id).locked_until = "null"
    BY <1>2, <1>4, <2>2 DEF Row, Unlocked
  <2>4. /\ run_at' = [run_at EXCEPT ![q.id] = q.n]
        /\ locked_by' = [locked_by EXCEPT ![q.id] = None]
        /\ locked_until' = [locked_until EXCEPT ![q.id] = "null"]
    BY <1>1, <1>2, <1>3, <2>1, <2>3
  <2>5. status' = status /\ events' = events
    BY <1>1, <1>2, <1>3, <2>1, <2>3
  <2>6. A!update_workflow_run_at(q.id, q.n)
    BY <2>4, <2>5 DEF A!update_workflow_run_at, A!Unlock
  <2> QED
    BY <1>8, <2>6 DEF A!Takes, q
<1>9. CASE q.name = "extend_workflow_lock"
  <2>1. \A j \in Ids : (Updates(q, j) <=> j = q.id) /\ ~Inserts(q, j)
    BY <1>1, <1>9, Rewritten
  <2>2. w(q.id) = [r(q.id) EXCEPT !.locked_until = "future"]
    BY <1>9 DEF Written, Endings
  <2> HIDE DEF q, r, w
  <2>3. /\ w(q.id).status = status[q.id] /\ w(q.id).run_at = run_at[q.id]
        /\ w(q.id).locked_by = locked_by[q.id] /\ w(q.id).locked_until = "future"
    BY <1>2, <1>4, <2>2 DEF Row
  <2>4. /\ locked_until' = [locked_until EXCEPT ![q.id] = "future"]
        /\ status' = status /\ run_at' = run_at /\ locked_by' = locked_by /\ events' = events
    BY <1>1, <1>2, <1>3, <2>1, <2>3
  <2>5. A!extend_workflow_lock(q.id)
    BY <2>4 DEF A!extend_workflow_lock
  <2> QED
    BY <1>9, <2>5 DEF A!Takes, q
<1>10. CASE q.name = "write_event"
  <2>1. \A j \in Ids : ~Updates(q, j) /\ (Inserts(q, j) <=> j = q.id)
    BY <1>1, <1>10, Rewritten
  <2>2. EventOf(q, q.id) = q.event
    BY <1>10 DEF EventOf, Endings
  <2> HIDE DEF q, r, w
  <2>3. events' = [events EXCEPT ![q.id] = Append(events[q.id], q.event)]
    BY <1>1, <1>2, <1>3, <2>1, <2>2
  <2>4. status' = status /\ run_at' = run_at /\ locked_by' = locked_by /\ locked_until' = locked_until
    BY <1>1, <1>3, <2>1
  <2>5. A!write_event(q.id, q.event)
    BY <2>3, <2>4 DEF A!write_event, A!Appended, A!rows
  <2> QED
    BY <1>10, <2>5 DEF A!Takes, q
<1>11. CASE q.name = "write_signal_and_wake_workflow"
  <2>1. \A j \in Ids : (Updates(q, j) <=> j = q.id) /\ (Inserts(q, j) <=> j = q.id)
    BY <1>1, <1>11, Rewritten
  <2>2. w(q.id) = [r(q.id) EXCEPT !.status = "running", !.run_at = 0]
    BY <1>11 DEF Written, Endings
  <2>3. EventOf(q, q.id) = q.event
    BY <1>11 DEF EventOf, Endings
  <2>4. q.event = A!Event("signal", 0, q.event.key, q.event.val)
    BY <1>1, <1>11, TransactionsAssumption DEF A!WellFormed
  <2> HIDE DEF q, r, w
  <2>5. /\ w(q.id).status = "running" /\ w(q.id).run_at = 0
        /\ w(q.id).locked_by = locked_by[q.id] /\ w(q.id).locked_until = locked_until[q.id]
    BY <1>2, <1>4, <2>2 DEF Row
  <2>6. events' = [events EXCEPT ![q.id] = Append(events[q.id], q.event)]
    BY <1>1, <1>2, <1>3, <2>1, <2>3
  <2>7. /\ status' = [status EXCEPT ![q.id] = "running"] /\ run_at' = [run_at EXCEPT ![q.id] = 0]
        /\ locked_by' = locked_by /\ locked_until' = locked_until
    BY <1>1, <1>2, <1>3, <2>1, <2>5
  <2>8. A!write_signal_and_wake_workflow(q.id, q.event.key, q.event.val)
    BY <2>4, <2>6, <2>7 DEF A!write_signal_and_wake_workflow, A!Appended
  <2> QED
    BY <1>11, <2>8 DEF A!Takes, q
<1>12. CASE q.name \in Endings
  <2> DEFINE final == IF q.name = "complete_workflow" THEN "completed" ELSE "failed"
             type == IF q.name = "complete_workflow" THEN "workflow_completed" ELSE "workflow_failed"
             outcome == IF q.name = "complete_workflow" THEN Done ELSE Failed
  <2>1. \A j \in Ids : (Updates(q, j) <=> j \in {q.id, q.kin}) /\ (Inserts(q, j) <=> j \in {q.id, q.kin})
    BY <1>1, <1>12, Rewritten
  <2>2. w(q.id) = [Unlocked(r(q.id)) EXCEPT !.status = final]
    BY <1>12 DEF Written, Endings
  <2>3. q.kin \in Ids => w(q.kin) = [r(q.kin) EXCEPT !.status = "running", !.run_at = 0]
    BY <1>2, <1>12 DEF Written, Endings
  <2>4. /\ EventOf(q, q.id) = Event(type, 0, None, None)
        /\ q.kin \in Ids => EventOf(q, q.kin) = Event("signal", 0, q.id, outcome)
    BY <1>2, <1>12 DEF EventOf, Endings
  <2> HIDE DEF q, r, w
  <2>5. /\ w(q.id).status = final /\ w(q.id).run_at = run_at[q.id]
        /\ w(q.id).locked_by = None /\ w(q.id).locked_until = "null"
    BY <1>2, <1>4, <2>2 DEF Row, Unlocked
  <2>6. q.kin \in Ids =>
          /\ w(q.kin).status = "running" /\ w(q.kin).run_at = 0
          /\ w(q.kin).locked_by = locked_by[q.kin] /\ w(q.kin).locked_until = locked_until[q.kin]
    BY <1>4, <2>3 DEF Row
  <2> HIDE DEF final, type, outcome
  <2>7. events' = [j \in Ids |-> IF j = q.id THEN Append(events[j], Event(type, 0, None, None))
                                ELSE IF j = q.kin THEN Append(events[j], Event("signal", 0, q.id, outcome))
                                ELSE events[j]]
    BY <1>1, <1>2, <1>3, <2>1, <2>4
  <2>8. status' = [j \in Ids |-> IF j = q.id THEN final ELSE IF j = q.kin THEN "running" ELSE status[j]]
    BY <1>1, <1>2, <1>3, <2>1, <2>5, <2>6
  <2>9. run_at' = [j \in Ids |-> IF j = q.kin THEN 0 ELSE run_at[j]]
    BY <1>1, <1>2, <1>3, <2>1, <2>5, <2>6
  <2>10. /\ locked_by' = [locked_by EXCEPT ![q.id] = None]
         /\ locked_until' = [locked_until EXCEPT ![q.id] = "null"]
    BY <1>1, <1>2, <1>3, <2>1, <2>5, <2>6
  <2>11. A!write_terminal_workflow_event(q.id, type, final, q.kin, outcome)
    BY <2>7, <2>8, <2>9, <2>10 DEF A!write_terminal_workflow_event, A!Event, Event, A!Unlock
  <2>12. CASE q.name = "complete_workflow"
    BY <2>11, <2>12 DEF A!Takes, A!complete_workflow, type, final, outcome, q
  <2>13. CASE q.name = "fail_workflow"
    BY <2>11, <2>13 DEF A!Takes, A!fail_workflow, type, final, outcome, q
  <2> QED
    BY <1>12, <2>12, <2>13 DEF Endings
<1> QED
  BY <1>2, <1>5, <1>6, <1>7, <1>8, <1>9, <1>10, <1>11, <1>12 DEF A!QueryNames, Endings

LEMMA StatementStutters ==
  ASSUME NEW t \in Connections, NEW i \in Ids, Statement(t, i)
  PROVE  UNCHANGED <<tables, elapsed>>
BY DEF Statement, insert_event, insert_workflow, check_reference, update, select_for_update,
       select_exists, select_skip_locked, Executed, Returns

LEMMA StepRefines ==
  ASSUME Inv, [Next]_vars
  PROVE  [A!Next]_<<A!tables, elapsed>>
<1> USE DEF A!tables, tables
<1>1. CASE \E t \in Connections, q \in Load : begin(t, q)
  BY <1>1 DEF begin
<1>2. CASE \E t \in Connections, i \in Ids : Statement(t, i)
  BY <1>2, StatementStutters
<1>3. CASE \E t \in Connections : commit(t)
  <2>1. PICK t \in Connections : commit(t)
    BY <1>3
  <2>2. query[t] \in Load /\ A!Takes(query[t]) /\ UNCHANGED elapsed
    BY <2>1, CommitTakes, Fields
  <2> QED
    BY <2>2 DEF A!Next
<1>4. CASE \E t \in Connections : rollback(t)
  BY <1>4 DEF rollback, Returns
<1>5. CASE \E i \in Ids : lapse(i) \/ elapse(i)
  BY <1>5 DEF lapse, elapse, A!Next
<1>6. CASE UNCHANGED vars
  BY <1>6 DEF vars
<1> QED
  BY <1>1, <1>2, <1>3, <1>4, <1>5, <1>6 DEF Next, Step

-----------------------------------------------------------------------------
\* However the statements of queries.py interleave under READ COMMITTED, with
\* connections that break at any point, the tables change as if each query took
\* effect at one instant.
THEOREM TransactionsAreAtomic == Spec => Atomic
<1>1. Init => A!Init
  BY DEF Init
<1>2. Inv /\ [Next]_vars => [A!Next]_<<A!tables, elapsed>>
  BY StepRefines
<1> QED
  BY <1>1, <1>2, InitInv, NextInv, PTL DEF Spec, Atomic, A!Spec

\* The type invariant of the transactions.
THEOREM TransactionsTyped == Spec => []TypeOK
<1>1. Inv => TypeOK
  BY DEF Inv
<1> QED
  BY <1>1, InitInv, NextInv, PTL DEF Spec

-----------------------------------------------------------------------------
(***************************************************************************)
(* No deadlock.  Queries lock the workflow's row before its parent's, so a *)
(* chain of transactions that wait for each other climbs from children to  *)
(* parents, and the ids of children extend those of their parents.         *)
(***************************************************************************)
ModeOf(what) ==
  CASE what \in {"insert_event", "references"} -> KeyShare
    [] what = "update" -> NoKeyUpdate
    [] OTHER -> Update

\* A look-up takes no lock, SKIP LOCKED passes over a row that is locked.
Blocking == Whats \ {"select_exists", "skip_locked"}

\* The next statement of t needs a lock on row i that what u holds excludes.
BlockedBy(t, u, i) ==
  /\ u # t
  /\ \E what \in Blocking : Runs(t, what, i) /\ ~Compatible(ModeOf(what), held[u][i])

\* No connections wait for each other in a circle.
NoDeadlock ==
  \A C \in (SUBSET Connections) \ {{}} :
    \E t \in C : \A u \in C, i \in Ids : ~BlockedBy(t, u, i)

\* t can commit, or execute its next statement.
Ready(t) ==
  \/ Complete(t)
  \/ \E what \in Whats, i \in Ids :
       /\ Runs(t, what, i)
       /\ what \in Blocking => Granted(t, i, ModeOf(what))

\* While a transaction is under way, one of them can go on.
NoStandstill ==
  (\E t \in Connections : InTransaction(t)) => \E t \in Connections : Ready(t)

\* Children are below their parents: children.py makes the id of a child from its
\* parent's and the step that spawns it.
Nested ==
  \E depth \in [Ids -> Nat] : \A q \in Load :
    q.name \in Endings /\ q.kin # None => depth[q.kin] < depth[q.id]

\* A lock that is held has been taken by a statement that takes it.
LocksEarned ==
  \A t \in Connections, i \in Ids :
    /\ held[t][i] # NoLock => \E what \in Whats : Did(t, what, i)
    /\ held[t][i] = NoKeyUpdate => Did(t, "update", i)
    /\ held[t][i] = Update =>
         \E what \in {"insert_workflow", "for_update", "skip_locked"} : Did(t, what, i)

\* The rows a transaction updates are in the table, the one it creates excepted.
RowsPresent ==
  \A t \in Connections : InTransaction(t) =>
    /\ status[query[t].id] # "absent"
    /\ query[t].name \in Endings /\ query[t].kin # None => status[query[t].kin] # "absent"

\* A statement takes the lock of its kind, or none and reads only.
LEMMA Acquires ==
  ASSUME NEW t \in Connections, NEW i \in Ids, Statement(t, i)
  PROVE  \/ Returns(t)
         \/ \E what \in Whats :
              /\ Runs(t, what, i) /\ Executed(t)
              /\ IF what = "select_exists" THEN UNCHANGED held ELSE Locks(t, i, ModeOf(what))
<1> USE DEF Whats, ModeOf
<1>1. CASE insert_event(t, i)
  BY <1>1 DEF insert_event
<1>2. CASE insert_workflow(t, i)
  BY <1>2 DEF insert_workflow
<1>3. CASE check_reference(t, i)
  BY <1>3 DEF check_reference
<1>4. CASE update(t, i)
  BY <1>4 DEF update
<1>5. CASE select_for_update(t, i)
  BY <1>5 DEF select_for_update
<1>6. CASE select_exists(t, i)
  BY <1>6 DEF select_exists
<1>7. CASE select_skip_locked(t, i)
  BY <1>7 DEF select_skip_locked
<1> QED
  BY <1>1, <1>2, <1>3, <1>4, <1>5, <1>6, <1>7 DEF Statement

LEMMA ReturnsEarned ==
  ASSUME Inv, LocksEarned, NEW t \in Connections, Over(t)
  PROVE  LocksEarned'
<1>1. /\ \A u \in Connections \ {t} : \A w, j : Did(u, w, j)' <=> Did(u, w, j)
      /\ \A u \in Connections \ {t} : held'[u] = held[u]
      /\ held'[t] = NoLocks
  BY Ending_ DEF Inv
<1>2. \A i \in Ids : held'[t][i] = 0
  BY <1>1 DEF NoLocks, NoLock
<1> QED
  BY <1>1, <1>2 DEF LocksEarned, NoLock, KeyShare, NoKeyUpdate, Update

LEMMA StatementEarned ==
  ASSUME Inv, LocksEarned, NEW t \in Connections, NEW i \in Ids, Statement(t, i)
  PROVE  LocksEarned'
<1> USE DEF NoLock, KeyShare, NoKeyUpdate, Update
<1>1. CASE Returns(t)
  BY <1>1, ReturnsEarned DEF Returns
<1>2. ASSUME NEW what \in Whats, Runs(t, what, i), Executed(t),
             IF what = "select_exists" THEN UNCHANGED held ELSE Locks(t, i, ModeOf(what))
      PROVE  LocksEarned'
  <2>1. \A u \in Connections, w \in Whats, j \in Ids :
          Did(u, w, j)' <=> Did(u, w, j) \/ (u = t /\ w = what /\ j = i)
    BY <1>2, Executing DEF Inv
  <2>2. held \in [Connections -> [Ids -> 0..3]]
    BY Types DEF Inv, Modes
  <2>3. SUFFICES ASSUME NEW u \in Connections, NEW j \in Ids
        PROVE  /\ held'[u][j] # 0 => \E w \in Whats : Did(u, w, j)'
               /\ held'[u][j] = 2 => Did(u, "update", j)'
               /\ held'[u][j] = 3 =>
                    \E w \in {"insert_workflow", "for_update", "skip_locked"} : Did(u, w, j)'
    BY DEF LocksEarned
  <2>4. /\ held[u][j] # 0 => \E w \in Whats : Did(u, w, j)
        /\ held[u][j] = 2 => Did(u, "update", j)
        /\ held[u][j] = 3 =>
             \E w \in {"insert_workflow", "for_update", "skip_locked"} : Did(u, w, j)
    BY DEF LocksEarned
  <2>5. CASE held'[u][j] = held[u][j]
    BY <2>1, <2>4, <2>5 DEF Whats
  <2>6. CASE held'[u][j] # held[u][j]
    <3>1. what # "select_exists" /\ Locks(t, i, ModeOf(what))
      BY <1>2, <2>6
    <3>2. u = t /\ j = i /\ held'[t][i] = ModeOf(what)
      BY <2>2, <2>6, <3>1 DEF Locks, Stronger
    <3>3. /\ what \in {"insert_event", "references"} => ModeOf(what) = 1
          /\ what = "update" => ModeOf(what) = 2
          /\ what \in {"insert_workflow", "for_update", "skip_locked"} => ModeOf(what) = 3
      BY DEF ModeOf
    <3> QED
      BY <2>1, <3>1, <3>2, <3>3 DEF Whats
  <2> QED
    BY <2>5, <2>6
<1> QED
  BY <1>1, <1>2, Acquires

LEMMA EarnedKept == Inv /\ LocksEarned /\ [Next]_vars => LocksEarned'
<1> SUFFICES ASSUME Inv, LocksEarned, [Next]_vars PROVE LocksEarned'
  OBVIOUS
<1>1. CASE \E t \in Connections, q \in Load : begin(t, q)
  <2>1. PICK t \in Connections, q \in Load : begin(t, q)
    BY <1>1
  <2>2. /\ query[t] = None /\ query' = [query EXCEPT ![t] = q]
        /\ UNCHANGED <<done, held>>
    BY <2>1 DEF begin
  <2>3. query \in [Connections -> Load \cup {None}] /\ done[t] = 0
    BY <2>2, Types DEF Inv, TypeOK
  <2>4. \A u \in Connections : \A w, i : Did(u, w, i) => Did(u, w, i)'
    BY <2>2, <2>3 DEF Did, InTransaction
  <2> QED
    BY <2>2, <2>4 DEF LocksEarned
<1>2. CASE \E t \in Connections, i \in Ids : Statement(t, i)
  BY <1>2, StatementEarned
<1>3. CASE \E t \in Connections : commit(t) \/ rollback(t)
  BY <1>3, ReturnsEarned DEF commit, rollback, Returns
<1>4. CASE UNCHANGED <<query, done, held>>
  <2>1. \A u \in Connections : \A w, i : Did(u, w, i)' <=> Did(u, w, i)
    BY <1>4 DEF Did, InTransaction
  <2> QED
    BY <1>4, <2>1 DEF LocksEarned
<1>5. CASE \E i \in Ids : lapse(i) \/ elapse(i)
  BY <1>4, <1>5 DEF lapse, elapse, transactions
<1>6. CASE UNCHANGED vars
  BY <1>4, <1>6 DEF vars, transactions
<1> QED
  BY <1>1, <1>2, <1>3, <1>5, <1>6 DEF Next, Step

\* No query takes a row out of the table.
LEMMA WrittenPresent ==
  ASSUME NEW q \in Load, NEW i \in Ids, NEW r \in Row, r.status # "absent"
  PROVE  Written(q, i, r).status # "absent"
<1>1. q.name \in A!QueryNames
  BY LoadTyped
<1> QED
  BY <1>1 DEF Written, Unlocked, Row, A!QueryNames, Endings

LEMMA RowsStay ==
  ASSUME Inv, [Next]_vars, NEW i \in Ids, status[i] # "absent"
  PROVE  status'[i] # "absent"
<1>1. CASE \E t \in Connections : commit(t)
  <2>1. PICK t \in Connections : commit(t)
    BY <1>1
  <2>2. query[t] \in Load
    BY <2>1, QueryTyped DEF Inv, commit, Complete
  <2>3. Version(i) \in Row /\ Version(i).status # "absent"
    BY Types, VersionTyped DEF Inv, Version
  <2>4. Version(i)'.status # "absent"
    BY <2>1, <2>2, <2>3, CommitEffect, WrittenPresent
  <2> QED
    BY <2>4 DEF Version
<1>2. CASE UNCHANGED status
  BY <1>2
<1>3. CASE \E t \in Connections : rollback(t) \/ \E q \in Load : begin(t, q)
  BY <1>2, <1>3 DEF rollback, Returns, begin, tables
<1>4. CASE \E t \in Connections, j \in Ids : Statement(t, j)
  BY <1>2, <1>4, StatementStutters DEF tables
<1>5. CASE \E j \in Ids : lapse(j) \/ elapse(j)
  BY <1>2, <1>5 DEF lapse, elapse, A!Lapses, A!Elapses, A!tables
<1>6. CASE UNCHANGED vars
  BY <1>2, <1>6 DEF vars, tables
<1> QED
  BY <1>1, <1>3, <1>4, <1>5, <1>6 DEF Next, Step

\* A connection that goes on keeps its query.
LEMMA QueryKept ==
  ASSUME Inv, [Next]_vars, NEW t \in Connections, InTransaction(t)'
  PROVE  \/ InTransaction(t) /\ query'[t] = query[t]
         \/ \E q \in Load : begin(t, q) /\ query'[t] = q
<1>0. query \in [Connections -> Load \cup {None}]
  BY Types DEF Inv
<1>1. CASE \E u \in Connections : Over(u)
  BY <1>0, <1>1 DEF Over, InTransaction
<1>2. CASE UNCHANGED query
  BY <1>2 DEF InTransaction
<1>3. CASE \E u \in Connections, q \in Load : begin(u, q)
  BY <1>0, <1>3 DEF begin, InTransaction
<1>4. CASE \E u \in Connections, i \in Ids : Statement(u, i)
  BY <1>1, <1>2, <1>4, Acquires DEF Returns, Executed
<1>5. CASE \E u \in Connections : commit(u) \/ rollback(u)
  BY <1>1, <1>5 DEF commit, rollback, Returns
<1>6. CASE \E i \in Ids : lapse(i) \/ elapse(i)
  BY <1>2, <1>6 DEF lapse, elapse, transactions
<1>7. CASE UNCHANGED vars
  BY <1>2, <1>7 DEF vars, transactions
<1> QED
  BY <1>3, <1>4, <1>5, <1>6, <1>7 DEF Next, Step

LEMMA PresentKept == Inv /\ RowsPresent /\ [Next]_vars => RowsPresent'
<1> SUFFICES ASSUME Inv, RowsPresent, [Next]_vars, NEW t \in Connections, InTransaction(t)'
             PROVE  /\ status'[query'[t].id] # "absent"
                    /\ query'[t].name \in Endings /\ query'[t].kin # None =>
                         status'[query'[t].kin] # "absent"
  BY DEF RowsPresent
<1>1. \A i \in Ids : status[i] # "absent" => status'[i] # "absent"
  BY RowsStay
<1>2. CASE InTransaction(t) /\ query'[t] = query[t]
  <2>1. query[t].id \in Ids /\ query[t].kin \in Ids \cup {None}
    BY <1>2, QueryTyped, LoadTyped DEF Inv
  <2> QED
    BY <1>1, <1>2, <2>1 DEF RowsPresent
<1>3. CASE \E q \in Load : begin(t, q) /\ query'[t] = q
  <2>1. PICK q \in Load : begin(t, q) /\ query'[t] = q
    BY <1>3
  <2>2. q.id \in Ids /\ q.kin \in Ids \cup {None}
    BY LoadTyped
  <2> QED
    BY <1>1, <2>1, <2>2 DEF begin
<1> QED
  BY <1>2, <1>3, QueryKept

\* What a query executes, by the rows it is about: only create_child_workflow is
\* about a row that need not be there, a lock that excludes everything comes first
\* and is on the only row, and only an ending goes on after an UPDATE, to its parent.
LEMMA RowsOfStatements ==
  ASSUME NEW q \in Load
  PROVE  \A k \in 1..Len(Statements(q)), what \in Whats, i \in Ids :
           Statements(q)[k] = <<what, i>> =>
             /\ \/ i = q.id
                \/ i = q.kin /\ q.name \in Endings /\ q.kin # None
                \/ i = q.kin /\ Statements(q)[1] = <<"insert_workflow", i>>
             /\ what = "insert_workflow" => k = 1
             /\ what \in {"for_update", "skip_locked"} =>
                  /\ k = 1
                  /\ \A m \in 2..Len(Statements(q)) :
                       Statements(q)[m] \in {<<"select_exists", i>>, <<"update", i>>}
             /\ what = "update" /\ k < Len(Statements(q)) =>
                  /\ q.name \in Endings /\ q.kin # None /\ i = q.id
                  /\ \A m \in (k + 1)..Len(Statements(q)) :
                       Statements(q)[m] \in {<<"insert_event", q.kin>>, <<"update", q.kin>>}
<1> DEFINE S == Statements(q)
<1> HIDE DEF S
<1> DEFINE Rows(k, i) ==
             \/ i = q.id
             \/ i = q.kin /\ q.name \in Endings /\ q.kin # None
             \/ i = q.kin /\ S[1] = <<"insert_workflow", i>>
           First(k, what, i) ==
             /\ what = "insert_workflow" => k = 1
             /\ what \in {"for_update", "skip_locked"} =>
                  /\ k = 1
                  /\ \A m \in 2..Len(S) : S[m] \in {<<"select_exists", i>>, <<"update", i>>}
           Climbs(k, what, i) ==
             what = "update" /\ k < Len(S) =>
               /\ q.name \in Endings /\ q.kin # None /\ i = q.id
               /\ \A m \in (k + 1)..Len(S) :
                    S[m] \in {<<"insert_event", q.kin>>, <<"update", q.kin>>}
<1> SUFFICES ASSUME NEW k \in 1..Len(S), NEW what \in Whats, NEW i \in Ids, S[k] = <<what, i>>
             PROVE  Rows(k, i) /\ First(k, what, i) /\ Climbs(k, what, i)
  BY DEF S
<1>0. q.id \in Ids /\ q.kin \in Ids \cup {None} /\ q.kin # q.id /\ q.name \in A!QueryNames
  BY LoadTyped
<1>1. CASE q.name = "create_child_workflow"
  <2>1. S = <<<<"insert_workflow", q.kin>>, <<"references", q.id>>, <<"insert_event", q.kin>>, <<"insert_event", q.id>>>>
    BY <1>1 DEF S, Statements, Insert, Set, mark_statements, signal_statements, Endings
  <2>2. Rows(k, i)
    BY <1>0, <1>1, <2>1
  <2>3. First(k, what, i)
    BY <1>0, <1>1, <2>1
  <2>4. Climbs(k, what, i)
    BY <1>0, <1>1, <2>1
  <2> QED
    BY <2>2, <2>3, <2>4
<1>2. CASE q.name = "claim_next_workflow"
  <2>1. S = <<<<"skip_locked", q.id>>, <<"update", q.id>>>>
    BY <1>2 DEF S, Statements, Insert, Set, mark_statements, signal_statements, Endings
  <2>2. Rows(k, i)
    BY <1>0, <1>2, <2>1
  <2>3. First(k, what, i)
    BY <1>0, <1>2, <2>1
  <2>4. Climbs(k, what, i)
    BY <1>0, <1>2, <2>1
  <2> QED
    BY <2>2, <2>3, <2>4
<1>3. CASE q.name = "mark_workflow_waiting"
  <2>1. S = <<<<"for_update", q.id>>, <<"select_exists", q.id>>, <<"update", q.id>>>>
    BY <1>3 DEF S, Statements, Insert, Set, mark_statements, signal_statements, Endings
  <2>2. Rows(k, i)
    BY <1>0, <1>3, <2>1
  <2>3. First(k, what, i)
    BY <1>0, <1>3, <2>1
  <2>4. Climbs(k, what, i)
    BY <1>0, <1>3, <2>1
  <2> QED
    BY <2>2, <2>3, <2>4
<1>4. CASE q.name \in {"update_workflow_run_at", "extend_workflow_lock"}
  <2>1. S = <<<<"update", q.id>>>>
    BY <1>4 DEF S, Statements, Insert, Set, mark_statements, signal_statements, Endings
  <2>2. Rows(k, i)
    BY <1>0, <1>4, <2>1
  <2>3. First(k, what, i)
    BY <1>0, <1>4, <2>1
  <2>4. Climbs(k, what, i)
    BY <1>0, <1>4, <2>1
  <2> QED
    BY <2>2, <2>3, <2>4
<1>5. CASE q.name = "write_event"
  <2>1. S = <<<<"insert_event", q.id>>>>
    BY <1>5 DEF S, Statements, Insert, Set, mark_statements, signal_statements, Endings
  <2>2. Rows(k, i)
    BY <1>0, <1>5, <2>1
  <2>3. First(k, what, i)
    BY <1>0, <1>5, <2>1
  <2>4. Climbs(k, what, i)
    BY <1>0, <1>5, <2>1
  <2> QED
    BY <2>2, <2>3, <2>4
<1>6. CASE q.name = "write_signal_and_wake_workflow" \/ (q.name \in Endings /\ q.kin = None)
  <2>1. S = <<<<"insert_event", q.id>>, <<"update", q.id>>>>
    BY <1>6 DEF S, Statements, Insert, Set, mark_statements, signal_statements, Endings
  <2>2. Rows(k, i)
    BY <1>0, <1>6, <2>1
  <2>3. First(k, what, i)
    BY <1>0, <1>6, <2>1
  <2>4. Climbs(k, what, i)
    BY <1>0, <1>6, <2>1
  <2> QED
    BY <2>2, <2>3, <2>4
<1>7. CASE q.name \in Endings /\ q.kin # None
  <2>1. S = <<<<"insert_event", q.id>>, <<"update", q.id>>, <<"insert_event", q.kin>>, <<"update", q.kin>>>>
    BY <1>7 DEF S, Statements, Insert, Set, mark_statements, signal_statements, Endings
  <2>2. Rows(k, i)
    BY <1>0, <1>7, <2>1
  <2>3. First(k, what, i)
    BY <1>0, <1>7, <2>1
  <2>4. Climbs(k, what, i)
    BY <1>0, <1>7, <2>1
  <2> QED
    BY <2>2, <2>3, <2>4
<1> QED
  BY <1>0, <1>1, <1>2, <1>3, <1>4, <1>5, <1>6, <1>7 DEF A!QueryNames, Endings

\* A connection that waits while it holds a lock, for one that waits in turn: the
\* second has locked its own workflow's row and waits for the parent's.
LEMMA WaitsClimb ==
  ASSUME Inv, LocksEarned, RowsPresent, NEW t \in Connections, NEW u \in Connections,
         NEW v \in Connections, NEW i \in Ids, NEW j \in Ids, NEW l \in Ids,
         held[t][l] # NoLock, BlockedBy(t, u, i), BlockedBy(u, v, j)
  PROVE  query[u] \in Load /\ query[u].name \in Endings /\ query[u].kin # None
         /\ query[u].id = i /\ query[u].kin = j
<1> USE DEF NoLock, KeyShare, NoKeyUpdate, Update
<1> DEFINE q == query[t]
           p == query[u]
<1>1. PICK what \in Blocking : Runs(t, what, i) /\ ~Compatible(ModeOf(what), held[u][i])
  BY DEF BlockedBy
<1>2. PICK next \in Blocking : Runs(u, next, j) /\ ~Compatible(ModeOf(next), held[v][j])
  BY DEF BlockedBy
<1>3. /\ held \in [Connections -> [Ids -> 0..3]] /\ t # u /\ u # v
      /\ what \in Whats /\ next \in Whats
  BY Types DEF Inv, Modes, BlockedBy, Blocking
<1>4. /\ q \in Load /\ done[t] \in Nat /\ done[t] < Len(Statements(q)) /\ InTransaction(t)
      /\ Statements(q)[done[t] + 1] = <<what, i>>
      /\ p \in Load /\ done[u] \in Nat /\ done[u] < Len(Statements(p)) /\ InTransaction(u)
      /\ Statements(p)[done[u] + 1] = <<next, j>>
  BY <1>1, <1>2, QueryTyped DEF Inv, Runs
<1>5. Len(Statements(q)) \in Nat /\ Len(Statements(p)) \in Nat
  BY <1>4, StatementsShape
<1> HIDE DEF q, p
<1>6. done[t] >= 1
  <2>1. PICK w \in Whats : Did(t, w, l)
    BY <1>3 DEF LocksEarned
  <2>2. PICK k \in 1..done[t] : TRUE
    BY <2>1 DEF Did
  <2> QED
    BY <1>4, <2>2
<1>7. what \in {"insert_event", "references", "update"} /\ ModeOf(what) \in {1, 2}
  <2>1. PICK n \in 1..Len(Statements(q)) : n = done[t] + 1
    BY <1>4, <1>5
  <2>2. Statements(q)[n] = <<what, i>> /\ n # 1
    BY <1>4, <1>6, <2>1
  <2>3. what \notin {"insert_workflow", "for_update", "skip_locked"}
    BY <1>3, <1>4, <2>2, RowsOfStatements
  <2> QED
    BY <1>1, <2>3 DEF Blocking, Whats, ModeOf
<1>8. held[u][i] \in {2, 3}
  BY <1>1, <1>3, <1>7 DEF Compatible
<1>9. held[u][i] # 3
  <2>1. SUFFICES ASSUME held[u][i] = 3 PROVE FALSE
    OBVIOUS
  <2>2. PICK w \in {"insert_workflow", "for_update", "skip_locked"} : Did(u, w, i)
    BY <2>1 DEF LocksEarned
  <2>3. PICK k \in 1..done[u] : Statements(p)[k] = <<w, i>>
    BY <2>2 DEF Did, p
  <2>4. k \in 1..Len(Statements(p)) /\ w \in Whats
    BY <1>4, <1>5, <2>3 DEF Whats
  <2>5. CASE w \in {"for_update", "skip_locked"}
    <3>1. done[u] + 1 \in 2..Len(Statements(p))
      BY <1>4, <1>5, <2>3
    <3>2. next = "update" /\ j = i
      BY <1>2, <1>4, <2>3, <2>4, <2>5, <3>1, RowsOfStatements DEF Blocking
    <3>3. held[u][i] + held[v][i] < 4
      BY <1>3 DEF Inv, Exclusion, Compatible
    <3>4. ModeOf(next) = 2
      BY <3>2 DEF ModeOf
    <3> QED
      BY <1>2, <1>3, <2>1, <3>2, <3>3, <3>4 DEF Compatible
  <2>6. CASE w = "insert_workflow"
    <3>1. status[i] = "absent"
      BY <2>2, <2>6 DEF Inv, ReadsHold
    <3>2. PICK n \in 1..Len(Statements(q)) : Statements(q)[n] = <<what, i>>
      <4>1. done[t] + 1 \in 1..Len(Statements(q))
        BY <1>4, <1>5
      <4> QED
        BY <1>4, <4>1
    <3>3. \/ i = q.id
          \/ i = q.kin /\ q.name \in Endings /\ q.kin # None
          \/ i = q.kin /\ Statements(q)[1] = <<"insert_workflow", i>>
      BY <1>3, <1>4, <3>2, RowsOfStatements
    <3>4. Statements(q)[1] = <<"insert_workflow", i>>
      BY <1>4, <3>1, <3>3 DEF RowsPresent, q
    <3>5. Did(t, "insert_workflow", i)
      <4>1. 1 \in 1..done[t]
        BY <1>4, <1>6
      <4> QED
        BY <1>4, <3>4, <4>1 DEF Did, q
    <3>6. held[t][i] = 3
      BY <3>5 DEF Inv, LocksHeld
    <3>7. held[t][i] + held[u][i] < 4
      BY <1>3 DEF Inv, Exclusion, Compatible
    <3> QED
      BY <2>1, <3>6, <3>7
  <2> QED
    BY <2>5, <2>6
<1>10. Did(u, "update", i)
  BY <1>8, <1>9 DEF LocksEarned
<1>11. PICK k \in 1..done[u] : Statements(p)[k] = <<"update", i>>
  BY <1>10 DEF Did, p
<1>12. /\ k \in 1..Len(Statements(p)) /\ k < Len(Statements(p))
       /\ done[u] + 1 \in (k + 1)..Len(Statements(p)) /\ "update" \in Whats
  BY <1>4, <1>5, <1>11 DEF Whats
<1>13. /\ p.name \in Endings /\ p.kin # None /\ i = p.id
       /\ <<next, j>> \in {<<"insert_event", p.kin>>, <<"update", p.kin>>}
  BY <1>4, <1>11, <1>12, RowsOfStatements
<1> QED
  BY <1>4, <1>13 DEF p

\* The set of segments 1..n is well founded, hence so are the numbers.
LEMMA LeastNumber ==
  ASSUME NEW S, S \subseteq Nat, S # {}
  PROVE  \E n \in S : \A m \in S : n <= m
<1> DEFINE R == StrictSubsetOrdering(Nat)
           segments == {1..n : n \in S}
<1>1. IsWellFoundedOn(R, FiniteSubsetsOf(Nat))
  BY FS_StrictSubsetOrderingWellFounded
<1>2. \A n \in S : IsFiniteSet(1..n) /\ 1..n \in SUBSET Nat
  BY FS_Interval
<1>3. segments \subseteq FiniteSubsetsOf(Nat) /\ segments # {}
  BY <1>2 DEF FiniteSubsetsOf
<1>4. PICK t \in segments : \A u \in segments : <<u, t>> \notin R
  <2> HIDE DEF R, segments
  <2> QED
    BY <1>1, <1>3, WFMin
<1>5. PICK n \in S : t = 1..n
  OBVIOUS
<1>6. ASSUME NEW m \in S, m < n PROVE FALSE
  <2>1. 1..m \in segments /\ 1..m \subseteq 1..n /\ n \in 1..n /\ n \notin 1..m
    BY <1>6
  <2>2. <<1..m, 1..n>> \in R
    BY <2>1 DEF StrictSubsetOrdering
  <2> QED
    BY <1>4, <1>5, <2>1, <2>2
<1> QED
  BY <1>6

LEMMA BlockersHold ==
  ASSUME Inv, NEW t \in Connections, NEW u \in Connections, NEW i \in Ids, BlockedBy(t, u, i)
  PROVE  held[u][i] # NoLock
<1>1. PICK what \in Blocking : ~(ModeOf(what) + held[u][i] < 4)
  BY DEF BlockedBy, Compatible
<1>2. ModeOf(what) \in 1..3
  BY DEF ModeOf, KeyShare, NoKeyUpdate, Update
<1> QED
  BY <1>1, <1>2 DEF NoLock

LEMMA WaitsEnd ==
  ASSUME Inv, LocksEarned, RowsPresent, Nested
  PROVE  NoDeadlock
<1>1. PICK depth \in [Ids -> Nat] : \A q \in Load :
        q.name \in Endings /\ q.kin # None => depth[q.kin] < depth[q.id]
  BY DEF Nested
<1>2. SUFFICES ASSUME NEW C \in (SUBSET Connections) \ {{}},
                      \A t \in C : \E u \in C, i \in Ids : BlockedBy(t, u, i)
               PROVE  FALSE
  BY DEF NoDeadlock
<1> DEFINE Holds(t) == \E l \in Ids : held[t][l] # NoLock
           Wanted == {i \in Ids : \E t, u \in C : Holds(t) /\ BlockedBy(t, u, i)}
           depths == {depth[i] : i \in Wanted}
<1>3. depths \subseteq Nat
  OBVIOUS
<1>4. ASSUME NEW t \in C, NEW u \in C, NEW i \in Ids, BlockedBy(t, u, i)
      PROVE  \E v \in C, j \in Ids : BlockedBy(u, v, j) /\ j \in Wanted
  <2>1. Holds(u)
    BY <1>4, BlockersHold
  <2>2. PICK v \in C, j \in Ids : BlockedBy(u, v, j)
    BY <1>2
  <2> QED
    BY <2>1, <2>2
<1>5. Wanted # {}
  <2>1. PICK t \in C : TRUE
    <3>1. C # {}
      OBVIOUS
    <3> HIDE DEF Wanted, depths
    <3> QED
      BY <3>1
  <2>2. PICK u \in C, i \in Ids : BlockedBy(t, u, i)
    BY <1>2
  <2>3. PICK v \in C, j \in Ids : BlockedBy(u, v, j) /\ j \in Wanted
    BY <1>4, <2>2
  <2> QED
    BY <2>3
<1>6. PICK i \in Wanted : \A j \in Wanted : depth[i] <= depth[j]
  <2>1. depths # {}
    BY <1>5
  <2>2. PICK n \in depths : \A m \in depths : n <= m
    <3> HIDE DEF depths
    <3> QED
      BY <1>3, <2>1, LeastNumber
  <2>3. PICK i \in Wanted : n = depth[i]
    OBVIOUS
  <2> QED
    BY <2>2, <2>3
<1>7. PICK t \in C, u \in C : Holds(t) /\ BlockedBy(t, u, i)
  OBVIOUS
<1>8. PICK v \in C, j \in Ids : BlockedBy(u, v, j) /\ j \in Wanted
  BY <1>4, <1>7
<1>9. PICK l \in Ids : held[t][l] # NoLock
  BY <1>7
<1> HIDE DEF Wanted
<1>10. /\ query[u] \in Load /\ query[u].name \in Endings /\ query[u].kin # None
       /\ query[u].id = i /\ query[u].kin = j
  <2>1. i \in Ids
    BY DEF Wanted
  <2> QED
    BY <1>7, <1>8, <1>9, <2>1, WaitsClimb
<1>11. depth[j] < depth[i] /\ depth[i] <= depth[j]
  BY <1>1, <1>6, <1>8, <1>10
<1>12. depth[i] \in Nat /\ depth[j] \in Nat
  BY <1>8 DEF Wanted
<1> QED
  BY <1>11, <1>12

\* A transaction that can neither commit nor execute its next statement is blocked.
LEMMA BlockedUnlessReady ==
  ASSUME Inv, NEW t \in Connections, InTransaction(t), ~Ready(t)
  PROVE  \E u \in Connections, i \in Ids : BlockedBy(t, u, i)
<1> DEFINE S == Statements(query[t])
<1>1. query[t] \in Load /\ done[t] \in Nat
  BY QueryTyped DEF Inv
<1>2. Len(S) \in Nat /\ \A k \in 1..Len(S) : S[k] \in Whats \X Ids
  BY <1>1, StatementsShape
<1>3. done[t] < Len(S)
  <2>1. done[t] <= Len(S)
    BY DEF Inv, Progress
  <2>2. done[t] # Len(S)
    BY DEF Ready, Complete
  <2> QED
    BY <1>1, <1>2, <2>1, <2>2
<1>4. PICK what \in Whats, i \in Ids : S[done[t] + 1] = <<what, i>>
  <2>1. done[t] + 1 \in 1..Len(S)
    BY <1>1, <1>2, <1>3
  <2> QED
    BY <1>2, <2>1
<1>5. Runs(t, what, i)
  BY <1>3, <1>4 DEF Runs
<1>6. what \in Blocking /\ ~Granted(t, i, ModeOf(what))
  BY <1>5 DEF Ready
<1> QED
  BY <1>5, <1>6 DEF Granted, BlockedBy

LEMMA HoldersAreInside ==
  ASSUME Inv, NEW t \in Connections, NEW u \in Connections, NEW i \in Ids, BlockedBy(t, u, i)
  PROVE  InTransaction(u)
<1>1. held[u][i] # NoLock
  BY BlockersHold
<1> QED
  BY <1>1 DEF Inv, TypeOK, InTransaction, NoLocks

LEMMA SomeoneGoesOn ==
  ASSUME Inv, NoDeadlock
  PROVE  NoStandstill
<1>1. SUFFICES ASSUME NEW s \in Connections, InTransaction(s),
                      \A t \in Connections : ~Ready(t)
               PROVE  FALSE
  BY DEF NoStandstill
<1> DEFINE C == {t \in Connections : InTransaction(t)}
<1>2. C \in (SUBSET Connections) \ {{}}
  <2>1. s \in C /\ C \subseteq Connections
    BY <1>1
  <2> HIDE DEF C
  <2> QED
    BY <2>1
<1>3. \A t \in C : \E u \in C, i \in Ids : BlockedBy(t, u, i)
  BY <1>1, BlockedUnlessReady, HoldersAreInside
<1> HIDE DEF C
<1> QED
  BY <1>2, <1>3 DEF NoDeadlock

\* Where every child is below its parent, no transactions of queries.py wait for each
\* other in a circle, and some transaction can go on as long as one is under way,
\* for every load, any number of connections, and connections that break at any
\* point.  This is what EveryTransactionEnds needs besides fairness.
THEOREM TransactionsNeverDeadlock == Nested => (Spec => [](NoDeadlock /\ NoStandstill))
<1> DEFINE IInv == Inv /\ LocksEarned /\ RowsPresent
<1> SUFFICES ASSUME Nested PROVE Spec => [](NoDeadlock /\ NoStandstill)
  OBVIOUS
<1>1. Init => IInv
  <2> SUFFICES ASSUME Init PROVE IInv
    OBVIOUS
  <2>1. Inv
    BY InitInv
  <2>2. \A t \in Connections : ~InTransaction(t) /\ held[t] = NoLocks
    BY DEF Init, InTransaction
  <2> QED
    BY <2>1, <2>2 DEF LocksEarned, RowsPresent, NoLocks, NoLock, NoKeyUpdate, Update
<1>2. IInv /\ [Next]_vars => IInv'
  BY NextInv, EarnedKept, PresentKept
<1>3. IInv => NoDeadlock /\ NoStandstill
  BY WaitsEnd, SomeoneGoesOn
<1> QED
  BY <1>1, <1>2, <1>3, PTL DEF Spec
=============================================================================
