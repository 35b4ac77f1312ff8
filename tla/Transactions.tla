---------------------------- MODULE Transactions ----------------------------
(***************************************************************************)
(* The queries of db/queries.py statement by statement, as Postgres runs   *)
(* them side by side under READ COMMITTED: a statement sees what was       *)
(* committed when it starts, waits for the row locks it conflicts with,    *)
(* and what it writes is private until its transaction commits.            *)
(*                                                                         *)
(* The tables of Queries hold what is committed.  A transaction keeps the  *)
(* new version of each row it has updated, and the events it has inserted. *)
(* create_workflow is left out: no other transaction knows its id.         *)
(***************************************************************************)
EXTENDS Queries

CONSTANTS
  Existing, Load,   \* see AtomicQueries
  Connections,      \* connections, of workers and of the API
  MaxTransactions   \* bound on the number of transactions

A == INSTANCE AtomicQueries

Row == [status : WorkflowStatus, run_at : Nat, locked_by : Slots \cup {None},
        locked_until : {"null", "past", "future"}]

ASSUME TransactionsAssumption ==
  /\ MaxTransactions \in Nat
  /\ Existing \subseteq Ids
  /\ \A q \in Load : A!WellFormed(q)

\* A NULL is no id and no row.
ASSUME NullAssumption == None \notin Ids \cup Load \cup EventRecord \cup Row

(***************************************************************************)
(* Row locks.  INSERT INTO events and a parent_id take KeyShare on the row *)
(* they refer to (schema.sql, REFERENCES), UPDATE takes NoKeyUpdate,       *)
(* SELECT FOR UPDATE and the insertion of a row take Update.  Two modes    *)
(* are compatible when neither is Update and not both are NoKeyUpdate.     *)
(***************************************************************************)
NoLock == 0
KeyShare == 1
NoKeyUpdate == 2
Update == 3
Modes == NoLock..Update
Compatible(m, n) == m + n < 4
Stronger(m, n) == IF m > n THEN m ELSE n

VARIABLES
  query,     \* the query a connection executes, None between transactions
  done,      \* how many of its statements it has executed
  held,      \* the lock it holds on each row of workflows
  draft,     \* the new version of each row it has written, None elsewhere
  inserted,  \* the events it has inserted
  count      \* number of transactions begun

transactions == <<query, done, held, draft, inserted, count>>
vars == <<tables, elapsed, transactions>>

NoDraft == [i \in Ids |-> None]
NoEvents == [i \in Ids |-> <<>>]
NoLocks == [i \in Ids |-> NoLock]

TypeOK ==
  /\ TablesOK
  /\ query \in [Connections -> Load \cup {None}]
  /\ done \in [Connections -> 0..4]
  /\ held \in [Connections -> [Ids -> Modes]]
  /\ draft \in [Connections -> [Ids -> Row \cup {None}]]
  /\ inserted \in [Connections -> [Ids -> Seq(EventRecord)]]
  /\ count \in Nat
  /\ \A t \in Connections : query[t] = None =>
       /\ done[t] = 0 /\ held[t] = NoLocks
       /\ draft[t] = NoDraft /\ inserted[t] = NoEvents

Init ==
  /\ A!Init
  /\ query = [t \in Connections |-> None]
  /\ done = [t \in Connections |-> 0]
  /\ held = [t \in Connections |-> NoLocks]
  /\ draft = [t \in Connections |-> NoDraft]
  /\ inserted = [t \in Connections |-> NoEvents]
  /\ count = 0

-----------------------------------------------------------------------------
(***************************************************************************)
(* The statements of a query, in order, each with the row it is about.     *)
(***************************************************************************)
Endings == {"complete_workflow", "fail_workflow"}
Insert(i) == <<"insert_event", i>>
Set(i) == <<"update", i>>

looks_before_lock(q) == \* mutant: one UPDATE with a NOT EXISTS subquery
  <<<<"select_exists", q.id>>, <<"for_update", q.id>>, Set(q.id)>>

locks_late(q) == <<Insert(q.id), <<"for_update", q.id>>, Set(q.id)>> \* mutant

mark_statements(q) == <<<<"for_update", q.id>>, <<"select_exists", q.id>>, Set(q.id)>>

signal_statements(q) == <<Insert(q.id), Set(q.id)>>

\* The foreign key of a new row is checked after the row is there.
Statements(q) ==
  CASE q.name = "create_child_workflow" ->
         <<<<"insert_workflow", q.kin>>, <<"references", q.id>>, Insert(q.kin), Insert(q.id)>>
    [] q.name = "claim_next_workflow" -> <<<<"skip_locked", q.id>>, Set(q.id)>>
    [] q.name = "mark_workflow_waiting" -> mark_statements(q)
    [] q.name \in {"update_workflow_run_at", "extend_workflow_lock"} -> <<Set(q.id)>>
    [] q.name = "write_event" -> <<Insert(q.id)>>
    [] q.name = "write_signal_and_wake_workflow" -> signal_statements(q)
    [] q.name \in Endings ->
         IF q.kin = None THEN <<Insert(q.id), Set(q.id)>>
         ELSE <<Insert(q.id), Set(q.id), Insert(q.kin), Set(q.kin)>>

\* The SET clause of q's UPDATE of row i, whose newest version is r.
Unlocked(r) == [r EXCEPT !.locked_by = None, !.locked_until = "null"]
Written(q, i, r) ==
  CASE q.name = "create_child_workflow" -> [r EXCEPT !.status = "running", !.run_at = 0]
    [] q.name = "claim_next_workflow" -> [r EXCEPT !.locked_by = q.slot, !.locked_until = "future"]
    [] q.name = "mark_workflow_waiting" -> [Unlocked(r) EXCEPT !.status = "waiting"]
    [] q.name = "update_workflow_run_at" -> [Unlocked(r) EXCEPT !.run_at = q.n]
    [] q.name = "extend_workflow_lock" -> [r EXCEPT !.locked_until = "future"]
    [] q.name \in Endings /\ i = q.id ->
         [Unlocked(r) EXCEPT !.status = IF q.name = "complete_workflow" THEN "completed" ELSE "failed"]
    [] OTHER -> [r EXCEPT !.status = "running", !.run_at = 0]

\* The event q inserts into the log of i.
EventOf(q, i) ==
  CASE q.name = "create_child_workflow" ->
         IF i = q.kin THEN Event("started", 0, q.id, None)
         ELSE Event("child_started", q.n, q.kin, q.kin)
    [] q.name \in Endings ->
         IF i = q.id
         THEN Event(IF q.name = "complete_workflow" THEN "workflow_completed" ELSE "workflow_failed",
                    0, None, None)
         ELSE Event("signal", 0, q.id, IF q.name = "complete_workflow" THEN Done ELSE Failed)
    [] OTHER -> q.event

-----------------------------------------------------------------------------
Version(i) == [status |-> status[i], run_at |-> run_at[i],
               locked_by |-> locked_by[i], locked_until |-> locked_until[i]]

InTransaction(t) == query[t] # None
Complete(t) == InTransaction(t) /\ done[t] = Len(Statements(query[t]))

\* The next statement of t is what, about row i.
Runs(t, what, i) ==
  /\ InTransaction(t) /\ done[t] < Len(Statements(query[t]))
  /\ Statements(query[t])[done[t] + 1] = <<what, i>>

Granted(t, i, m) == \A u \in Connections \ {t} : Compatible(m, held[u][i])

Locks(t, i, m) ==
  /\ Granted(t, i, m)
  /\ held' = [held EXCEPT ![t][i] = Stronger(@, m)]

Executed(t) ==
  /\ done' = [done EXCEPT ![t] = @ + 1]
  /\ UNCHANGED <<tables, elapsed, query, count>>

keeps_locks(t) == \* mutant: the connection goes back to its pool in a transaction
  /\ query' = [query EXCEPT ![t] = None]
  /\ done' = [done EXCEPT ![t] = 0]
  /\ UNCHANGED <<held, draft, inserted, count>>

\* The transaction of t is over: its locks are free and its drafts gone.
Over(t) ==
  /\ query' = [query EXCEPT ![t] = None]
  /\ done' = [done EXCEPT ![t] = 0]
  /\ held' = [held EXCEPT ![t] = NoLocks]
  /\ draft' = [draft EXCEPT ![t] = NoDraft]
  /\ inserted' = [inserted EXCEPT ![t] = NoEvents]
  /\ UNCHANGED count

Returns(t) == Over(t) /\ UNCHANGED <<tables, elapsed>>

-----------------------------------------------------------------------------
(***************************************************************************)
(* Statements.                                                             *)
(***************************************************************************)
\* Callers know the workflows they name from committed rows.
begin(t, q) ==
  /\ query[t] = None
  /\ count < MaxTransactions
  /\ status[q.id] # "absent"
  /\ (q.name \in Endings /\ q.kin # None) => status[q.kin] # "absent"
  /\ query' = [query EXCEPT ![t] = q]
  /\ count' = count + 1
  /\ UNCHANGED <<tables, elapsed, done, held, draft, inserted>>

insert_event(t, i) ==
  /\ Runs(t, "insert_event", i)
  /\ Locks(t, i, KeyShare)
  /\ inserted' = [inserted EXCEPT ![t][i] = Append(@, EventOf(query[t], i))]
  /\ UNCHANGED draft
  /\ Executed(t)

\* ON CONFLICT DO NOTHING waits for an uncommitted row with the same id.
insert_workflow(t, c) ==
  /\ Runs(t, "insert_workflow", c)
  /\ IF Granted(t, c, Update) /\ status[c] # "absent"
     THEN Returns(t)
     ELSE /\ Locks(t, c, Update)
          /\ draft' = [draft EXCEPT ![t][c] = Written(query[t], c, Version(c))]
          /\ UNCHANGED inserted
          /\ Executed(t)

check_reference(t, i) ==
  /\ Runs(t, "references", i)
  /\ Locks(t, i, KeyShare)
  /\ UNCHANGED <<draft, inserted>>
  /\ Executed(t)

\* The new version starts from the newest committed one, not from a snapshot.
update(t, i) ==
  /\ Runs(t, "update", i)
  /\ Locks(t, i, NoKeyUpdate)
  /\ draft' = [draft EXCEPT ![t][i] = Written(query[t], i, Version(i))]
  /\ UNCHANGED inserted
  /\ Executed(t)

select_for_update(t, i) ==
  /\ Runs(t, "for_update", i)
  /\ Locks(t, i, Update)
  /\ UNCHANGED <<draft, inserted>>
  /\ Executed(t)

select_exists(t, i) ==
  /\ Runs(t, "select_exists", i)
  /\ IF SignalReceived(i, query[t].key)
     THEN Returns(t)
     ELSE UNCHANGED <<held, draft, inserted>> /\ Executed(t)

Eligible(i) == status[i] = "running" /\ RunAtReached(i) /\ LeaseFree(i)

\* A row that is locked in any mode is passed over, never waited for.
select_skip_locked(t, i) ==
  /\ Runs(t, "skip_locked", i)
  /\ IF Eligible(i) /\ Granted(t, i, Update)
     THEN /\ Locks(t, i, Update)
          /\ UNCHANGED <<draft, inserted>>
          /\ Executed(t)
     ELSE Returns(t)

commit(t) ==
  /\ Complete(t)
  /\ LET New(i) == IF draft[t][i] = None THEN Version(i) ELSE draft[t][i] IN
       /\ status' = [i \in Ids |-> New(i).status]
       /\ run_at' = [i \in Ids |-> New(i).run_at]
       /\ locked_by' = [i \in Ids |-> New(i).locked_by]
       /\ locked_until' = [i \in Ids |-> New(i).locked_until]
  /\ events' = [i \in Ids |-> events[i] \o inserted[t][i]]
  /\ UNCHANGED elapsed
  /\ Over(t)

\* The connection breaks, its task is cancelled or its process dies.
rollback(t) == InTransaction(t) /\ Returns(t)

\* Every copy of a lock's end lapses with it; one written since then is later.
lapse(i) ==
  /\ A!Lapses(i)
  /\ draft' = [t \in Connections |->
       IF draft[t][i] # None /\ query[t].name \notin {"claim_next_workflow", "extend_workflow_lock"}
          /\ draft[t][i].locked_until = "future"
       THEN [draft[t] EXCEPT ![i].locked_until = "past"]
       ELSE draft[t]]
  /\ UNCHANGED <<query, done, held, inserted, count>>

elapse(i) == A!Elapses(i) /\ UNCHANGED transactions

Statement(t, i) ==
  \/ insert_event(t, i) \/ insert_workflow(t, i) \/ check_reference(t, i) \/ update(t, i)
  \/ select_for_update(t, i) \/ select_exists(t, i) \/ select_skip_locked(t, i)

Step(t) == (\E i \in Ids : Statement(t, i)) \/ commit(t)

Next ==
  \/ \E t \in Connections : (\E q \in Load : begin(t, q)) \/ Step(t) \/ rollback(t)
  \/ \E i \in Ids : lapse(i) \/ elapse(i)

Spec == Init /\ [][Next]_vars

\* Postgres executes what it is sent.  No caller is made to send anything.
FairSpec == Spec /\ \A t \in Connections : WF_vars(Step(t))

-----------------------------------------------------------------------------
(***************************************************************************)
(* Properties.                                                             *)
(***************************************************************************)
\* However statements interleave, every transaction takes effect as one atomic
\* query, or not at all: what queries.py promises in its docstrings and what
\* Engine assumes.  For the two mark_workflow_waiting_for_* this is the argument
\* of their docstrings, that a wake-up committed meanwhile is not missed.
Atomic == A!Spec

\* No transactions wait for each other in a circle: each transaction that has
\* begun ends, whatever locks the others take.
EveryTransactionEnds == \A t \in Connections : InTransaction(t) ~> ~InTransaction(t)
=============================================================================
