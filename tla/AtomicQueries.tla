--------------------------- MODULE AtomicQueries ---------------------------
(***************************************************************************)
(* What the tables promise: every query of db/queries.py takes effect at   *)
(* one instant.  A query is a record of its name and its arguments, so     *)
(* that the transaction which executes it can carry it along.              *)
(***************************************************************************)
EXTENDS Queries

CONSTANTS
  Existing,  \* workflows created beforehand
  Load       \* the queries callers may send

QueryNames == {"create_child_workflow", "claim_next_workflow", "mark_workflow_waiting",
               "update_workflow_run_at", "extend_workflow_lock", "write_event",
               "write_signal_and_wake_workflow", "complete_workflow", "fail_workflow"}

\* id is the workflow the query is about, kin the child it creates or the parent
\* it tells, key what it waits for, n a step or the event of a deadline.
Query == [name : QueryNames, id : Ids, kin : Ids \cup {None}, key : Keys,
          event : EventRecord \cup {None}, n : Nat, slot : Slots \cup {None}]

\* The arguments a caller gives to each query.
WellFormed(q) ==
  /\ q \in Query
  /\ q.kin # q.id
  /\ q.name = "create_child_workflow" => q.kin \in Ids
  /\ q.name = "write_event" => q.event \in EventRecord
  /\ q.name = "write_signal_and_wake_workflow" =>
       q.event \in EventRecord /\ q.event = Event("signal", 0, q.event.key, q.event.val)

Init ==
  /\ status = [i \in Ids |-> IF i \in Existing THEN "running" ELSE "absent"]
  /\ run_at = [i \in Ids |-> 0]
  /\ locked_by = [i \in Ids |-> None]
  /\ locked_until = [i \in Ids |-> "null"]
  /\ events = [i \in Ids |-> IF i \in Existing THEN <<Event("started", 0, None, None)>> ELSE <<>>]
  /\ elapsed = [i \in Ids |-> {}]

Takes(q) ==
  CASE q.name = "create_child_workflow" -> create_child_workflow(q.id, q.kin, q.n)
    [] q.name = "claim_next_workflow" -> claim_next_workflow(q.id, q.slot)
    [] q.name = "mark_workflow_waiting" -> mark_workflow_waiting(q.id, q.key)
    [] q.name = "update_workflow_run_at" -> update_workflow_run_at(q.id, q.n)
    [] q.name = "extend_workflow_lock" -> extend_workflow_lock(q.id)
    [] q.name = "write_event" -> write_event(q.id, q.event)
    [] q.name = "write_signal_and_wake_workflow" ->
         write_signal_and_wake_workflow(q.id, q.event.key, q.event.val)
    [] q.name = "complete_workflow" -> complete_workflow(q.id, q.kin)
    [] q.name = "fail_workflow" -> fail_workflow(q.id, q.kin)

\* The clock passes a lock's end, or the deadline of an event.
Lapses(i) ==
  /\ locked_until[i] = "future"
  /\ locked_until' = [locked_until EXCEPT ![i] = "past"]
  /\ UNCHANGED <<status, run_at, locked_by, events, elapsed>>

Elapses(i) ==
  /\ run_at[i] \notin elapsed[i] \cup {0}
  /\ elapsed' = [elapsed EXCEPT ![i] = @ \cup {run_at[i]}]
  /\ UNCHANGED tables

Next ==
  \/ \E q \in Load : Takes(q) /\ UNCHANGED elapsed
  \/ \E i \in Ids : Lapses(i) \/ Elapses(i)

Spec == Init /\ [][Next]_<<tables, elapsed>>
=============================================================================
