------------------------------ MODULE Queries ------------------------------
(***************************************************************************)
(* The Postgres tables of Temporal-Light (db/schema.sql) and every query   *)
(* of db/queries.py that changes them, one operator per query.  A query    *)
(* runs in one transaction or one statement, so each operator is one       *)
(* atomic change of the tables and states the whole frame of the tables it *)
(* leaves alone.                                                           *)
(*                                                                         *)
(* Step indices are the code's plus one: step 0 stands for the code's      *)
(* step_index -1 (workflow-level events and signals).                      *)
(*                                                                         *)
(* Time is abstract.  Every timestamp the engine compares with the clock   *)
(* is "the deadline of an event": the wakeup_at of a SLEEP event or the    *)
(* retry time computed after a FAILED event.  run_at[i] = n > 0 means the  *)
(* deadline of the n-th event of i, run_at[i] = 0 a time already reached   *)
(* (NOW() when it was written).  elapsed[i] holds the deadlines of i that  *)
(* the clock has passed; deadlines pass in any order.                      *)
(***************************************************************************)
EXTENDS Naturals, Sequences, FiniteSets

CONSTANTS
  Ids,          \* workflow ids; a child's id is fixed by its parent and step
  SignalTypes,  \* names of user signals (never the reserved child signal)
  Calls,        \* an activity with its serialized arguments
  Results,      \* what an activity may return
  Requests,     \* signal requests clients send; each one is its own payload
  Slots,        \* the asyncio tasks a worker may run at once
  None,         \* SQL NULL / Python None
  Waiting,      \* payload of a marker event (status = 'waiting')
  Done,         \* payload of a child signal with status 'completed'
  Failed        \* payload of a child signal with status 'failed'

Live == {"running", "waiting"}
Terminal == {"completed", "failed"}
WorkflowStatus == {"absent"} \cup Live \cup Terminal

EventType == {"started", "scheduled", "completed", "failed", "sleep", "signal",
              "child_started", "workflow_completed", "workflow_failed"}

Keys == Ids \cup SignalTypes \cup Calls \cup {None}
Values == Ids \cup Results \cup Requests \cup {None, Waiting, Done, Failed}

\* A row of the events table.  key is what look-ups select on besides type
\* and step: the parent of STARTED, the call of SCHEDULED, the signal type
\* or the child id of SIGNAL and CHILD_STARTED.  val is the rest of payload.
EventRecord == [type : EventType, step : Nat, key : Keys, val : Values]
Event(type, step, key, val) == [type |-> type, step |-> step, key |-> key, val |-> val]

VARIABLES
  status,        \* workflows.status, "absent" when there is no row
  run_at,        \* workflows.run_at (see above)
  locked_by,     \* workflows.locked_by: the task holding the lease, or None
  locked_until,  \* workflows.locked_until against the clock
  events,        \* the events of each workflow, ordered by id
  elapsed        \* the deadlines the clock has passed

rows == <<status, run_at, locked_by, locked_until>>
tables == <<status, run_at, locked_by, locked_until, events>>

TablesOK ==
  /\ status \in [Ids -> WorkflowStatus]
  /\ run_at \in [Ids -> Nat]
  /\ locked_by \in [Ids -> Slots \cup {None}]
  /\ locked_until \in [Ids -> {"null", "past", "future"}]
  /\ events \in [Ids -> Seq(EventRecord)]
  /\ elapsed \in [Ids -> SUBSET Nat]

TablesInit ==
  /\ status = [i \in Ids |-> "absent"]
  /\ run_at = [i \in Ids |-> 0]
  /\ locked_by = [i \in Ids |-> None]
  /\ locked_until = [i \in Ids |-> "null"]
  /\ events = [i \in Ids |-> <<>>]
  /\ elapsed = [i \in Ids |-> {}]

-----------------------------------------------------------------------------
(***************************************************************************)
(* Look-ups in an event history h (worker/context.py, signals.py,          *)
(* children.py).  Each returns the position of the first matching event,   *)
(* as a set with at most one element: empty stands for Python's None.      *)
(***************************************************************************)
find_event(h, k, type) ==
  {n \in 1..Len(h) :
     /\ h[n].step = k /\ h[n].type = type
     /\ \A m \in 1..(n - 1) : ~(h[m].step = k /\ h[m].type = type)}

find_completed_event(h, k) == find_event(h, k, "completed")
find_scheduled_event(h, k) == find_event(h, k, "scheduled")
find_child_started_event(h, k) == find_event(h, k, "child_started")

AnySignal(e, key) == e.type = "signal" /\ e.key = key \* mutant: markers count
IsReceived(e, key) == e.type = "signal" /\ e.key = key /\ e.val # Waiting
IsMarker(e, key) == e.type = "signal" /\ e.key = key /\ e.val = Waiting

\* find_signal_event and find_child_result_signal differ only in the key:
\* a signal type, or the child id under the reserved signal type.
find_signal_event(h, key) ==
  {n \in 1..Len(h) : IsReceived(h[n], key) /\ \A m \in 1..(n - 1) : ~IsReceived(h[m], key)}

find_waiting_for_signal_event(h, key) ==
  {n \in 1..Len(h) : IsMarker(h[n], key) /\ \A m \in 1..(n - 1) : ~IsMarker(h[m], key)}

count_failed_events(h, k) ==
  Cardinality({n \in 1..Len(h) : h[n].step = k /\ h[n].type = "failed"})

-----------------------------------------------------------------------------
(***************************************************************************)
(* Queries.                                                                *)
(***************************************************************************)
Appended(i, e) == [events EXCEPT ![i] = Append(@, e)]

create_workflow(i) ==
  /\ status' = [status EXCEPT ![i] = "running"]
  /\ run_at' = [run_at EXCEPT ![i] = 0]
  /\ events' = Appended(i, Event("started", 0, None, None))
  /\ UNCHANGED <<locked_by, locked_until>>

create_child_again(p, c, k) == \* mutant: on a conflict, the events are written all the same
  /\ status' = [status EXCEPT ![c] = IF @ = "absent" THEN "running" ELSE @]
  /\ run_at' = [run_at EXCEPT ![c] = IF status[c] = "absent" THEN 0 ELSE @]
  /\ events' = [events EXCEPT ![c] = Append(@, Event("started", 0, p, None)),
                              ![p] = Append(@, Event("child_started", k, c, c))]
  /\ UNCHANGED <<locked_by, locked_until>>

\* ON CONFLICT DO NOTHING: a second call with the same child id changes nothing.
create_child_workflow(p, c, k) ==
  IF status[c] # "absent"
  THEN UNCHANGED tables
  ELSE /\ status' = [status EXCEPT ![c] = "running"]
       /\ run_at' = [run_at EXCEPT ![c] = 0]
       /\ events' = [j \in Ids |->
                       IF j = c THEN Append(events[j], Event("started", 0, p, None))
                       ELSE IF j = p THEN Append(events[j], Event("child_started", k, c, c))
                       ELSE events[j]]
       /\ UNCHANGED <<locked_by, locked_until>>

RunAtReached(i) == run_at[i] = 0 \/ run_at[i] \in elapsed[i]
LeaseIgnored(i) == TRUE \* mutant
LeaseNeverLapses(i) == locked_by[i] = None \* mutant
LeaseFree(i) == locked_by[i] = None \/ locked_until[i] = "past"

\* The row claimed is the one with the smallest run_at that no concurrent
\* claim has locked; which one that is depends on clock values, so any
\* eligible row may be taken.
claim_next_workflow(i, s) ==
  /\ status[i] = "running"
  /\ RunAtReached(i)
  /\ LeaseFree(i)
  /\ locked_by' = [locked_by EXCEPT ![i] = s]
  /\ locked_until' = [locked_until EXCEPT ![i] = "future"]
  /\ UNCHANGED <<status, run_at, events>>

Unlock(i) ==
  /\ locked_by' = [locked_by EXCEPT ![i] = None]
  /\ locked_until' = [locked_until EXCEPT ![i] = "null"]

\* Both mark_workflow_waiting_for_* lock the row and look for a received event
\* before they mark the row waiting; "already received" changes nothing.
SignalReceived(i, key) == \E n \in 1..Len(events[i]) : IsReceived(events[i][n], key)

mark_waiting_unchecked(i, key) == \* mutant: no look for a received event
  /\ status' = [status EXCEPT ![i] = "waiting"]
  /\ Unlock(i)
  /\ UNCHANGED <<run_at, events>>

mark_workflow_waiting(i, key) ==
  /\ ~SignalReceived(i, key)
  /\ status' = [status EXCEPT ![i] = "waiting"]
  /\ Unlock(i)
  /\ UNCHANGED <<run_at, events>>

release_only(i, n) == Unlock(i) /\ UNCHANGED <<status, run_at, events>> \* mutant

update_workflow_run_at(i, n) ==
  /\ run_at' = [run_at EXCEPT ![i] = n]
  /\ Unlock(i)
  /\ UNCHANGED <<status, events>>

extend_workflow_lock(i) ==
  /\ locked_until' = [locked_until EXCEPT ![i] = "future"]
  /\ UNCHANGED <<status, run_at, locked_by, events>>

write_event(i, e) == events' = Appended(i, e) /\ UNCHANGED rows

write_signal_without_wake(i, t, q) == \* mutant
  /\ events' = Appended(i, Event("signal", 0, t, q))
  /\ run_at' = [run_at EXCEPT ![i] = 0]
  /\ UNCHANGED <<status, locked_by, locked_until>>

write_signal_and_wake_workflow(i, t, q) ==
  /\ events' = Appended(i, Event("signal", 0, t, q))
  /\ run_at' = [run_at EXCEPT ![i] = 0]
  /\ status' = [status EXCEPT ![i] = "running"]
  /\ UNCHANGED <<locked_by, locked_until>>

\* One transaction: the workflow's terminal event and status, and, when it
\* has a parent p (p # None), the child signal and the wake-up of p's row.
write_terminal_workflow_event(i, type, final, p, outcome) ==
  /\ events' = [j \in Ids |->
                  IF j = i THEN Append(events[j], Event(type, 0, None, None))
                  ELSE IF j = p THEN Append(events[j], Event("signal", 0, i, outcome))
                  ELSE events[j]]
  /\ status' = [j \in Ids |-> IF j = i THEN final ELSE IF j = p THEN "running" ELSE status[j]]
  /\ run_at' = [j \in Ids |-> IF j = p THEN 0 ELSE run_at[j]]
  /\ Unlock(i)

complete_workflow(i, p) ==
  write_terminal_workflow_event(i, "workflow_completed", "completed", p, Done)

fail_as_done(i, p) == \* mutant: child_status left at 'completed'
  write_terminal_workflow_event(i, "workflow_failed", "failed", p, Done)

fail_workflow(i, p) ==
  write_terminal_workflow_event(i, "workflow_failed", "failed", p, Failed)
=============================================================================
