------------------------------- MODULE Engine -------------------------------
(***************************************************************************)
(* The durable execution engine: workers whose slots claim workflows from  *)
(* the tables of Queries, load the event history, replay it and execute    *)
(* forward; clients that start workflows and send signals through the API; *)
(* the clock; and what may fail.                                           *)
(*                                                                         *)
(* A slot is one asyncio task of a worker (worker_concurrency of them).    *)
(* Between two awaits of database calls or of an activity body a run does  *)
(* nothing another actor can see, so each action below ends at such an     *)
(* await.  A workflow function is deterministic user code: a straight line *)
(* of steps, per code version.  An exception a step raises is not caught   *)
(* by the workflow function.                                               *)
(***************************************************************************)
EXTENDS Queries

CONSTANTS
  Workers,      \* worker processes
  WorkerOf,     \* the worker a slot belongs to
  Roots,        \* workflows clients start; the others are children
  Versions,     \* versions of the workflow code
  Program,      \* Program[v][i]: the steps of workflow i in version v
  Registry,     \* Registry[v]: the workflows a worker of version v registers
  SignalTo,     \* SignalTo[q]: the workflow request q is sent to
  SignalType,   \* SignalType[q]: its signal type
  MaxFaults     \* MaxFaults[f]: bound on the number of faults of kind f

Ops == {"activity", "sleep", "signal", "spawn", "join", "raise"}
StepRecord == [op : Ops, key : Keys, retries : Nat]
FaultKinds == {"crash", "error", "cancel", "stall"}

ASSUME ConstantsAssumption ==
  /\ WorkerOf \in [Slots -> Workers]
  /\ Roots \subseteq Ids
  /\ Program \in [Versions -> [Ids -> Seq(StepRecord)]]
  /\ Registry \in [Versions -> SUBSET Ids]
  /\ SignalTo \in [Requests -> Ids]
  /\ SignalType \in [Requests -> SignalTypes]
  /\ MaxFaults \in [FaultKinds -> Nat]

ASSUME DistinctAssumption ==
  /\ None \notin Slots \cup Ids
  /\ Waiting \notin Requests \cup {Done, Failed}
  /\ Done # Failed
  /\ SignalTypes \cap Ids = {}

\* A child's id is the parent's id and the spawning step (children.py:32), so
\* the site determines the child and the child determines the site.
ASSUME ChildIdAssumption ==
  \A v, w \in Versions, p, r \in Ids : \A k \in DOMAIN Program[v][p], m \in DOMAIN Program[w][r] :
    (Program[v][p][k].op = "spawn" /\ Program[w][r][m].op = "spawn") =>
      /\ Program[v][p][k].key \in Ids \ Roots
      /\ Program[v][p][k].key # p
      /\ (p = r /\ k = m) <=> (Program[v][p][k].key = Program[w][r][m].key)

\* A workflow waits for types of signals, or for children it spawned before.
ASSUME WaitAssumption ==
  \A v \in Versions, i \in Ids : \A k \in DOMAIN Program[v][i] :
    LET at == Program[v][i][k] IN
    /\ at.op = "signal" => at.key \in SignalTypes
    /\ at.op = "join" => \E m \in 1..(k - 1) :
                           Program[v][i][m].op = "spawn" /\ Program[v][i][m].key = at.key

VARIABLES
  pc,        \* what the slot awaits next
  wf,        \* the workflow it runs (WorkflowRecord.workflow_id)
  history,   \* WorkflowContext.event_history: the events loaded when it started
  step,      \* WorkflowContext.step_counter: the step it is at
  values,    \* what the steps it has passed returned to the workflow function
  wake,      \* position of the event whose deadline it is about to write to run_at
  code,      \* the code version each worker runs
  request,   \* progress of each signal request
  faults     \* number of faults of each kind so far

run == <<pc, wf, history, step, values, wake>>
vars == <<status, run_at, locked_by, locked_until, events, elapsed,
          pc, wf, history, step, values, wake, code, request, faults>>

PC == {"idle", "load", "step", "exec", "failed", "sleeping", "marking", "reload", "fail"}

RunsOK ==
  /\ pc \in [Slots -> PC]
  /\ wf \in [Slots -> Ids \cup {None}]
  /\ history \in [Slots -> Seq(EventRecord)]
  /\ step \in [Slots -> Nat \ {0}]
  /\ values \in [Slots -> Seq(Values)]
  /\ wake \in [Slots -> Nat]
  /\ \A s \in Slots : pc[s] # "idle" => wf[s] \in Ids

TypeOK ==
  /\ TablesOK
  /\ RunsOK
  /\ code \in [Workers -> Versions]
  /\ request \in [Requests -> {"new", "checked", "sent", "rejected"}]
  /\ faults \in [FaultKinds -> Nat]

Init ==
  /\ TablesInit
  /\ pc = [s \in Slots |-> "idle"]
  /\ wf = [s \in Slots |-> None]
  /\ history = [s \in Slots |-> <<>>]
  /\ step = [s \in Slots |-> 1]
  /\ values = [s \in Slots |-> <<>>]
  /\ wake = [s \in Slots |-> 0]
  /\ code \in [Workers -> Versions]
  /\ request = [q \in Requests |-> "new"]
  /\ faults = [f \in FaultKinds |-> 0]

-----------------------------------------------------------------------------
(***************************************************************************)
(* What a run looks at and how it moves.                                   *)
(***************************************************************************)
Active(s) == pc[s] # "idle"
Body(s) == Program[code[WorkerOf[s]]][wf[s]]
Current(s) == Body(s)[step[s]]
AtStep(s) == pc[s] = "step" /\ step[s] <= Len(Body(s))
At(s, op) == AtStep(s) /\ Current(s).op = op

\* parent_info: the parent recorded in the STARTED event (None for a root).
parent_info(s) ==
  IF find_event(history[s], 0, "started") = {} THEN None
  ELSE history[s][CHOOSE n \in find_event(history[s], 0, "started") : TRUE].key

\* The run goes on to await something else, at the same step.
Await(s, to) ==
  /\ pc' = [pc EXCEPT ![s] = to]
  /\ UNCHANGED <<wf, history, step, values, wake, code, request, faults, elapsed>>

\* The step returns v to the workflow function, which reaches the next step.
Return(s, v) ==
  /\ pc' = [pc EXCEPT ![s] = "step"]
  /\ step' = [step EXCEPT ![s] = @ + 1]
  /\ values' = [values EXCEPT ![s] = Append(@, v)]
  /\ UNCHANGED <<wf, history, wake, code, request, faults, elapsed>>

\* The runs of the slots in S are over, their contexts gone.
Over(S) ==
  /\ pc' = [s \in Slots |-> IF s \in S THEN "idle" ELSE pc[s]]
  /\ wf' = [s \in Slots |-> IF s \in S THEN None ELSE wf[s]]
  /\ history' = [s \in Slots |-> IF s \in S THEN <<>> ELSE history[s]]
  /\ step' = [s \in Slots |-> IF s \in S THEN 1 ELSE step[s]]
  /\ values' = [s \in Slots |-> IF s \in S THEN <<>> ELSE values[s]]
  /\ wake' = [s \in Slots |-> IF s \in S THEN 0 ELSE wake[s]]

\* WorkflowSuspended, or the end of the run: the slot is free again.
Suspend(s) == Over({s}) /\ UNCHANGED <<code, request, faults, elapsed>>

\* The event just written carries the deadline; wake remembers which it is.
AwaitDeadline(s, to) ==
  /\ pc' = [pc EXCEPT ![s] = to]
  /\ wake' = [wake EXCEPT ![s] = Len(events[wf[s]]) + 1]
  /\ UNCHANGED <<wf, history, step, values, code, request, faults, elapsed>>

-----------------------------------------------------------------------------
(***************************************************************************)
(* Clients, through the API (api/server.py).  send_signal reads the status *)
(* and writes the signal in two separate database calls.                   *)
(***************************************************************************)
others == <<pc, wf, history, step, values, wake, code, faults, elapsed>>

start_workflow(i) ==
  /\ i \in Roots
  /\ status[i] = "absent"
  /\ create_workflow(i)
  /\ UNCHANGED <<others, request>>

\* 404 without a row, 409 unless it is running or waiting.
send_signal(q) ==
  /\ request[q] = "new"
  /\ request' = [request EXCEPT ![q] = IF status[SignalTo[q]] \in Live THEN "checked" ELSE "rejected"]
  /\ UNCHANGED <<others, tables>>

write_signal(q) ==
  /\ request[q] = "checked"
  /\ write_signal_and_wake_workflow(SignalTo[q], SignalType[q], q)
  /\ request' = [request EXCEPT ![q] = "sent"]
  /\ UNCHANGED others

-----------------------------------------------------------------------------
(***************************************************************************)
(* Scheduler and runner (worker/scheduler.py, worker/runner.py).           *)
(***************************************************************************)
claim_forgets_record(s, i) == \* mutant
  /\ pc[s] = "idle"
  /\ claim_next_workflow(i, s)
  /\ pc' = [pc EXCEPT ![s] = "load"]
  /\ UNCHANGED <<wf, history, step, values, wake, code, request, faults, elapsed>>

claim(s, i) ==
  /\ pc[s] = "idle"
  /\ claim_next_workflow(i, s)
  /\ pc' = [pc EXCEPT ![s] = "load"]
  /\ wf' = [wf EXCEPT ![s] = i]
  /\ UNCHANGED <<history, step, values, wake, code, request, faults, elapsed>>

\* The heartbeat of a run extends the lock of its workflow, whoever holds it.
heartbeat(s) ==
  /\ Active(s)
  /\ extend_workflow_lock(wf[s])
  /\ UNCHANGED <<others, request>>

\* A workflow this worker does not register fails; its parent is still told.
run_workflow(s) ==
  /\ pc[s] = "load"
  /\ history' = [history EXCEPT ![s] = events[wf[s]]]
  /\ pc' = [pc EXCEPT ![s] = IF wf[s] \in Registry[code[WorkerOf[s]]] THEN "step" ELSE "fail"]
  /\ UNCHANGED <<tables, wf, step, values, wake, code, request, faults, elapsed>>

\* The workflow function returned.
finish(s) ==
  /\ pc[s] = "step" /\ step[s] > Len(Body(s))
  /\ complete_workflow(wf[s], parent_info(s))
  /\ Suspend(s)

\* The workflow function raised an exception of its own.
raise(s) == At(s, "raise") /\ Await(s, "fail") /\ UNCHANGED tables

fail_silently(s) == \* mutant: parent_info is left at its default None
  /\ pc[s] = "fail"
  /\ fail_workflow(wf[s], None)
  /\ Suspend(s)

\* runner._fail_workflow, after any exception but WorkflowSuspended.
fail(s) ==
  /\ pc[s] = "fail"
  /\ fail_workflow(wf[s], parent_info(s))
  /\ Suspend(s)

-----------------------------------------------------------------------------
(***************************************************************************)
(* execute_activity (worker/executor.py).                                  *)
(***************************************************************************)
replay_activity(s) ==
  /\ At(s, "activity")
  /\ \E n \in find_completed_event(history[s], step[s]) : Return(s, history[s][n].val)
  /\ UNCHANGED tables

NotReplayed(s) == At(s, "activity") /\ find_completed_event(history[s], step[s]) = {}
NeverDiverges(s) == FALSE \* mutant
Diverges(s) == \E n \in find_scheduled_event(history[s], step[s]) : history[s][n].key # Current(s).key

DivergenceError(s) == NotReplayed(s) /\ Diverges(s) /\ Await(s, "fail") /\ UNCHANGED tables

schedule_again(s) == \* mutant: SCHEDULED is written on every execution
  /\ NotReplayed(s) /\ ~Diverges(s)
  /\ write_event(wf[s], Event("scheduled", step[s], Current(s).key, None))
  /\ Await(s, "exec")

\* SCHEDULED is written on the first execution only.
schedule(s) ==
  /\ NotReplayed(s) /\ ~Diverges(s)
  /\ IF find_scheduled_event(history[s], step[s]) = {}
     THEN write_event(wf[s], Event("scheduled", step[s], Current(s).key, None))
     ELSE UNCHANGED tables
  /\ Await(s, "exec")

complete_unrecorded(s, r) == pc[s] = "exec" /\ UNCHANGED tables /\ Return(s, r) \* mutant

\* The body returns r.
complete_activity(s, r) ==
  /\ pc[s] = "exec"
  /\ write_event(wf[s], Event("completed", step[s], None, r))
  /\ Return(s, r)

\* The body raises, times out or its process dies.
fail_activity(s) ==
  /\ pc[s] = "exec"
  /\ write_event(wf[s], Event("failed", step[s], None, None))
  /\ AwaitDeadline(s, "failed")

attempts_before(s) == count_failed_events(history[s], step[s]) \* mutant: off by one

\* attempts_used counts the attempts in the history loaded and this one.
attempts_used(s) == count_failed_events(history[s], step[s]) + 1

retry(s) ==
  /\ pc[s] = "failed"
  /\ attempts_used(s) <= Current(s).retries
  /\ update_workflow_run_at(wf[s], wake[s])
  /\ Suspend(s)

exhaust_retries(s) ==
  /\ pc[s] = "failed"
  /\ attempts_used(s) > Current(s).retries
  /\ fail_workflow(wf[s], parent_info(s))
  /\ Suspend(s)

-----------------------------------------------------------------------------
(***************************************************************************)
(* sleep (sleep.py).                                                       *)
(***************************************************************************)
SleepElapsed(i, h, k) == \E n \in find_event(h, k, "sleep") : n \in elapsed[i]

wake_up(s) ==
  /\ At(s, "sleep")
  /\ SleepElapsed(wf[s], history[s], step[s])
  /\ Return(s, None)
  /\ UNCHANGED tables

re_suspend(s) ==
  /\ At(s, "sleep")
  /\ ~SleepElapsed(wf[s], history[s], step[s])
  /\ \E n \in find_event(history[s], step[s], "sleep") : update_workflow_run_at(wf[s], n)
  /\ Suspend(s)

start_sleep(s) ==
  /\ At(s, "sleep")
  /\ find_event(history[s], step[s], "sleep") = {}
  /\ write_event(wf[s], Event("sleep", step[s], None, None))
  /\ AwaitDeadline(s, "sleeping")

suspend_sleep(s) ==
  /\ pc[s] = "sleeping"
  /\ update_workflow_run_at(wf[s], wake[s])
  /\ Suspend(s)

-----------------------------------------------------------------------------
(***************************************************************************)
(* wait_for_signal (signals.py) and wait_for_child (children.py): the same *)
(* protocol, keyed by signal type or by child id.                          *)
(***************************************************************************)
AtWait(s) == AtStep(s) /\ Current(s).op \in {"signal", "join"}

\* _child_signal_result: a failed child raises ChildWorkflowFailedError.
Received(s, v) ==
  IF Current(s).op = "join" /\ v = Failed THEN Await(s, "fail") ELSE Return(s, v)

takes_marker(s) == \* mutant: find_signal_event does not pass over the marker
  /\ AtWait(s)
  /\ \E n \in 1..Len(history[s]) :
       /\ history[s][n].type = "signal" /\ history[s][n].key = Current(s).key
       /\ Received(s, history[s][n].val)
  /\ UNCHANGED tables

replay_wait(s) ==
  /\ AtWait(s)
  /\ \E n \in find_signal_event(history[s], Current(s).key) : Received(s, history[s][n].val)
  /\ UNCHANGED tables

\* The marker is written unless the history loaded has one.
write_marker(s) ==
  /\ AtWait(s)
  /\ find_signal_event(history[s], Current(s).key) = {}
  /\ IF find_waiting_for_signal_event(history[s], Current(s).key) = {}
     THEN write_event(wf[s], Event("signal", 0, Current(s).key, Waiting))
     ELSE UNCHANGED tables
  /\ Await(s, "marking")

mark_waiting(s) ==
  /\ pc[s] = "marking"
  /\ mark_workflow_waiting(wf[s], Current(s).key)
  /\ Suspend(s)

already_received(s) ==
  /\ pc[s] = "marking"
  /\ SignalReceived(wf[s], Current(s).key)
  /\ Await(s, "reload")
  /\ UNCHANGED tables

\* The fresh history is searched for this signal only; the context keeps the
\* old one.
reload(s) ==
  /\ pc[s] = "reload"
  /\ \E n \in find_signal_event(events[wf[s]], Current(s).key) : Received(s, events[wf[s]][n].val)
  /\ UNCHANGED tables

-----------------------------------------------------------------------------
(***************************************************************************)
(* spawn_child (children.py).                                              *)
(***************************************************************************)
replay_spawn(s) ==
  /\ At(s, "spawn")
  /\ \E n \in find_child_started_event(history[s], step[s]) : Return(s, history[s][n].val)
  /\ UNCHANGED tables

spawn_child(s) ==
  /\ At(s, "spawn")
  /\ find_child_started_event(history[s], step[s]) = {}
  /\ create_child_workflow(wf[s], Current(s).key, step[s])
  /\ Return(s, Current(s).key)

-----------------------------------------------------------------------------
(***************************************************************************)
(* The clock, and faults, each kind bounded by MaxFaults.                  *)
(***************************************************************************)
\* The deadline of the n-th event of i passes.  Only deadlines something
\* compares with the clock: run_at, and the wakeup_at of a SLEEP event.
Elapse(i, n) ==
  /\ n \notin elapsed[i]
  /\ run_at[i] = n \/ events[i][n].type = "sleep"
  /\ elapsed' = [elapsed EXCEPT ![i] = @ \cup {n}]
  /\ UNCHANGED <<tables, run, code, request, faults>>

Fault(f) ==
  /\ faults[f] < MaxFaults[f]
  /\ faults' = [faults EXCEPT ![f] = @ + 1]

RunBy(i) == \E s \in Slots : Active(s) /\ wf[s] = i

LetLapse(i) ==
  /\ locked_until[i] = "future"
  /\ locked_until' = [locked_until EXCEPT ![i] = "past"]
  /\ UNCHANGED <<status, run_at, locked_by, events, elapsed, run, code, request>>

\* The lease of a workflow nobody runs any more lapses.
lapse(i) == ~RunBy(i) /\ LetLapse(i) /\ UNCHANGED faults

\* The heartbeat of a live run is late by more than the lock duration.
stall(i) == RunBy(i) /\ LetLapse(i) /\ Fault("stall")

\* A worker process dies and is restarted, perhaps with other code: its runs
\* are gone, the locks they held remain.
restart(w, v) ==
  /\ Fault("crash")
  /\ Over({s \in Slots : WorkerOf[s] = w})
  /\ code' = [code EXCEPT ![w] = v]
  /\ UNCHANGED <<tables, request, elapsed>>

\* A database call of a run raises.  Inside the workflow function the runner
\* takes it for an exception of the workflow; in the runner itself it is only
\* logged and the run ends with its lock held.
InRunner(s) == pc[s] \in {"load", "fail"} \/ (pc[s] = "step" /\ step[s] > Len(Body(s)))

\* The step at hand returns or raises from the history alone.
NoDatabaseCall(s) ==
  \/ At(s, "activity") /\ (~NotReplayed(s) \/ Diverges(s))
  \/ At(s, "sleep") /\ SleepElapsed(wf[s], history[s], step[s])
  \/ AtWait(s) /\ find_signal_event(history[s], Current(s).key) # {}
  \/ At(s, "spawn") /\ find_child_started_event(history[s], step[s]) # {}
  \/ At(s, "raise")

database_error(s) ==
  /\ Active(s) /\ ~NoDatabaseCall(s)
  /\ Fault("error")
  /\ IF InRunner(s)
     THEN Over({s})
     ELSE pc' = [pc EXCEPT ![s] = "fail"] /\ UNCHANGED <<wf, history, step, values, wake>>
  /\ UNCHANGED <<tables, code, request, elapsed>>

\* The activity pool was replaced while this activity was queued: its future is
\* cancelled, and CancelledError passes every "except Exception".
activity_cancelled(s) ==
  /\ pc[s] = "exec"
  /\ Fault("cancel")
  /\ Over({s})
  /\ UNCHANGED <<tables, code, request, elapsed>>

\* write_event inserts and notifies in two statements.  The insert of COMPLETED
\* commits and pg_notify raises; after every other write the workflow function
\* still makes a database call, so database_error covers those.
notify_error(s, r) ==
  /\ pc[s] = "exec"
  /\ Fault("error")
  /\ write_event(wf[s], Event("completed", step[s], None, r))
  /\ pc' = [pc EXCEPT ![s] = "fail"]
  /\ UNCHANGED <<wf, history, step, values, wake, code, request, elapsed>>

-----------------------------------------------------------------------------
ActivityStep(s) ==
  \/ replay_activity(s) \/ DivergenceError(s) \/ schedule(s)
  \/ \E r \in Results : complete_activity(s, r)
  \/ fail_activity(s) \/ retry(s) \/ exhaust_retries(s)

SleepStep(s) == wake_up(s) \/ re_suspend(s) \/ start_sleep(s) \/ suspend_sleep(s)

WaitStep(s) ==
  replay_wait(s) \/ write_marker(s) \/ mark_waiting(s) \/ already_received(s) \/ reload(s)

SpawnStep(s) == replay_spawn(s) \/ spawn_child(s)

RunnerStep(s) == run_workflow(s) \/ finish(s) \/ raise(s) \/ fail(s)

RunStep(s) == RunnerStep(s) \/ ActivityStep(s) \/ SleepStep(s) \/ WaitStep(s) \/ SpawnStep(s)

FaultStep ==
  \/ \E i \in Ids : stall(i)
  \/ \E w \in Workers, v \in Versions : restart(w, v)
  \/ \E s \in Slots : database_error(s) \/ activity_cancelled(s)
                      \/ \E r \in Results : notify_error(s, r)

ClockStep(i) == lapse(i) \/ \E n \in 1..Len(events[i]) : Elapse(i, n)

Next ==
  \/ \E i \in Ids : start_workflow(i) \/ ClockStep(i)
  \/ \E q \in Requests : send_signal(q) \/ write_signal(q)
  \/ \E s \in Slots : RunStep(s) \/ heartbeat(s) \/ \E i \in Ids : claim(s, i)
  \/ FaultStep

Spec == Init /\ [][Next]_vars

\* A run's awaits return (activities have timeouts, queries answer), every
\* claimable workflow is claimed by an idle slot (claims poll in run_at order),
\* time passes, and an accepted signal is written.  Nothing makes a client
\* start a workflow or send a signal.
Fairness ==
  /\ \A s \in Slots : WF_vars(RunStep(s))
  /\ \A i \in Ids : /\ WF_vars(\E s \in Slots : claim(s, i))
                    /\ WF_vars(ClockStep(i))
  /\ \A q \in Requests : WF_vars(write_signal(q))

FairSpec == Spec /\ Fairness

-----------------------------------------------------------------------------
(***************************************************************************)
(* Properties.                                                             *)
(***************************************************************************)
Marked(i, key) == \E n \in 1..Len(events[i]) : IsMarker(events[i][n], key)

EventCount(i, k, type) ==
  Cardinality({n \in 1..Len(events[i]) : events[i][n].step = k /\ events[i][n].type = type})

\* What the log records for step k of i, c being the step: at most one value.
Outcome(i, c, k) ==
  CASE c.op = "activity" -> {events[i][n].val : n \in find_completed_event(events[i], k)}
    [] c.op \in {"signal", "join"} -> {events[i][n].val : n \in find_signal_event(events[i], c.key)}
    [] c.op = "spawn" -> {events[i][n].val : n \in find_child_started_event(events[i], k)}
    [] c.op = "sleep" -> IF SleepElapsed(i, events[i], k) THEN {None} ELSE {}
    [] OTHER -> {}

\* Two runs never execute the same workflow at once: the lease of a run that
\* heartbeats in time keeps every other slot from claiming its workflow, across
\* crashes, restarts, suspensions and wake-ups (scheduler.py, queries.py).
OneRunPerWorkflow ==
  \A s, t \in Slots : (Active(s) /\ Active(t) /\ wf[s] = wf[t]) => s = t

\* Durable execution: everything a run has returned to the workflow function is
\* in the log, as what a replay of the log will return for that step.  A crash
\* at any point therefore replays to the same values (executor.py, context.py).
ReplayConsistent ==
  \A s \in Slots : Active(s) =>
    \A k \in 1..Len(values[s]) : Outcome(wf[s], Body(s)[k], k) = {values[s][k]}

\* No lost wake-up: a workflow that is waiting has a marker for something not
\* received yet, and if that is a child, the child can still finish and wake it
\* (mark_workflow_waiting_for_signal, mark_workflow_waiting_for_child).
WaitingIsWakeable ==
  \A i \in Ids : status[i] = "waiting" =>
    \E key \in SignalTypes \cup Ids :
      /\ Marked(i, key) /\ ~SignalReceived(i, key)
      /\ key \in Ids => status[key] \in Live

\* A step starts at most one child, however often its parent is replayed or run
\* twice at once, and a child's row, with the parent its STARTED event names, exists
\* exactly when a CHILD_STARTED event in that parent's log names the child
\* (create_child_workflow).
SpawnedOnce ==
  \A p \in Ids :
    /\ \A k \in 1..Len(events[p]) : EventCount(p, k, "child_started") <= 1
    /\ \A c \in Ids :
         (\E n \in 1..Len(events[p]) : events[p][n].type = "child_started" /\ events[p][n].key = c)
           <=> (status[c] # "absent" /\ \E n \in find_event(events[c], 0, "started") : events[c][n].key = p)

\* An activity step is scheduled and completed at most once in the log, even
\* when a run dies anywhere between the two and another takes over.
RecordedOnce ==
  \A i \in Ids : \A k \in 1..Len(events[i]) :
    /\ EventCount(i, k, "scheduled") <= 1
    /\ EventCount(i, k, "completed") <= 1
    /\ EventCount(i, k, "sleep") <= 1

\* An activity fails at most retries + 1 times, plus once for each crash or
\* database error so far: one that hits a run between the FAILED event and what
\* follows it leaves the attempt to be repeated (_handle_activity_failure).
RetriesBounded ==
  \A i \in Ids : \A k \in 1..Len(events[i]) : EventCount(i, k, "failed") > 0 =>
    \E v \in Versions :
      /\ k <= Len(Program[v][i])
      /\ EventCount(i, k, "failed") <= Program[v][i][k].retries + 1 + faults["crash"] + faults["error"]

\* A workflow is completed only when every step of (some version of) its code
\* has its outcome in the log: nothing is skipped by a replay or a takeover.
CompletedIsBacked ==
  \A i \in Ids : status[i] = "completed" =>
    \E v \in Versions : \A k \in 1..Len(Program[v][i]) : Outcome(i, Program[v][i][k], k) # {}

\* A parent that is told its child completed finds the child completed, and
\* one told it failed finds it failed (_write_terminal_workflow_event).
ChildOutcomeTrue ==
  \A i, j \in Ids : \A n \in find_signal_event(events[i], j) :
    status[j] = IF events[i][n].val = Done THEN "completed" ELSE "failed"

\* However a child ends (it returns, raises, exhausts its retries, diverges, or
\* no worker registers it), the outcome is in its parent's log by then.
ParentTold ==
  \A i, j \in Ids :
    (status[j] \in Terminal /\ \E n \in find_event(events[j], 0, "started") : events[j][n].key = i)
      => SignalReceived(i, j)

\* An activity body executes only as the call its SCHEDULED event recorded,
\* whatever code the worker that resumes the workflow runs (execute_activity).
ExecutesWhatWasScheduled ==
  \A s \in Slots : pc[s] = "exec" =>
    \E n \in find_scheduled_event(events[wf[s]], step[s]) : events[wf[s]][n].key = Current(s).key

\* An attempt that failed is not repeated before its deadline unless a signal or
\* a child's end came after the failure, which makes the workflow due at once
\* (write_signal_and_wake_workflow), or a crash or a database error kept the
\* deadline from run_at (_handle_activity_failure).
BackoffKept ==
  \A s \in Slots : (pc[s] = "exec" /\ faults["crash"] + faults["error"] = 0) =>
    LET log == events[wf[s]] IN
    \A n \in 1..Len(log) : (log[n].type = "failed" /\ log[n].step = step[s]) =>
      \/ n \in elapsed[wf[s]]
      \/ \E m \in (n + 1)..Len(log) : log[m].type = "signal" /\ log[m].val # Waiting

\* Every started workflow ends or waits: no run, retry, sleep, lock left behind
\* by a dead worker or wake-up keeps a workflow in "running" for ever.
Settles == <>[](\A i \in Ids : status[i] # "running")

-----------------------------------------------------------------------------
(***************************************************************************)
(* What documents and comments of the repository say of the program, and   *)
(* the code does not do.                                                   *)
(***************************************************************************)
\* PLAN.md: a workflow that exhausted its retries is marked FAILED, "no further
\* scheduling".
NotScheduledAgain == [][\A i \in Ids : status[i] = "failed" => status'[i] # "running"]_vars

\* tests/test_stress.py asserts that no workflow has "more than one terminal
\* event"; send_signal answers 409 for a workflow that is not running.
OneTerminalEvent ==
  \A i \in Ids :
    Cardinality({n \in 1..Len(events[i]) :
                   events[i][n].type \in {"workflow_completed", "workflow_failed"}}) <= 1
=============================================================================
