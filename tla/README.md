# Temporal-Light in TLA+

Temporal-Light is a small durable-execution engine: clients start *workflows*
through an HTTP API, *workers* claim them from Postgres, replay their event log
and run their code forward, and every outcome (an activity's result, a sleep, a
signal, a child workflow) is an event in the log, so that a worker may die at any
point and another goes on. This directory holds its TLA+ model, the TLC runs that
check it and the TLAPS proofs about it. Everything is translated from the source;
`PROJECT.json` ("map") names the lines each definition stands for.

## 1. Inventory

| Component | Source | State | Operations | Interaction | Module |
|---|---|---|---|---|---|
| Tables and queries | `db/schema.sql`, `db/queries.py`, `models.py` | `workflows` rows (status, run_at, locked_by, locked_until), `events` log, `workers` | one transaction or statement per query | shared by every worker and the API | `Queries`, `AtomicQueries`, `Transactions` |
| Scheduler | `worker/scheduler.py`, `config.py` | set of active tasks | claim loop, one lock heartbeat per run, worker heartbeat | claims rows, starts runs | `Engine`, `Lease`, `Scheduler` |
| Runner | `worker/runner.py` | the run's context | load history, call the workflow function, map its outcome to complete / fail / suspended | called by the scheduler, calls queries | `Engine`, `EngineDurable`, `Durable` |
| Context and executor | `worker/context.py`, `worker/executor.py` | history loaded, step counter | replay, divergence check, schedule, body, completed / failed, retry | called by user code through decorators | `Engine` |
| Sleep, signals, children | `sleep.py`, `signals.py`, `children.py` | none of their own | sleep, wait_for_signal, spawn_child, wait_for_child | call queries, read the context's history | `Engine` |
| API | `api/server.py` | none | start, send_signal (check, then write), read-only endpoints | writes tables, opens streams | `Engine` |
| Event stream | `api/sse.py` | subscriber queues, LISTEN connection | notify dispatch, per-stream generator | API, Postgres NOTIFY, client | `Stream` |
| Client | `client.py` | retry count | start, signal, result over SSE | API | `Stream`, `Engine` |
| Activity pool | `worker/activity_pool.py` | process pool | submit, replace when broken, shutdown | executor | `ActivityPool` |
| JSON conversion | `serialization.py`, codec of `db/connection.py` | none | to_json_safe, from_json_safe | executor | `Serialization` |
| Worker process | `worker/worker.py` | registry, pools | start, shutdown | all of the worker parts | `Engine`, `Scheduler` |
| Registration, connections, migration, profiling, decorators, dashboard | `db/connection.py`, `db/migrate.py`, `profiling.py`, `decorators.py`, ... | nothing the others read | I/O | - | - |

What is hard, and which property is about it (every hazard with its line is in
`PROJECT.json`, "hazards"):

- **Lost wake-ups.** A signal or a child's end may commit between a run's look at
  its history and the moment it marks its workflow waiting: `WaitingIsWakeable`,
  which rests on row locks, `Atomic`.
- **Check, then act.** The API checks a workflow's status and writes the signal in
  two calls: `OneTerminalEvent`. A child's end revives its parent whatever the
  parent's status is: `NotScheduledAgain`.
- **Transactions that meet.** Several row locks each, taken in different orders:
  `EveryTransactionEnds`. Two runs that create one child: `SpawnedOnce`, `Atomic`.
- **Crashes between two writes.** After `FAILED`, `SLEEP`, `COMPLETED`, a marker or
  a claim: `ExecutesDurably`, `ReplayConsistent`, `RecordedOnce`, `RetriesBounded`,
  `Settles`; between a claim and its task: `HeldByOne`.
- **One run at a time.** A workflow is made due while a run of it is under way, and
  locks are released by id alone: `OneRunPerWorkflow`.
- **Leases that lapse under a live run.** No write is fenced by `locked_by`, so two
  runs go on. What survives that: `SpawnedOnce`, `CompletedIsBacked`,
  `WaitingIsWakeable`. Whether they lapse is a matter of the
  heartbeat, the clocks and the configuration: `OneRunAtATime`,
  `AbandonedIsReclaimed`.
- **Early wake-ups.** A signal resets `run_at` of a workflow that sleeps or backs
  off: `BackoffKept`; `ReplayConsistent`, `ExecutesDurably`, `Settles`.
- **Changed code.** A workflow in flight is resumed by a worker with another version:
  `ExecutesWhatWasScheduled`. Unchanged code whose values went through JSON must not
  be taken for changed code: `NoFalseDivergence`, `RestoredAsReturned`.
- **Many ways to end.** Each must tell the parent, and tell the truth: `ParentTold`,
  `ChildOutcomeTrue`.
- **The end of a worker.** Cancellation arrives at any await of the loop:
  `NothingAfterExit`, `StopsInTheEnd`, `WithinCapacity`, `EveryoneIsServed`.
- **Streams.** Ids against commit order, notifications lost, early or repeated,
  an API that restarts: `InOrderOnce`, `AnswerIsTrue`, `MissedForAReason`,
  `TailingIsAnswered`, `AnsweredAfterTheEnd`.
- **Pools.** A healthy pool torn down by a late failure, work lost in a replaced pool:
  `OneBodyPerRun`, `DamageBounded`, `EveryAttemptEnds`; the lock of a workflow whose
  activity was cancelled with the pool: `Settles`.
- Five hazards have no property. Three are what the code does, and nothing in the
  repository promises otherwise: a database error inside a workflow function fails the
  workflow for good (runner.py:83), a claim that raises ends its worker
  (scheduler.py:52), a body given up by its timeout goes on in the pool
  (executor.py:179). The models have these steps; the properties hold despite them or
  excuse them by name. A workflow result that is not JSON makes
  `complete_workflow` raise in the runner (runner.py:92), so the workflow is claimed,
  replayed and raises again for ever; nothing in the repository promises otherwise.
  And deadlines come from the worker's clock while `run_at` is compared with the
  database's (executor.py:239): `Engine` has no clock values to disagree about.

## 2. Modules

| Module | What it is |
|---|---|
| `Queries` | the tables, the look-ups in a history, and one operator per query that changes the tables |
| `Engine` | the core: clients, slots of workers running workflows, clock, faults; properties |
| `MCEngine` | programs, fleets and fault budgets for TLC; the `.cfg` files choose among them |
| `Durable` | abstract specification of durable execution |
| `EngineDurable` | the mapping under which `Engine` implements `Durable` |
| `AtomicQueries` | abstract specification of the tables: each query takes effect at one instant |
| `Transactions` | the queries statement by statement, with row locks; implements `AtomicQueries` |
| `Lease` | one workflow's lock in real time |
| `Scheduler` | the loop of the worker processes, from start to graceful end |
| `ActivityPool` | activity bodies in process pools that break and are replaced |
| `Stream` | from the writers of one log through NOTIFY and the event stream to `result()` |
| `Serialization` | what becomes of arguments and results between execution and replay |
| `MCTransactions`, `MCLease`, `MCStream`, `MCSerialization` | loads, budgets, classes and values for TLC |
| `EngineProof` | proofs about `Engine`: types, mutual exclusion, no lost wake-up, parents are told, tables change by atomic queries only |
| `EngineReplay` | proofs about the log of a workflow: nothing skipped, recorded twice, answered differently or repeated too early or too often |
| `EngineDurableProof` | proof that `Engine` implements `Durable`, and of the programs for which it does so unconditionally |
| `TransactionsProof` | proof that transactions implement the atomic queries and do not deadlock |
| `LeaseProof` | proof that a lock that is long enough excludes a second run |
| `SchedulerProof` | proof of capacity, orderly exit and one holder per lock |
| `ActivityPoolProof` | proof of one body per run and of the bound on replaced pools |
| `StreamProof` | proof of the order of a stream, the truth of answers and the reasons to miss an end |

The modules meet at three points. `Engine` uses the queries of `Queries` as atomic
steps; `Transactions` shows that they are, and `TablesMoveByQueries` that `Engine` calls
them as `Transactions` assumes. `Engine` lets a lock lapse under a live
run when the budget of stalls allows it; `Lease` says which configurations have a
budget of zero. `Engine` lets a body end, or its wait be cancelled, at any time;
`ActivityPool` says how that comes about, and that it always does.

### Engine

- A **slot** is one asyncio task of a worker (`worker_concurrency` of them).
  `pc` is what the task awaits: `load` (history), `step` (running workflow code up
  to its next call), `exec` (activity body), `failed`, `sleeping`, `marking`,
  `reload`, `fail` (the query that comes next). Between two awaits a task does
  nothing another actor can see, so an action ends at each database call. `wf`,
  `history` and `step` are the fields of `WorkflowRecord` and `WorkflowContext`;
  `values` is what the workflow function has received so far (a history variable
  for `ReplayConsistent`). `history` is the list loaded at the start; as in the
  code nothing refreshes it during a run.
- **Programs.** A workflow function is deterministic user code; the model takes a
  straight line of steps per version, each an activity, a sleep, a signal wait, a
  spawn, a join or a raise. Branching on results adds programs, not behaviours of
  the engine; an exception is not caught by the workflow function.
- **Step 0** is the code's `step_index = -1`; other steps are the code's plus one.
- **Time.** The code compares clocks with the deadlines recorded in `SLEEP` events
  and computed after `FAILED` events. A deadline is "the deadline of the n-th event
  of this log": `run_at[i] = n` waits for it, `0` is a time already reached,
  `elapsed[i]` holds the deadlines passed. They pass in any order, which covers all
  durations. `locked_until` is `future` until `lapse` or `stall`.
- **Keys.** A signal's type and a child's id are the key of a signal event, so
  `wait_for_signal` and `wait_for_child`, which run the same protocol under two
  names, are one set of actions; only a failed child is different (`Received`).
  A child's id is fixed by its parent and spawning step, which is
  `ChildIdAssumption`; that workflows join what they spawned is `WaitAssumption`.
- **Claim order.** The code takes the eligible row with the smallest `run_at` and
  skips locked rows; as deadlines have no values, any eligible row may be taken.
  The order is `Scheduler`'s subject.
- **Log order.** Events are in commit order. For one workflow the code orders them
  by id; where that matters, in streams, is `Stream`'s subject.
- **Database errors** (`database_error`) are raised before the call commits, only at a step that calls the database, with
  one exception that the code makes observable: `write_event` inserts and notifies
  in two statements (`notify_error`). Inside the workflow function the runner takes
  an error for the workflow's own and fails it; in the runner it is logged and the
  lock stays.
- **Heartbeats.** `heartbeat` extends the lock by workflow id alone, whoever holds
  it, as the query does. One that is in flight while its run ends only refreshes
  `locked_until` of a row whose `locked_by` is null, which no guard reads.

Actions: `start_workflow`, `send_signal`, `write_signal` (`api/server.py`); `claim`,
`heartbeat`, `lapse`, `stall` (`worker/scheduler.py`); `run_workflow`, `finish`,
`raise`, `fail` (`worker/runner.py`); `replay_activity`, `DivergenceError`,
`schedule`, `complete_activity`, `fail_activity`, `retry`, `exhaust_retries`
(`worker/executor.py`); `wake_up`, `re_suspend`, `start_sleep`, `suspend_sleep`
(`sleep.py`); `replay_wait`, `write_marker`, `mark_waiting`, `already_received`,
`reload` (`signals.py` and `children.py`); `replay_spawn`, `spawn_child`
(`children.py`). Faults: `restart` (a process dies and comes back, perhaps with other
code), `stall`, `database_error`, `notify_error`, `activity_cancelled` (a replaced
pool). Each kind of fault has a budget, `MaxFaults`; nothing else bounds a run:
programs are finite, retries are, and clients send each request once.

In all modules, operators that a comment calls `mutant` are used by no action; they
are plausible bugs put in the place of a definition to see a property fail.

### Transactions and AtomicQueries

`AtomicQueries` is `Queries` with callers that send any query of `Load`, a set of
records of a query's name and arguments. `Transactions` splits each into the
statements of `queries.py`, in their order (`Statements`), and runs them on
`Connections` at the same time as READ COMMITTED does: a statement reads what is
committed when it starts, waits for the row locks it conflicts with, and its writes
stay in `draft` and `inserted` until `commit`. Locks have Postgres's three modes the
schema and the queries use: foreign-key checks share, `UPDATE` excludes `UPDATE`,
`FOR UPDATE` and a new row exclude everything; `SKIP LOCKED` passes over a row that
is locked in any mode. `rollback` may end a transaction at any point. The mapping is
the identity, as the tables are the committed ones: `Atomic == A!Spec`. An `UPDATE`
of a row that another transaction changed starts from the newest version, which
Postgres re-reads after waiting; the code's conditions name primary keys only, so
re-evaluation never drops the row. `create_workflow` is left out: no other
transaction knows its id.

### Lease

`left` is `locked_until - NOW()`, and a timer per task holds the ticks until its
next step is due at the latest, so that time has no bound and the states are finite.
`claim` writes the lock's end from the worker's clock, `Skew` off; a step takes at
most `Delay` from when it is due; up to `MaxFailures` extensions in a row raise. A
body that hangs (`hang`) does not stop the heartbeat, nor does a run that has just
released the lock, whose heartbeat may extend a successor's lock. `die` is the death
of the process and the end of a run that leaves its lock.

### Scheduler

One action goes from one await of `_scheduler_loop` to the next: reaping, the check
for capacity and the choice that follows happen in `look`. The claim has a commit
and a return (`committed`), since cancellation may arrive between them. `queue` is
the table's eligible and soon eligible rows in the order of `run_at`. `interrupt`
and `query_raises` end the loop, `exit` after `gather` closes the pools. A run only
gives its workflow up or raises; `Engine` has the rest.

### ActivityPool

`pools` are all the executors of a worker in the order they were made; `submit`,
`mark_broken` and the replacement are `activity_pool.py`, the ways a wait for a
future ends are `_run_activity_body`. The library's `ProcessPoolExecutor` is
external: `feed`, `take`, `finish`, `process_dies`, `terminate_broken` and
`flag_executor_shutting_down` are what the code relies on. A future that has been
handed to the call queue can no longer be cancelled; an executor that is dropped
right after `shutdown(wait=False, cancel_futures=True)` may be collected before its
manager thread reads the flag, hence the choice in the last of these actions.

### Stream

`log[n]` is the row with id `n`, which the sequence assigns at `insert`; `visible`
are the ids committed. `commit` and `notify` are one step for a transaction and two
for `write_event`. `on_notify` puts an item into each registered queue; a stream
loads the history (`open`), sends it, registers its queue (`register`) and then reads
what is after its cursor for every item (`get`, `load_events_after`). `result(c)` is
a call of `WorkflowHandle.result()` with three attempts, a backoff and perhaps a
timeout. Faults: a writer dies with its transaction open or its notification owed,
the API process ends and comes back, the LISTEN connection is lost. Keep-alive lines
and the one-second poll for a disconnected client carry no state.

### Serialization

A Python value is a node with a kind, a class or written form, and items; an
annotation is a constructor with arguments. `to_json_safe` and `from_json_safe` with
their helpers are the code's; `Stored` is `json.dumps` and back through `jsonb`;
`model_validate` is pydantic's, as far as plain fields, lists and models go. A
workflow runs one activity whose result is the argument of a second; then it is
replayed from either point. `Faithful` and `SameJson` say for which annotations the
two properties hold. Excluded: dicts with two keys that are written alike, and
`Any` as a member of a union. Dates, bytes and the like are one kind, `object`, that
`json.dumps` does not take; floats, which are treated as ints are, are left out.

### Durable and EngineDurable

`Durable` is execution without an engine: the steps of a workflow are decided in
order, each once; signals and the ends of joined children are taken when they come; a
workflow ends once, at the step it has come to, and its parent learns how.
`EngineDurable` maps `Engine` to it. `state` is the status with `running` and
`waiting` as one; `outcome[i][k]` is what the *log* says of step k, so a step is
decided at the write, and a crash after it decides nothing anew. It is stated for one
version of the code.

## 3. Runs

Slots of `Engine` are permuted by symmetry except in `engine_deploy`, which checks
liveness. A run that finds every workflow ended has no step left, so deadlock is not
checked in the runs of `Engine`: the system really stops there, and `Settles` is what
says it does not stop elsewhere. The same holds for a stream that has answered, a
loop that has exited, a pool without work and transactions that reached their bound,
each with its own liveness property. `lease` never stops and checks deadlock.

| Run | Instance | Shows |
|---|---|---|
| `engine_crash` | parent (sleep, signal, activity, spawn, join) and child (activity); 2 workers, 2 crashes, 2 results; the signal may come during the sleep; 96,645 states | mutual exclusion; replays return what was returned; activities and sleeps recorded once; attempts bounded; a child's outcome is the truth; `Engine` implements `Durable` |
| `engine_fanout` | 2 children joined in the opposite order, signal to a child; 1 worker with 2 slots; 1 crash, 1 database error, 1 cancelled activity; 491,385 states | no lost wake-up; nothing skipped |
| `engine_stall` | signal, spawn, join; 2 workers, 2 stalls; 406,690 states | with two runs of one workflow at once: still no lost wake-up, one child per spawn and none its parent does not know of, nothing skipped |
| `engine_deploy` | parent (activity, sleep, spawn, signal, join) and child (raise); version 2 changes the activity and does not register the child; 2 workers, 1 crash, 1 cancelled activity, 1 signal at any time, fairness; 239,888 states | no activity runs as something else than scheduled; parents are told on every path; a backoff is cut short by a signal only; every started workflow ends or waits |
| `txn` | 11 queries about a parent and a child that does not exist yet; 2 connections, 4 transactions; 78,619 states | transactions implement the atomic queries; no deadlock |
| `lease` | 3 tasks; duration 8, interval 2, delay 1, skew 1, 1 failure; 226,327 states | no second run; a lock left behind is taken over |
| `loop` | 2 workers of capacity 1, 3 workflows; 1 signal, 2 interruptions or errors, 1 raise; 139,759 states | capacity; locks kept alive have one owner; nothing left at exit; nobody starves; a worker told to stop stops |
| `pool` | 2 runs with 2 attempts, 1 process, 2 deaths; 78,768 states | no body beside its successor unless given up; replacements bounded; every attempt ends without a timeout |
| `stream` | 1 client with a timeout, a worker with 2 writes, 1 signal; 2 faults; 315,855 states | order, truth of answers, the only two reasons to miss an end, and when the client is sure to get it |
| `serial` | every annotation up to 2 containers deep over plain types, 3 models, 3 dataclasses, and unions of containers; 41,452 states | values restored as returned where annotations tell them apart; replays not taken for changed code |

Bounds. Two slots are enough for two runs to meet, on one worker or on two; every
race of the engine is between two actors and the tables. Two crashes let the takeover
of a crashed run crash too, and two stalls let each of two runs be overtaken. One
request is enough because a signal type is waited for once; several requests would
only repeat the wake-up. One retry gives the first attempt, a retry and exhaustion.
Two connections are enough for any conflict of two queries, and four transactions for
each of them to follow another's commit; atomicity is proved for any number, a circle
of three transactions is outside the run. In `lease` the duration is the least one the
assumption allows, 8 = 1 + 1 + 2 * 3, so that every step counts, and a third task sees
two others in a row. In `loop` one workflow more than the workers can take makes
them queue, and two stops end both workers; workflows that raise or are signalled
for ever are outside the run. In `pool` one process makes attempts
queue; two deaths break a pool and the pool that replaced it. In `stream` one event before the
last, one signal and one client give every order of ids, commits, notifications and
reads; streams share nothing but the connection that notifies them all. Two faults of
three kinds, in every combination that can interact, include the API restarting while
a client backs off and three attempts that fail.

Fairness. `engine_deploy`: a run's awaits return, because activity bodies have
timeouts and queries answer; an eligible workflow is eventually claimed, because
workers poll for ever and the order by `run_at` starves none (`EveryoneIsServed` of
`Scheduler`); time passes; an accepted signal is written. `txn`: Postgres executes
what it was sent. `lease`: time goes on, workers poll, the event loop serves its tasks
and activities have timeouts. `loop`: the event loop serves every task, runs end and
abandoned locks lapse. `pool`: the event loop, the pool's threads and its processes go
on, and bodies end; no timeout is relied upon. `stream`: writers finish what they
began, Postgres delivers, the API serves and a client goes on with a call it made.
Nothing makes a client start, signal or ask for a result, an API restart, or a fault
happen. Weak fairness suffices: each of these stays enabled until it is taken.

Violations. Two statements of the repository that the code does not keep, each with
the shortest program that shows it, recorded as code bugs: `doc_signal`
(server.py:115-119, test_stress.py:90-91), a signal checked before and written after
the end runs a completed workflow again, and `doc_child` (PLAN.md:330), the end of a
child revives its failed parent. `PROJECT.json` ("findings") has the details.

Other disagreements were met while modelling. They are part of the models, and the
properties state what does hold:

- README.md:144: the number of attempts; a crash after `FAILED` grants one more
  (`RetriesBounded` has the bound).
- README.md:146: the backoff; a signal cuts it short (`BackoffKept`).
- sleep.py:23-25: a workflow that is claimed has not always slept long enough; it
  goes back to sleep (`re_suspend`).
- PLAN.md:203: divergence; a completed step is not compared with the code.
- README.md:223 and sse.py:58-60: `result()` may wait for ever, if the end is
  committed and announced between the endpoint's read and the registration, or if a
  signal with a larger id commits first (`MissedForAReason`, `TailingIsAnswered`).
- client.py:40-42: a workflow that returns `None` makes `result()` give up after
  reading its end three times (`AnswerIsTrue`).
- PLAN.md:270: `locked_until` is the database's time plus the duration; queries.py:176
  takes the worker's clock (`Skew` in `Lease`).
- documentation/FUTURE.md:17: a hung activity loses its lock; the heartbeat extends it for as long
  as it hangs (`LiveLocksHold`).
- scheduler.py:26: the loop runs until cancelled; a query that raises ends it too
  (`query_raises`).
- README.md:72 and 145: the timeout is of the activity; it includes the time in the
  pool's queue (`time_out` while `pending`).
- README.md:116 and 148: what comes back is what was returned; not for unions whose
  members JSON does not tell apart, `bool` keys and containers without item types
  (`Faithful`).

## 4. Proofs

TLAPS checks all theorems to the last leaf with SMT, Zenon and LS4. They hold for
every value of the constants that satisfies the assumptions of the modules:
`ConstantsAssumption`, `DistinctAssumption`, `ChildIdAssumption` and `WaitAssumption`
of `Engine`, `FailedAssumption` of `EngineDurable` (the outcome of a failed child is
no result, payload or id), `TransactionsAssumption` and `NullAssumption`, and one
assumption each of `Lease`, `Scheduler`, `ActivityPool` (in which the runs of a worker
are finitely many, as `worker_concurrency` bounds them) and `Stream`. TLC evaluates
each of them on the runs, and has checked each inductive invariant named below on
small instances. Some theorems have hypotheses of their own, named with them:

- no stall, `MaxFaults["stall"] = 0`: no heartbeat is later than the lock lasts. `Lease`
  says which configurations this holds of (`LongEnough`);
- `NeverRevived`: no ended workflow is made running again. The code does that in
  the two cases of `doc_signal` and `doc_child`, so the theorems that need it say what
  is true until one of these happens. For programs that are `Tidy` it is proved
  (`EndsAreFinal`);
- `Reliable`: no stall, no database error, one version of the code, which every
  worker registers. A database error in the workflow function fails the workflow,
  and new code may decide differently: neither is execution as `Durable` means it;
- `Tidy`: clients send a workflow one signal of a type, and by a step at which the
  workflow may end it has waited for all of them and joined every child it spawned;
- `Nested`: in a load of `Transactions`, children are below their parents.

### Engine, the tables and the lock (`EngineProof`)

- `TypeCorrect`: `Spec => []TypeOK`. `TypeOK` is inductive. Its interesting part is that a
  slot with a run has a workflow, so that programs are looked up where they are defined.
- `EngineProof!MutualExclusion`: if `MaxFaults["stall"] = 0`, then
  `Spec => []OneRunPerWorkflow`. Mutual exclusion is not inductive; `LeaseHeld` is:
  each run holds the lease of its workflow (`locked_by` is its slot) and the lease
  has not lapsed. A claim needs a free or lapsed lease, so it never meets a run;
  suspension releases only the run's own lease, *because* it holds it. The
  assumption cannot be dropped: under a stall the property is false, as the code
  has no fencing.
- `EngineProof!NoLostWakeup` (`Spec => []WaitingIsWakeable`) and
  `EngineProof!ParentIsTold` (`Spec => []ParentTold`), *with* stalls: they do not rest
  on mutual exclusion. The inductive invariant `Inv` says, of the tables: a row's
  log starts with `STARTED` and names an existing parent (`RowsInv`); a row that is
  no root comes from the site that spawns it (`OriginInv`); a `CHILD_STARTED` event
  names a child of this workflow at its spawning step (`SitesInv`); a terminal child
  has told its parent (`ToldInv`); a waiting workflow has a marker for something not
  received, which if it is a child is its own (`WakeInv`). Of a run: its workflow
  exists (`Exists`), its history is a prefix of the log (`Prefix`), what it awaits
  fits the step it is at (`InStep`), a run past a spawn left the child in the tables
  (`Passed`), and a run about to mark its workflow waiting has its marker in the log
  (`Marking`). `Passed` and `WakeInv` give the awaited child, `ToldInv` that it is
  still live. The proof has two halves. Each action makes one of a few steps of the
  tables (`QuietStep`, `StartStep`, `SignalStep`, `WaitingStep`, `EndStep`,
  `SpawningStep`, together `TableStep`), which keep the invariants of the tables; and
  each moves one run (`RunMoves`, `RunReturns`, `RunOver`) while the others stay
  (`RunStays`), because logs only grow.
- `EngineProof!TablesMoveByQueries`: `Spec => [][TableMove]_<<tables, elapsed>>`, stalls and
  all faults included. `TableMove` is one query of `AtomicQueries` taking effect, the
  creation of a root, or time passing; and the query is one its callers may ask
  (`Askable`): well formed as `TransactionsAssumption` demands, about a row that exists,
  and at an end with the parent the row names. Apart from `create_workflow`, which
  `Transactions` leaves out, what `Transactions` does atomically is all that `Engine`
  does to the tables. It rests on `Inv`, as a run's workflow and the parent it tells
  must exist.

### Engine, the log (`EngineReplay`)

The invariant is built up in three layers.

- *Whatever happens*, stalls included: `BackedInv` adds to `Inv` of `EngineProof` that a
  `CHILD_STARTED` event records the child it names, that no two of them name one child
  and that every child has one (`SpawnInv`), and that each step a run has passed has an
  outcome in the log (`Backed`). The last is inductive because outcomes stay as logs
  grow (`OutcomeStays`, `Unforgotten`). It gives `CompletedBacked` (`Spec =>
  []CompletedIsBacked`) and `SpawnsOnce` (`Spec => []SpawnedOnce`): nothing is skipped and
  no child started twice, and none without its parent's knowledge, even while two
  runs execute one workflow.
- *Without stalls*: `ReplayInv` adds mutual exclusion (`LeaseHeld`), that the workflow of
  a run is running, and what the log says of its run (`RunLog`): of what was appended
  since the history was loaded, only what the run itself wrote is about its own step
  (`Ahead`), a body executes only if it has not completed (`Undone`) and as scheduled
  (`Scheduled`), the failures counted are those in the log (`Attempts`), and each value
  returned is an outcome in the log (`Valued`). `LeaseHeld` is what makes these inductive:
  the history is not read again, so a second run could record a step behind the first
  one's back, and does so under a stall. Hence `ReplaysAlike`
  (`ReplayConsistent`), `RecordsOnce` (`RecordedOnce`) and `ExecutesAsScheduled`
  (`ExecutesWhatWasScheduled`).
- *Failed attempts and ended children*: `RetriesWait` (`BackoffKept`) needs that the deadline of each
  failed attempt has passed, is awaited, or has been overtaken by a signal or the end
  (`BackoffInv`). `RetriesAreBounded` (`RetriesBounded`, given `NeverRevived`) needs that
  an attempt beyond those allowed is at hand or has ended the workflow (`RetriesInv`).
  `ParentsAreToldTheTruth` (`ChildOutcomeTrue`, given `NeverRevived`, stalls
  included) needs that what a log says of a child's end is how the child stands
  (`ChildTold`).

### Engine implements Durable (`EngineDurableProof`)

`DurablyExecuted`: if `Reliable`, then `Spec /\ NeverRevived => ExecutesDurably`. The initial
states map to those of `Durable`, and each action maps to a step of it or to a stutter:
the writes of an outcome (`complete_activity`, a deadline that passes, a signal, a
child's end) to the decision of the step, `start_workflow` and `spawn_child` to the
start, `finish` and `fail` to the end with the parent learning of it; claims, loads, replays,
markers, suspensions and crashes to stutters. The guards of `Durable`'s steps, that
all earlier steps are decided and this one is not, are what the code never checks:
they come from `DurableInv`, which adds to `ReplayInv` that only deadlines of events in
the log have passed (`ElapsedPast`), that sleeps begin in order (`SleepsInOrder`), that
calls are those of the code (`CallsKept`), that only a child's end carries a failure
(`Payloads`), that a run does not go on after a failed child (`NotFailed`) and fails
its workflow only where the code raises or a child has failed (`Failing`).

`NeverRevived` restricts behaviours, and the code does not keep it. The second half of
the module replaces it by a condition on programs and clients. A workflow that ended
is revived by a signal that was accepted before the end and written after it, or by
a child that ends after it, and `Tidy` programs leave neither: a step that may end the
workflow (an activity, a raise, a join, or the end of the code) comes after the
signals are received and the children joined. `EndsAreFinal`: if `Reliable` and `Tidy`,
then `Spec => NeverRevived`. The inductive invariant `TidyInv` adds to `DurableInv` that a
signal in a log is that of a request answered (`SignalsSent`), that children are spawned
in order (`SpawnsInOrder`), and that when a workflow has ended no signal to it is on its
way and its children have ended (`Finished`). With it, and no hypothesis on behaviours:

- `TidyIsDurable`: `Spec => ExecutesDurably`;
- `TidyTellsTheTruth` and `TidyRetries`: `ChildOutcomeTrue` and `RetriesBounded`;
- `TidyFailsForGood` and `TidyEndsOnce`: `NotScheduledAgain` and `OneTerminalEvent`, the two
  claims of the repository's documents that `doc_child` and `doc_signal` refute for
  programs that are not tidy.

`Tidy` holds of `ParentChild`, the program of `engine_crash`, on which TLC has
checked `TidyInv` and what follows from it, and not of `FanOut` or `Unjoined`.

### The lock in real time (`LeaseProof`)

- `LeaseProof!LongLocksExclude`: `LongEnough /\ Spec => []OneRunAtATime`, where
  `LongEnough` is `LockDuration >= Skew + Delay + (MaxFailures + 1) * (HeartbeatInterval
  + Delay)`. This is the configuration under which the assumption of `MutualExclusion`
  is right. The inductive invariant (`Inv`) bounds each live run's lock from below by
  the time until its next extension succeeds at the latest: the timer of its next
  step plus one period for each extension that may still fail (`Held`), and steps are
  due in time (`Due`). An extension by someone else only helps, and `OneRunAtATime`
  itself is needed, since a release by one run would take the lock of another.
- `LeaseProof!LiveLocksHold`: under the same condition the lock of a live run has not
  lapsed at any moment; from the same invariant.
- `LeaseProof!LeaseTyped`: `Spec => []TypeOK`, for locks of any length.

### Transactions (`TransactionsProof`)

- `TransactionsProof!TransactionsAreAtomic`: `Spec => Atomic`, the refinement of
  `AtomicQueries`, for every load, number of connections and interleaving. It is the
  assumption under all theorems about `Engine`, in particular under `NoLostWakeup`.
  The inductive invariant: locks exclude each other (`Exclusion`); a statement leaves
  its lock held to the end (`LocksHeld`); what a transaction has written is based on
  the newest versions (`Drafted`), and what it has read still holds (`ReadsHold`),
  *because* of those locks; it has executed a prefix of its statements (`Progress`).
  So at `commit` the drafts are the query's effect on the current tables; every other
  step leaves the tables alone.
- `TransactionsProof!TransactionsNeverDeadlock`: `Nested => (Spec => [](NoDeadlock /\
  NoStandstill))`. No connections wait for each other in a circle, and while a
  transaction is under way one of them can commit or execute its next statement, for
  every load, number of connections and broken connection. The only transaction that
  waits while another waits for it is the end of a child, which holds the child's row
  and waits for its parent's (`WaitsClimb`): so waits go up the tree, and a circle
  would need a row below itself. A lock is held only because
  of a statement that takes it (`LocksEarned`), and rows to be updated exist
  (`RowsPresent`). `children.py` builds a child's id from its parent's, which is why
  callers are `Nested`. The hypothesis is needed: with the ends of two workflows that
  name each other as parents TLC finds the deadlock. Together with fairness this is why
  `EveryTransactionEnds` holds.
- `TransactionsProof!TransactionsTyped`: `Spec => []TypeOK`, of which the part that
  matters is that a connection between two transactions holds no lock.

### Scheduler (`SchedulerProof`)

`SchedulerTyped`, `CapacityKept` (`WithinCapacity`), `OrderlyExit` (`NothingAfterExit`) and
`HeldOnce` (`HeldByOne`) follow from `SchedulerInv`, for any number of workers, slots,
workflows and interruptions. `HeldByOne` counts holders and is not inductive as it stands; `LockInv`
says the same of *places*: the claim in a worker's hands and each of its slots. A place
holds only a lock kept alive, each such lock is held at a place, and no two places hold
one. `CapacityInv` says that slots in use, those of finished tasks not yet reaped
included, are within the capacity, with one to spare from the check until the task is
created: tasks end in between, but none is added. `LoopInv` ties the claim to the await
between commit and task, and an exited loop to the absence of tasks.

### ActivityPool (`ActivityPoolProof`)

`PoolsTyped`, `OneBody` (`OneBodyPerRun`) and `DamageIsBounded` (`DamageBounded`) follow from
`PoolInv`. An attempt is in one place of one pool at most (`PoolsInv`), its future is
pending or cancelled while queued and running once handed over, and a run has at most
one attempt pending or running besides those given up by `wait_for` (`RunsInv`): that
leaves no room for a second body. `DamageInv` counts the pools: every one but the
current was spoiled by a death or replaced on the report of a broken future,
and each death spoils one.

### Stream (`StreamProof`)

`StreamTyped`, `AnswersAreTrue` (`AnswerIsTrue`), `MissesHaveAReason` (`MissedForAReason`) and
`StreamsInOrder` (`InOrderOnce`, a property of steps) follow from `StreamInv`. Of a writer: its uncommitted row is
an end only if it is its last write (`WritersInv`), so that the commit of an end
announces it in the same step. Of a client's stream: its cursor is the largest id sent,
and what it is about to send is larger (`CursorOK`, from which the order follows);
every end is sent, missed before registration, smaller than the cursor, about to be
read, or announced by an item in the queue, a notification on its way or a listener
that is dead (`WakeOK`). Of its call: every attempt but the current one ended in a
connection error or the workflow returned `None` (`AttemptsOK`), and an answer is in
the committed log (`AnswerOK`), which never loses an entry.

### Only model-checked

- Liveness, which is outside what TLAPS proves (of `EveryTransactionEnds`, the absence of
  deadlock is proved): `Settles`, `AbandonedIsReclaimed`,
  `EveryTransactionEnds`, `EveryoneIsServed`, `StopsInTheEnd`, `EveryAttemptEnds`,
  `TailingIsAnswered`, `AnsweredAfterTheEnd`.
- `RestoredAsReturned` and `NoFalseDivergence` of `Serialization`: they say what
  recursive operators compute for every value, by induction over data.
- `OneTerminalEvent` and `NotScheduledAgain` are not properties of the code as such:
  `doc_signal` and `doc_child` show how it violates them. They are theorems for `Tidy`
  programs only.

## 5. Not modelled

Decorators dispatch to `execute_activity` and keep no state. Worker registration
(`workers` is written and never read), profiling, the connection pool's set-up and the
migration, the dashboard and the example are left out: they keep no state the rest
depends on. The read-only endpoints of the API change nothing. In `Engine` the clocks
of workers and database are one clock. `run_child` is `spawn_child` followed by
`wait_for_child`. A STARTED event that is missing (runner.py:43) cannot occur, as
nothing deletes events. `wait_for_signal` twice for one type returns the first payload
twice in code and model alike. Postgres, `ProcessPoolExecutor` and pydantic are
modelled as far as the code relies on them. In `Stream` a request that the API answers
with an error status, and a connection that breaks while the API stays up, do not
occur.

## 6. Plan

1. Two clocks in `Engine`, for deadlines computed by one and compared by the other;
   `BackoffKept` and `wake_up` then speak of their difference.
2. `TidyIsDurable` for deployments that change only code no workflow in flight has
   reached, and for database errors as failures of the step they meet.
3. Waiting times of `Scheduler`: the queue in the order of `run_at`, as a bound instead
   of a liveness property, which could be proved.
