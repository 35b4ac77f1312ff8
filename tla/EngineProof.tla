---------------------------- MODULE EngineProof -----------------------------
(***************************************************************************)
(* Theorems about Engine, for every value of its constants: its state is   *)
(* well typed; where no heartbeat is late by the lock duration, no two     *)
(* runs execute a workflow; with any number of workers, programs, crashes, *)
(* errors and even stalls, no wake-up is lost; and the tables change only  *)
(* by the atomic queries that AtomicQueries lists.                         *)
(***************************************************************************)
EXTENDS Engine, TLAPS

-----------------------------------------------------------------------------
(***************************************************************************)
(* Queries keep the tables well typed.                                     *)
(***************************************************************************)
LEMMA EventTyped ==
  ASSUME NEW type \in EventType, NEW k \in Nat, NEW key \in Keys, NEW val \in Values
  PROVE  Event(type, k, key, val) \in EventRecord
BY DEF Event, EventRecord

\* None and Waiting are keys and payloads.
LEMMA NoneTyped == None \in Keys /\ None \in Values /\ Waiting \in Values /\ Done \in Values /\ Failed \in Values
BY DEF Keys, Values

LEMMA AppendedTyped ==
  ASSUME TablesOK, NEW i \in Ids, NEW e \in EventRecord
  PROVE  Appended(i, e) \in [Ids -> Seq(EventRecord)]
<1>1. events[i] \in Seq(EventRecord)
  BY DEF TablesOK
<1>2. Append(events[i], e) \in Seq(EventRecord)
  BY <1>1
<1> QED
  BY <1>2 DEF TablesOK, Appended

LEMMA UnchangedTables == TablesOK /\ UNCHANGED <<tables, elapsed>> => TablesOK'
BY DEF TablesOK, tables

LEMMA WriteEventTyped ==
  ASSUME TablesOK, NEW i \in Ids, NEW e \in EventRecord, write_event(i, e), UNCHANGED elapsed
  PROVE  TablesOK'
<1>1. events' \in [Ids -> Seq(EventRecord)]
  BY AppendedTyped DEF write_event
<1> QED
  BY <1>1 DEF TablesOK, write_event, rows

LEMMA CreateTyped ==
  ASSUME TablesOK, NEW i \in Ids, create_workflow(i), UNCHANGED elapsed
  PROVE  TablesOK'
<1>1. Event("started", 0, None, None) \in EventRecord
  BY EventTyped, NoneTyped DEF EventType
<1>2. events' \in [Ids -> Seq(EventRecord)]
  BY <1>1, AppendedTyped DEF create_workflow
<1> QED
  BY <1>2 DEF TablesOK, create_workflow, WorkflowStatus, Live

LEMMA CreateChildTyped ==
  ASSUME TablesOK, NEW i \in Ids, NEW j \in Ids, NEW k \in Nat,
         create_child_workflow(i, j, k), UNCHANGED elapsed
  PROVE  TablesOK'
<1>1. CASE status[j] # "absent"
  BY <1>1, UnchangedTables DEF create_child_workflow, tables
<1>2. CASE status[j] = "absent"
  <2>1. Event("started", 0, i, None) \in EventRecord
    BY EventTyped, NoneTyped DEF EventType, Keys
  <2>2. Event("child_started", k, j, j) \in EventRecord
    BY EventTyped DEF EventType, Keys, Values
  <2>3. \A h \in Seq(EventRecord) : /\ Append(h, Event("started", 0, i, None)) \in Seq(EventRecord)
                                    /\ Append(h, Event("child_started", k, j, j)) \in Seq(EventRecord)
    BY <2>1, <2>2
  <2>4. events' \in [Ids -> Seq(EventRecord)]
    <3>1. events' = [x \in Ids |->
                       IF x = j THEN Append(events[x], Event("started", 0, i, None))
                       ELSE IF x = i THEN Append(events[x], Event("child_started", k, j, j))
                       ELSE events[x]]
      BY <1>2 DEF create_child_workflow
    <3> QED
      BY <2>3, <3>1 DEF TablesOK
  <2>5. /\ status' = [status EXCEPT ![j] = "running"]
        /\ run_at' = [run_at EXCEPT ![j] = 0]
        /\ UNCHANGED <<locked_by, locked_until>>
    BY <1>2 DEF create_child_workflow
  <2>6. status' \in [Ids -> WorkflowStatus] /\ run_at' \in [Ids -> Nat]
    BY <2>5 DEF TablesOK, WorkflowStatus, Live
  <2> QED
    BY <2>4, <2>5, <2>6 DEF TablesOK
<1> QED
  BY <1>1, <1>2

LEMMA ClaimTyped ==
  ASSUME TablesOK, NEW i \in Ids, NEW s \in Slots, claim_next_workflow(i, s), UNCHANGED elapsed
  PROVE  TablesOK'
BY DEF TablesOK, claim_next_workflow

LEMMA MarkWaitingTyped ==
  ASSUME TablesOK, NEW i \in Ids, NEW key, mark_workflow_waiting(i, key), UNCHANGED elapsed
  PROVE  TablesOK'
BY DEF TablesOK, mark_workflow_waiting, Unlock, WorkflowStatus, Live

LEMMA RunAtTyped ==
  ASSUME TablesOK, NEW i \in Ids, NEW n \in Nat, update_workflow_run_at(i, n), UNCHANGED elapsed
  PROVE  TablesOK'
BY DEF TablesOK, update_workflow_run_at, Unlock

LEMMA ExtendTyped ==
  ASSUME TablesOK, NEW i \in Ids, extend_workflow_lock(i), UNCHANGED elapsed
  PROVE  TablesOK'
BY DEF TablesOK, extend_workflow_lock

LEMMA WakeTyped ==
  ASSUME TablesOK, NEW i \in Ids, NEW t \in SignalTypes, NEW q \in Requests,
         write_signal_and_wake_workflow(i, t, q), UNCHANGED elapsed
  PROVE  TablesOK'
<1>1. Event("signal", 0, t, q) \in EventRecord
  BY EventTyped DEF EventType, Keys, Values
<1>2. events' \in [Ids -> Seq(EventRecord)]
  BY <1>1, AppendedTyped DEF write_signal_and_wake_workflow
<1> QED
  BY <1>2 DEF TablesOK, write_signal_and_wake_workflow, WorkflowStatus, Live

LEMMA TerminalTyped ==
  ASSUME TablesOK, NEW i \in Ids, NEW type \in EventType, NEW final \in Terminal, NEW j,
         NEW outcome \in Values, write_terminal_workflow_event(i, type, final, j, outcome),
         UNCHANGED elapsed
  PROVE  TablesOK'
<1>1. /\ Event(type, 0, None, None) \in EventRecord
      /\ Event("signal", 0, i, outcome) \in EventRecord
  BY EventTyped, NoneTyped DEF EventType, Keys
<1>2. \A h \in Seq(EventRecord) : /\ Append(h, Event(type, 0, None, None)) \in Seq(EventRecord)
                                  /\ Append(h, Event("signal", 0, i, outcome)) \in Seq(EventRecord)
  BY <1>1
<1>3. events' \in [Ids -> Seq(EventRecord)]
  BY <1>2 DEF TablesOK, write_terminal_workflow_event
<1>4. status' \in [Ids -> WorkflowStatus] /\ run_at' \in [Ids -> Nat]
  BY DEF TablesOK, write_terminal_workflow_event, WorkflowStatus, Live
<1> QED
  BY <1>3, <1>4 DEF TablesOK, write_terminal_workflow_event, Unlock

\* Either way a workflow ends, whatever its parent is.
LEMMA EndTyped ==
  ASSUME TablesOK, NEW i \in Ids, NEW j, complete_workflow(i, j) \/ fail_workflow(i, j), UNCHANGED elapsed
  PROVE  TablesOK'
BY TerminalTyped, NoneTyped DEF complete_workflow, fail_workflow, EventType, Terminal

-----------------------------------------------------------------------------
(***************************************************************************)
(* The run helpers keep the runs well typed.                               *)
(***************************************************************************)
LEMMA BodyTyped ==
  ASSUME TypeOK, NEW s \in Slots, Active(s)
  PROVE  /\ wf[s] \in Ids
         /\ code[WorkerOf[s]] \in Versions
         /\ Body(s) \in Seq(StepRecord)
BY ConstantsAssumption DEF TypeOK, RunsOK, Active, Body

LEMMA CurrentTyped ==
  ASSUME TypeOK, NEW s \in Slots, AtStep(s)
  PROVE  /\ Active(s)
         /\ wf[s] \in Ids
         /\ step[s] \in DOMAIN Body(s)
         /\ Current(s) \in StepRecord
<1>1. Active(s)
  BY DEF AtStep, Active
<1>2. Body(s) \in Seq(StepRecord)
  BY <1>1, BodyTyped
<1>3. step[s] \in Nat \ {0} /\ step[s] <= Len(Body(s))
  BY DEF TypeOK, RunsOK, AtStep
<1>4. step[s] \in DOMAIN Body(s)
  BY <1>2, <1>3
<1> QED
  BY <1>1, <1>2, <1>4, BodyTyped DEF Current

\* A spawned child is a workflow id, other than its parent's.
LEMMA SpawnKey ==
  ASSUME TypeOK, NEW s \in Slots, At(s, "spawn")
  PROVE  Current(s).key \in Ids \ Roots /\ Current(s).key # wf[s]
<1>1. /\ code[WorkerOf[s]] \in Versions /\ wf[s] \in Ids
      /\ step[s] \in DOMAIN Program[code[WorkerOf[s]]][wf[s]]
  BY CurrentTyped, BodyTyped DEF At, Body
<1>2. Program[code[WorkerOf[s]]][wf[s]][step[s]].op = "spawn"
  BY DEF At, Current, Body
<1> QED
  BY <1>1, <1>2, ChildIdAssumption DEF Current, Body

LEMMA EventAt ==
  ASSUME NEW h \in Seq(EventRecord), NEW n \in 1..Len(h)
  PROVE  h[n] \in EventRecord /\ h[n].val \in Values /\ h[n].key \in Keys /\ h[n].step \in Nat
<1>1. h[n] \in EventRecord
  OBVIOUS
<1> QED
  BY <1>1 DEF EventRecord

LEMMA FoundAt ==
  ASSUME NEW h \in Seq(EventRecord), NEW k, NEW type, NEW key, NEW n,
         n \in find_event(h, k, type) \/ n \in find_signal_event(h, key)
  PROVE  n \in 1..Len(h) /\ n \in Nat /\ h[n].val \in Values
BY EventAt DEF find_event, find_signal_event

LEMMA AwaitTyped ==
  ASSUME RunsOK, NEW s \in Slots, wf[s] \in Ids, NEW to \in PC, Await(s, to)
  PROVE  RunsOK'
BY DEF RunsOK, Await

LEMMA AwaitDeadlineTyped ==
  ASSUME TypeOK, NEW s \in Slots, wf[s] \in Ids, NEW to \in PC, AwaitDeadline(s, to)
  PROVE  RunsOK'
<1>1. Len(events[wf[s]]) + 1 \in Nat
  BY DEF TypeOK, TablesOK
<1> QED
  BY <1>1 DEF TypeOK, RunsOK, AwaitDeadline

LEMMA ReturnTyped ==
  ASSUME RunsOK, NEW s \in Slots, wf[s] \in Ids, NEW v \in Values, Return(s, v)
  PROVE  RunsOK'
<1>1. Append(values[s], v) \in Seq(Values)
  BY DEF RunsOK
<1>2. values' \in [Slots -> Seq(Values)]
  BY <1>1 DEF RunsOK, Return
<1>3. step' \in [Slots -> Nat \ {0}]
  BY DEF RunsOK, Return
<1> QED
  BY <1>2, <1>3 DEF RunsOK, Return, PC

LEMMA OverTyped ==
  ASSUME RunsOK, NEW S, Over(S)
  PROVE  RunsOK'
<1>1. <<>> \in Seq(EventRecord) /\ <<>> \in Seq(Values)
  OBVIOUS
<1> QED
  BY <1>1 DEF RunsOK, Over, PC

LEMMA UnchangedRuns == RunsOK /\ UNCHANGED run => RunsOK'
BY DEF RunsOK, run

\* What a run may change besides the tables: itself only.
ClientsUnchanged == UNCHANGED <<code, request, faults>>

LEMMA Combine ==
  ASSUME TypeOK, TablesOK', RunsOK', ClientsUnchanged
  PROVE  TypeOK'
BY DEF TypeOK, ClientsUnchanged

-----------------------------------------------------------------------------
LEMMA RunnerTyped ==
  ASSUME TypeOK, NEW s \in Slots, RunnerStep(s)
  PROVE  TypeOK'
<1> TablesOK /\ RunsOK
  BY DEF TypeOK
<1>1. CASE run_workflow(s)
  <2>1. wf[s] \in Ids
    BY <1>1, BodyTyped DEF run_workflow, Active
  <2>2. RunsOK'
    BY <1>1, <2>1 DEF TypeOK, TablesOK, RunsOK, run_workflow, PC
  <2> QED
    BY <1>1, <2>2, UnchangedTables, Combine DEF run_workflow, ClientsUnchanged
<1>2. CASE finish(s)
  <2>1. wf[s] \in Ids
    BY <1>2, BodyTyped DEF finish, Active
  <2> QED
    BY <1>2, <2>1, EndTyped, OverTyped, Combine DEF finish, Suspend, ClientsUnchanged
<1>3. CASE raise(s)
  <2>1. wf[s] \in Ids
    BY <1>3, CurrentTyped DEF raise, At
  <2> QED
    BY <1>3, <2>1, AwaitTyped, UnchangedTables, Combine DEF raise, Await, PC, ClientsUnchanged
<1>4. CASE fail(s)
  <2>1. wf[s] \in Ids
    BY <1>4, BodyTyped DEF fail, Active
  <2> QED
    BY <1>4, <2>1, EndTyped, OverTyped, Combine DEF fail, Suspend, ClientsUnchanged
<1> QED
  BY <1>1, <1>2, <1>3, <1>4 DEF RunnerStep

LEMMA ActivityTyped ==
  ASSUME TypeOK, NEW s \in Slots, ActivityStep(s)
  PROVE  TypeOK'
<1> TablesOK /\ RunsOK
  BY DEF TypeOK
<1>1. CASE replay_activity(s)
  <2>1. wf[s] \in Ids
    BY <1>1, CurrentTyped DEF replay_activity, At
  <2>2. PICK n \in find_completed_event(history[s], step[s]) : Return(s, history[s][n].val)
    BY <1>1 DEF replay_activity
  <2>3. history[s][n].val \in Values
    BY <2>2, FoundAt DEF find_completed_event, RunsOK
  <2> QED
    BY <1>1, <2>1, <2>2, <2>3, ReturnTyped, UnchangedTables, Combine
       DEF replay_activity, Return, ClientsUnchanged
<1>2. CASE DivergenceError(s)
  <2>1. wf[s] \in Ids
    BY <1>2, CurrentTyped DEF DivergenceError, NotReplayed, At
  <2> QED
    BY <1>2, <2>1, AwaitTyped, UnchangedTables, Combine DEF DivergenceError, Await, PC, ClientsUnchanged
<1>3. CASE schedule(s)
  <2>1. wf[s] \in Ids /\ Current(s).key \in Keys /\ step[s] \in Nat
    BY <1>3, CurrentTyped DEF schedule, NotReplayed, At, StepRecord, RunsOK
  <2>2. Event("scheduled", step[s], Current(s).key, None) \in EventRecord
    BY <2>1, EventTyped, NoneTyped DEF EventType
  <2>3. TablesOK'
    BY <1>3, <2>1, <2>2, WriteEventTyped, UnchangedTables DEF schedule, Await
  <2> QED
    BY <1>3, <2>1, <2>3, AwaitTyped, Combine DEF schedule, Await, PC, ClientsUnchanged
<1>4. CASE \E r \in Results : complete_activity(s, r)
  <2>1. PICK r \in Results : complete_activity(s, r)
    BY <1>4
  <2>2. wf[s] \in Ids /\ r \in Values /\ step[s] \in Nat
    BY <2>1, BodyTyped DEF complete_activity, Active, Values, RunsOK
  <2>3. Event("completed", step[s], None, r) \in EventRecord
    BY <2>2, EventTyped, NoneTyped DEF EventType
  <2> QED
    BY <2>1, <2>2, <2>3, WriteEventTyped, ReturnTyped, Combine DEF complete_activity, Return, ClientsUnchanged
<1>5. CASE fail_activity(s)
  <2>1. wf[s] \in Ids /\ step[s] \in Nat
    BY <1>5, BodyTyped DEF fail_activity, Active, RunsOK
  <2>2. Event("failed", step[s], None, None) \in EventRecord
    BY <2>1, EventTyped, NoneTyped DEF EventType
  <2>3. TablesOK'
    BY <1>5, <2>1, <2>2, WriteEventTyped DEF fail_activity, AwaitDeadline
  <2> QED
    BY <1>5, <2>1, <2>3, AwaitDeadlineTyped, Combine DEF fail_activity, AwaitDeadline, PC, ClientsUnchanged
<1>6. CASE retry(s)
  <2>1. wf[s] \in Ids /\ wake[s] \in Nat
    BY <1>6, BodyTyped DEF retry, Active, RunsOK
  <2> QED
    BY <1>6, <2>1, RunAtTyped, OverTyped, Combine DEF retry, Suspend, ClientsUnchanged
<1>7. CASE exhaust_retries(s)
  <2>1. wf[s] \in Ids
    BY <1>7, BodyTyped DEF exhaust_retries, Active
  <2> QED
    BY <1>7, <2>1, EndTyped, OverTyped, Combine DEF exhaust_retries, Suspend, ClientsUnchanged
<1> QED
  BY <1>1, <1>2, <1>3, <1>4, <1>5, <1>6, <1>7 DEF ActivityStep

LEMMA SleepTyped ==
  ASSUME TypeOK, NEW s \in Slots, SleepStep(s)
  PROVE  TypeOK'
<1> TablesOK /\ RunsOK
  BY DEF TypeOK
<1>1. CASE wake_up(s)
  <2>1. wf[s] \in Ids
    BY <1>1, CurrentTyped DEF wake_up, At
  <2> QED
    BY <1>1, <2>1, NoneTyped, ReturnTyped, UnchangedTables, Combine DEF wake_up, Return, ClientsUnchanged
<1>2. CASE re_suspend(s)
  <2>1. wf[s] \in Ids
    BY <1>2, CurrentTyped DEF re_suspend, At
  <2>2. PICK n \in find_event(history[s], step[s], "sleep") : update_workflow_run_at(wf[s], n)
    BY <1>2 DEF re_suspend
  <2>3. n \in Nat
    BY <2>2, FoundAt DEF RunsOK
  <2> QED
    BY <1>2, <2>1, <2>2, <2>3, RunAtTyped, OverTyped, Combine DEF re_suspend, Suspend, ClientsUnchanged
<1>3. CASE start_sleep(s)
  <2>1. wf[s] \in Ids /\ step[s] \in Nat
    BY <1>3, CurrentTyped DEF start_sleep, At, RunsOK
  <2>2. Event("sleep", step[s], None, None) \in EventRecord
    BY <2>1, EventTyped, NoneTyped DEF EventType
  <2>3. TablesOK'
    BY <1>3, <2>1, <2>2, WriteEventTyped DEF start_sleep, AwaitDeadline
  <2> QED
    BY <1>3, <2>1, <2>3, AwaitDeadlineTyped, Combine DEF start_sleep, AwaitDeadline, PC, ClientsUnchanged
<1>4. CASE suspend_sleep(s)
  <2>1. wf[s] \in Ids /\ wake[s] \in Nat
    BY <1>4, BodyTyped DEF suspend_sleep, Active, RunsOK
  <2> QED
    BY <1>4, <2>1, RunAtTyped, OverTyped, Combine DEF suspend_sleep, Suspend, ClientsUnchanged
<1> QED
  BY <1>1, <1>2, <1>3, <1>4 DEF SleepStep

\* The value a wait found is returned, or raises.
LEMMA ReceivedTyped ==
  ASSUME RunsOK, NEW s \in Slots, wf[s] \in Ids, NEW v \in Values, Received(s, v)
  PROVE  RunsOK' /\ ClientsUnchanged /\ UNCHANGED elapsed
<1>1. CASE Current(s).op = "join" /\ v = Failed
  <2>1. Await(s, "fail")
    BY <1>1 DEF Received
  <2> QED
    BY <2>1, AwaitTyped DEF Await, PC, ClientsUnchanged
<1>2. CASE ~(Current(s).op = "join" /\ v = Failed)
  <2>1. Return(s, v)
    BY <1>2 DEF Received
  <2> QED
    BY <2>1, ReturnTyped DEF Return, ClientsUnchanged
<1> QED
  BY <1>1, <1>2

LEMMA WaitTyped ==
  ASSUME TypeOK, NEW s \in Slots, WaitStep(s)
  PROVE  TypeOK'
<1> TablesOK /\ RunsOK
  BY DEF TypeOK
<1>1. CASE replay_wait(s)
  <2>1. wf[s] \in Ids
    BY <1>1, CurrentTyped DEF replay_wait, AtWait
  <2>2. PICK n \in find_signal_event(history[s], Current(s).key) : Received(s, history[s][n].val)
    BY <1>1 DEF replay_wait
  <2>3. history[s][n].val \in Values
    BY <2>2, FoundAt DEF RunsOK
  <2> QED
    BY <1>1, <2>1, <2>2, <2>3, ReceivedTyped, UnchangedTables, Combine DEF replay_wait
<1>2. CASE write_marker(s)
  <2>1. wf[s] \in Ids /\ Current(s).key \in Keys
    BY <1>2, CurrentTyped DEF write_marker, AtWait, StepRecord
  <2>2. Event("signal", 0, Current(s).key, Waiting) \in EventRecord
    BY <2>1, EventTyped, NoneTyped DEF EventType
  <2>3. TablesOK'
    BY <1>2, <2>1, <2>2, WriteEventTyped, UnchangedTables DEF write_marker, Await
  <2> QED
    BY <1>2, <2>1, <2>3, AwaitTyped, Combine DEF write_marker, Await, PC, ClientsUnchanged
<1>3. CASE mark_waiting(s)
  <2>1. wf[s] \in Ids
    BY <1>3, BodyTyped DEF mark_waiting, Active
  <2> QED
    BY <1>3, <2>1, MarkWaitingTyped, OverTyped, Combine DEF mark_waiting, Suspend, ClientsUnchanged
<1>4. CASE already_received(s)
  <2>1. wf[s] \in Ids
    BY <1>4, BodyTyped DEF already_received, Active
  <2> QED
    BY <1>4, <2>1, AwaitTyped, UnchangedTables, Combine DEF already_received, Await, PC, ClientsUnchanged
<1>5. CASE reload(s)
  <2>1. wf[s] \in Ids
    BY <1>5, BodyTyped DEF reload, Active
  <2>2. PICK n \in find_signal_event(events[wf[s]], Current(s).key) : Received(s, events[wf[s]][n].val)
    BY <1>5 DEF reload
  <2>3. events[wf[s]][n].val \in Values
    BY <2>1, <2>2, FoundAt DEF TablesOK
  <2> QED
    BY <1>5, <2>1, <2>2, <2>3, ReceivedTyped, UnchangedTables, Combine DEF reload
<1> QED
  BY <1>1, <1>2, <1>3, <1>4, <1>5 DEF WaitStep

LEMMA SpawnTyped ==
  ASSUME TypeOK, NEW s \in Slots, SpawnStep(s)
  PROVE  TypeOK'
<1> TablesOK /\ RunsOK
  BY DEF TypeOK
<1>1. CASE replay_spawn(s)
  <2>1. wf[s] \in Ids
    BY <1>1, CurrentTyped DEF replay_spawn, At
  <2>2. PICK n \in find_child_started_event(history[s], step[s]) : Return(s, history[s][n].val)
    BY <1>1 DEF replay_spawn
  <2>3. history[s][n].val \in Values
    BY <2>2, FoundAt DEF find_child_started_event, RunsOK
  <2> QED
    BY <1>1, <2>1, <2>2, <2>3, ReturnTyped, UnchangedTables, Combine DEF replay_spawn, Return, ClientsUnchanged
<1>2. CASE spawn_child(s)
  <2>1. wf[s] \in Ids /\ Current(s).key \in Ids /\ Current(s).key \in Values /\ step[s] \in Nat
    BY <1>2, CurrentTyped, SpawnKey DEF spawn_child, At, Values, RunsOK
  <2> QED
    BY <1>2, <2>1, CreateChildTyped, ReturnTyped, Combine DEF spawn_child, Return, ClientsUnchanged
<1> QED
  BY <1>1, <1>2 DEF SpawnStep

LEMMA RunTyped ==
  ASSUME TypeOK, NEW s \in Slots, RunStep(s)
  PROVE  TypeOK'
BY RunnerTyped, ActivityTyped, SleepTyped, WaitTyped, SpawnTyped DEF RunStep

LEMMA ClaimStepTyped ==
  ASSUME TypeOK, NEW s \in Slots, NEW i \in Ids, claim(s, i)
  PROVE  TypeOK'
<1> TablesOK /\ RunsOK
  BY DEF TypeOK
<1>1. RunsOK'
  BY DEF RunsOK, claim, PC
<1> QED
  BY <1>1, ClaimTyped, Combine DEF claim, ClientsUnchanged

LEMMA HeartbeatTyped ==
  ASSUME TypeOK, NEW s \in Slots, heartbeat(s)
  PROVE  TypeOK'
<1> TablesOK /\ RunsOK
  BY DEF TypeOK
<1>1. wf[s] \in Ids
  BY BodyTyped DEF heartbeat
<1> QED
  BY <1>1, ExtendTyped, UnchangedRuns, Combine DEF heartbeat, others, run, ClientsUnchanged

LEMMA ClientTyped ==
  ASSUME TypeOK,
         \/ \E i \in Ids : start_workflow(i)
         \/ \E q \in Requests : send_signal(q) \/ write_signal(q)
  PROVE  TypeOK'
<1> TablesOK /\ RunsOK
  BY DEF TypeOK
<1>1. CASE \E i \in Ids : start_workflow(i)
  BY <1>1, CreateTyped, UnchangedRuns, Combine DEF start_workflow, others, run, ClientsUnchanged
<1>2. ASSUME NEW q \in Requests, send_signal(q)
      PROVE  TypeOK'
  <2>1. TablesOK' /\ RunsOK'
    BY <1>2, UnchangedTables, UnchangedRuns DEF send_signal, others, run
  <2>2. request' \in [Requests -> {"new", "checked", "sent", "rejected"}]
    BY <1>2 DEF TypeOK, send_signal
  <2> QED
    BY <1>2, <2>1, <2>2 DEF TypeOK, send_signal, others
<1>3. ASSUME NEW q \in Requests, write_signal(q)
      PROVE  TypeOK'
  <2>1. SignalTo[q] \in Ids /\ SignalType[q] \in SignalTypes
    BY ConstantsAssumption
  <2>2. TablesOK'
    BY <1>3, <2>1, WakeTyped DEF write_signal, others
  <2>3. RunsOK'
    BY <1>3, UnchangedRuns DEF write_signal, others, run
  <2>4. request' \in [Requests -> {"new", "checked", "sent", "rejected"}]
    BY <1>3 DEF TypeOK, write_signal
  <2> QED
    BY <1>3, <2>2, <2>3, <2>4 DEF TypeOK, write_signal, others
<1> QED
  BY <1>1, <1>2, <1>3

LEMMA FaultTyped ==
  ASSUME TypeOK, NEW f \in FaultKinds, Fault(f)
  PROVE  faults' \in [FaultKinds -> Nat]
BY DEF TypeOK, Fault

LEMMA LetLapseTyped ==
  ASSUME TypeOK, NEW i \in Ids, LetLapse(i)
  PROVE  TablesOK' /\ RunsOK' /\ UNCHANGED <<code, request>>
<1>1. TablesOK'
  BY DEF TypeOK, TablesOK, LetLapse
<1>2. RunsOK'
  BY UnchangedRuns DEF TypeOK, LetLapse
<1> QED
  BY <1>1, <1>2 DEF LetLapse

LEMMA ClockTyped ==
  ASSUME TypeOK, NEW i \in Ids, ClockStep(i)
  PROVE  TypeOK'
<1>1. CASE lapse(i)
  BY <1>1, LetLapseTyped, Combine DEF lapse, LetLapse, ClientsUnchanged
<1>2. CASE \E n \in 1..Len(events[i]) : Elapse(i, n)
  <2>1. PICK n \in 1..Len(events[i]) : Elapse(i, n)
    BY <1>2
  <2>2. n \in Nat
    BY <2>1 DEF TypeOK, TablesOK
  <2>3. TablesOK'
    BY <2>1, <2>2 DEF TypeOK, TablesOK, Elapse, tables
  <2>4. RunsOK'
    BY <2>1, UnchangedRuns DEF TypeOK, Elapse
  <2> QED
    BY <2>1, <2>3, <2>4, Combine DEF Elapse, ClientsUnchanged
<1> QED
  BY <1>1, <1>2 DEF ClockStep

LEMMA FaultStepTyped ==
  ASSUME TypeOK, FaultStep
  PROVE  TypeOK'
<1> TablesOK /\ RunsOK
  BY DEF TypeOK
<1>1. ASSUME NEW i \in Ids, stall(i)
      PROVE  TypeOK'
  <2>1. faults' \in [FaultKinds -> Nat]
    BY <1>1, FaultTyped DEF stall, FaultKinds
  <2> QED
    BY <1>1, <2>1, LetLapseTyped DEF stall, TypeOK
<1>2. ASSUME NEW w \in Workers, NEW v \in Versions, restart(w, v)
      PROVE  TypeOK'
  <2>1. faults' \in [FaultKinds -> Nat]
    BY <1>2, FaultTyped DEF restart, FaultKinds
  <2>2. TablesOK' /\ RunsOK'
    BY <1>2, UnchangedTables, OverTyped DEF restart
  <2>3. code' \in [Workers -> Versions]
    BY <1>2 DEF restart, TypeOK
  <2> QED
    BY <1>2, <2>1, <2>2, <2>3 DEF restart, TypeOK
<1>3. ASSUME NEW s \in Slots, database_error(s)
      PROVE  TypeOK'
  <2>1. faults' \in [FaultKinds -> Nat]
    BY <1>3, FaultTyped DEF database_error, FaultKinds
  <2>2. TablesOK'
    BY <1>3, UnchangedTables DEF database_error
  <2>3. wf[s] \in Ids
    BY <1>3, BodyTyped DEF database_error
  <2>4. RunsOK'
    <3>1. CASE InRunner(s)
      BY <1>3, <3>1, OverTyped DEF database_error
    <3>2. CASE ~InRunner(s)
      BY <1>3, <2>3, <3>2 DEF database_error, RunsOK, PC
    <3> QED
      BY <3>1, <3>2
  <2> QED
    BY <1>3, <2>1, <2>2, <2>4 DEF database_error, TypeOK
<1>4. ASSUME NEW s \in Slots, activity_cancelled(s)
      PROVE  TypeOK'
  <2>1. faults' \in [FaultKinds -> Nat]
    BY <1>4, FaultTyped DEF activity_cancelled, FaultKinds
  <2>2. TablesOK' /\ RunsOK'
    BY <1>4, UnchangedTables, OverTyped DEF activity_cancelled
  <2> QED
    BY <1>4, <2>1, <2>2 DEF activity_cancelled, TypeOK
<1>5. ASSUME NEW s \in Slots, NEW r \in Results, notify_error(s, r)
      PROVE  TypeOK'
  <2>1. faults' \in [FaultKinds -> Nat]
    BY <1>5, FaultTyped DEF notify_error, FaultKinds
  <2>2. wf[s] \in Ids /\ r \in Values /\ step[s] \in Nat
    BY <1>5, BodyTyped DEF notify_error, Active, Values, RunsOK
  <2>3. Event("completed", step[s], None, r) \in EventRecord
    BY <2>2, EventTyped, NoneTyped DEF EventType
  <2>4. TablesOK'
    BY <1>5, <2>2, <2>3, WriteEventTyped DEF notify_error
  <2>5. RunsOK'
    BY <1>5, <2>2 DEF notify_error, RunsOK, PC
  <2> QED
    BY <1>5, <2>1, <2>4, <2>5 DEF notify_error, TypeOK
<1> QED
  BY <1>1, <1>2, <1>3, <1>4, <1>5 DEF FaultStep

LEMMA InitTyped == Init => TypeOK
<1> SUFFICES ASSUME Init PROVE TypeOK
  OBVIOUS
<1>1. <<>> \in Seq(EventRecord) /\ <<>> \in Seq(Values)
  OBVIOUS
<1>2. TablesOK
  BY <1>1 DEF Init, TablesInit, TablesOK, WorkflowStatus
<1>3. RunsOK
  BY <1>1 DEF Init, RunsOK, PC
<1> QED
  BY <1>2, <1>3 DEF Init, TypeOK

LEMMA NextTyped == TypeOK /\ [Next]_vars => TypeOK'
<1> SUFFICES ASSUME TypeOK, [Next]_vars PROVE TypeOK'
  OBVIOUS
<1>1. CASE UNCHANGED vars
  BY <1>1 DEF vars, TypeOK, TablesOK, RunsOK
<1>2. CASE Next
  BY <1>2, RunTyped, HeartbeatTyped, ClaimStepTyped, ClientTyped, ClockTyped, FaultStepTyped DEF Next
<1> QED
  BY <1>1, <1>2

\* Every reachable state of the tables, the runs and the clients is well typed.
THEOREM TypeCorrect == Spec => []TypeOK
<1>1. Init => TypeOK
  BY InitTyped
<1>2. TypeOK /\ [Next]_vars => TypeOK'
  BY NextTyped
<1> QED
  BY <1>1, <1>2, PTL DEF Spec

-----------------------------------------------------------------------------
(***************************************************************************)
(* Mutual exclusion of runs, for every value of the constants that allows  *)
(* no stall: if heartbeats are never late by more than the lock duration,  *)
(* no two runs execute the same workflow, whatever crashes, database       *)
(* errors, wake-ups and deployments happen.                                *)
(***************************************************************************)
\* A run holds the lease of its workflow, and the lease has not lapsed.
LeaseHeld ==
  \A s \in Slots : Active(s) => locked_by[wf[s]] = s /\ locked_until[wf[s]] = "future"

LEMMA LeaseHeldExcludes == LeaseHeld => OneRunPerWorkflow
BY DEF LeaseHeld, OneRunPerWorkflow

\* What a step of run s may do to leases: leave them all, the run going on ...
KeepsLease(s) ==
  /\ Active(s)
  /\ UNCHANGED <<locked_by, locked_until, wf>>
  /\ \A t \in Slots \ {s} : pc'[t] = pc[t]

\* ... or end the run and touch no lease but the one of its own workflow.
DropsLease(s) ==
  /\ Active(s)
  /\ Over({s})
  /\ \A i \in Ids \ {wf[s]} : locked_by'[i] = locked_by[i] /\ locked_until'[i] = locked_until[i]

LEMMA UnlockFrame ==
  ASSUME TablesOK, NEW i \in Ids, Unlock(i)
  PROVE  \A j \in Ids \ {i} : locked_by'[j] = locked_by[j] /\ locked_until'[j] = locked_until[j]
BY DEF TablesOK, Unlock

\* Awaiting and returning never touch another slot.
LEMMA MovesKeep ==
  ASSUME TypeOK, NEW s \in Slots, Active(s), UNCHANGED <<locked_by, locked_until>>,
         \/ \E to \in PC : Await(s, to) \/ AwaitDeadline(s, to)
         \/ \E v : Return(s, v)
         \/ \E v : Received(s, v)
  PROVE  KeepsLease(s)
BY DEF KeepsLease, Await, AwaitDeadline, Return, Received, TypeOK, RunsOK

LEMMA RunStepLease ==
  ASSUME TypeOK, NEW s \in Slots, RunStep(s)
  PROVE  KeepsLease(s) \/ DropsLease(s)
<1> USE DEF PC
<1>1. ASSUME AtStep(s) PROVE Active(s)
  BY <1>1 DEF AtStep, Active
<1>2. CASE RunnerStep(s)
  <2>1. CASE run_workflow(s)
    BY <2>1 DEF run_workflow, KeepsLease, Active, tables, TypeOK, RunsOK
  <2>2. CASE finish(s)
    <3>1. Active(s) /\ wf[s] \in Ids
      BY <2>2, BodyTyped DEF finish, Active
    <3> QED
      BY <2>2, <3>1, UnlockFrame DEF finish, Suspend, complete_workflow, write_terminal_workflow_event,
         DropsLease, TypeOK
  <2>3. CASE raise(s)
    BY <1>1, <2>3, MovesKeep DEF raise, At, tables
  <2>4. CASE fail(s)
    <3>1. Active(s) /\ wf[s] \in Ids
      BY <2>4, BodyTyped DEF fail, Active
    <3> QED
      BY <2>4, <3>1, UnlockFrame DEF fail, Suspend, fail_workflow, write_terminal_workflow_event,
         DropsLease, TypeOK
  <2> QED
    BY <1>2, <2>1, <2>2, <2>3, <2>4 DEF RunnerStep
<1>3. CASE ActivityStep(s)
  <2>1. CASE replay_activity(s)
    BY <1>1, <2>1, MovesKeep DEF replay_activity, At, tables
  <2>2. CASE DivergenceError(s)
    BY <1>1, <2>2, MovesKeep DEF DivergenceError, NotReplayed, At, tables
  <2>3. CASE schedule(s)
    <3>1. Active(s) /\ UNCHANGED <<locked_by, locked_until>>
      BY <1>1, <2>3 DEF schedule, NotReplayed, At, write_event, rows, tables
    <3> QED
      BY <2>3, <3>1, MovesKeep DEF schedule
  <2>4. CASE \E r \in Results : complete_activity(s, r)
    BY <2>4, MovesKeep DEF complete_activity, write_event, rows, Active
  <2>5. CASE fail_activity(s)
    BY <2>5, MovesKeep DEF fail_activity, write_event, rows, Active
  <2>6. CASE retry(s)
    <3>1. Active(s) /\ wf[s] \in Ids
      BY <2>6, BodyTyped DEF retry, Active
    <3> QED
      BY <2>6, <3>1, UnlockFrame DEF retry, Suspend, update_workflow_run_at, DropsLease, TypeOK
  <2>7. CASE exhaust_retries(s)
    <3>1. Active(s) /\ wf[s] \in Ids
      BY <2>7, BodyTyped DEF exhaust_retries, Active
    <3> QED
      BY <2>7, <3>1, UnlockFrame DEF exhaust_retries, Suspend, fail_workflow,
         write_terminal_workflow_event, DropsLease, TypeOK
  <2> QED
    BY <1>3, <2>1, <2>2, <2>3, <2>4, <2>5, <2>6, <2>7 DEF ActivityStep
<1>4. CASE SleepStep(s)
  <2>1. CASE wake_up(s)
    BY <1>1, <2>1, MovesKeep DEF wake_up, At, tables
  <2>2. CASE re_suspend(s)
    <3>1. Active(s) /\ wf[s] \in Ids
      BY <2>2, CurrentTyped DEF re_suspend, At
    <3> QED
      BY <2>2, <3>1, UnlockFrame DEF re_suspend, Suspend, update_workflow_run_at, DropsLease, TypeOK
  <2>3. CASE start_sleep(s)
    BY <1>1, <2>3, MovesKeep DEF start_sleep, At, write_event, rows
  <2>4. CASE suspend_sleep(s)
    <3>1. Active(s) /\ wf[s] \in Ids
      BY <2>4, BodyTyped DEF suspend_sleep, Active
    <3> QED
      BY <2>4, <3>1, UnlockFrame DEF suspend_sleep, Suspend, update_workflow_run_at, DropsLease, TypeOK
  <2> QED
    BY <1>4, <2>1, <2>2, <2>3, <2>4 DEF SleepStep
<1>5. CASE WaitStep(s)
  <2>1. CASE replay_wait(s)
    BY <1>1, <2>1, MovesKeep DEF replay_wait, AtWait, tables
  <2>2. CASE write_marker(s)
    <3>1. Active(s) /\ UNCHANGED <<locked_by, locked_until>>
      BY <1>1, <2>2 DEF write_marker, AtWait, write_event, rows, tables
    <3> QED
      BY <2>2, <3>1, MovesKeep DEF write_marker
  <2>3. CASE mark_waiting(s)
    <3>1. Active(s) /\ wf[s] \in Ids
      BY <2>3, BodyTyped DEF mark_waiting, Active
    <3> QED
      BY <2>3, <3>1, UnlockFrame DEF mark_waiting, Suspend, mark_workflow_waiting, DropsLease, TypeOK
  <2>4. CASE already_received(s)
    BY <2>4, MovesKeep DEF already_received, Active, tables
  <2>5. CASE reload(s)
    BY <2>5, MovesKeep DEF reload, Active, tables
  <2> QED
    BY <1>5, <2>1, <2>2, <2>3, <2>4, <2>5 DEF WaitStep
<1>6. CASE SpawnStep(s)
  <2>1. CASE replay_spawn(s)
    BY <1>1, <2>1, MovesKeep DEF replay_spawn, At, tables
  <2>2. CASE spawn_child(s)
    <3>1. Active(s) /\ UNCHANGED <<locked_by, locked_until>>
      BY <1>1, <2>2 DEF spawn_child, At, create_child_workflow, tables
    <3> QED
      BY <2>2, <3>1, MovesKeep DEF spawn_child
  <2> QED
    BY <1>6, <2>1, <2>2 DEF SpawnStep
<1> QED
  BY <1>2, <1>3, <1>4, <1>5, <1>6 DEF RunStep

LEMMA MoveKeepsLeases ==
  ASSUME TypeOK, LeaseHeld, NEW s \in Slots, KeepsLease(s) \/ DropsLease(s)
  PROVE  LeaseHeld'
<1>1. CASE KeepsLease(s)
  BY <1>1 DEF KeepsLease, LeaseHeld, Active
<1>2. CASE DropsLease(s)
  <2> SUFFICES ASSUME NEW t \in Slots, Active(t)'
               PROVE  locked_by'[wf'[t]] = t /\ locked_until'[wf'[t]] = "future"
    BY DEF LeaseHeld
  <2>1. t # s /\ wf'[t] = wf[t] /\ Active(t)
    BY <1>2 DEF DropsLease, Over, Active
  <2>2. wf[t] \in Ids \ {wf[s]}
    BY <1>2, <2>1 DEF DropsLease, LeaseHeld, TypeOK, RunsOK, Active
  <2> QED
    BY <1>2, <2>1, <2>2 DEF DropsLease, LeaseHeld
<1> QED
  BY <1>1, <1>2

LEMMA FaultLease ==
  ASSUME TypeOK, LeaseHeld, MaxFaults["stall"] = 0, FaultStep
  PROVE  LeaseHeld'
<1>1. ASSUME NEW i \in Ids, stall(i) PROVE FALSE
  <2>1. faults["stall"] \in Nat
    BY DEF TypeOK, FaultKinds
  <2> QED
    BY <1>1, <2>1 DEF stall, Fault
<1>2. ASSUME NEW w \in Workers, NEW v \in Versions, restart(w, v) PROVE LeaseHeld'
  BY <1>2 DEF restart, Over, LeaseHeld, Active, tables
<1>3. ASSUME NEW s \in Slots, database_error(s) PROVE LeaseHeld'
  <2>1. CASE InRunner(s)
    BY <1>3, <2>1 DEF database_error, Over, LeaseHeld, Active, tables
  <2>2. CASE ~InRunner(s)
    BY <1>3, <2>2 DEF database_error, LeaseHeld, Active, tables, TypeOK, RunsOK
  <2> QED
    BY <2>1, <2>2
<1>4. ASSUME NEW s \in Slots, activity_cancelled(s) PROVE LeaseHeld'
  BY <1>4 DEF activity_cancelled, Over, LeaseHeld, Active, tables
<1>5. ASSUME NEW s \in Slots, NEW r \in Results, notify_error(s, r) PROVE LeaseHeld'
  BY <1>5 DEF notify_error, write_event, rows, LeaseHeld, Active, TypeOK, RunsOK
<1> QED
  BY <1>1, <1>2, <1>3, <1>4, <1>5 DEF FaultStep

\* A claim takes the lease; nobody ran the workflow, whose lease was free.
LEMMA ClaimLease ==
  ASSUME TypeOK, LeaseHeld, NEW s \in Slots, NEW i \in Ids, claim(s, i)
  PROVE  LeaseHeld'
<1> SUFFICES ASSUME NEW t \in Slots, Active(t)'
             PROVE  locked_by'[wf'[t]] = t /\ locked_until'[wf'[t]] = "future"
  BY DEF LeaseHeld
<1>1. CASE t = s
  BY <1>1 DEF claim, claim_next_workflow, TypeOK, TablesOK, RunsOK
<1>2. CASE t # s
  <2>1. Active(t) /\ wf'[t] = wf[t] /\ wf[t] \in Ids
    BY <1>2 DEF claim, Active, TypeOK, RunsOK
  <2>2. wf[t] # i
    BY <2>1, DistinctAssumption DEF LeaseHeld, claim, claim_next_workflow, LeaseFree
  <2> QED
    BY <2>1, <2>2 DEF LeaseHeld, claim, claim_next_workflow, TypeOK, TablesOK
<1> QED
  BY <1>1, <1>2

LEMMA ClockLease ==
  ASSUME TypeOK, LeaseHeld, NEW i \in Ids, ClockStep(i)
  PROVE  LeaseHeld'
<1>1. CASE lapse(i)
  <2>1. UNCHANGED <<pc, wf, locked_by>> /\ locked_until' = [locked_until EXCEPT ![i] = "past"]
    BY <1>1 DEF lapse, LetLapse, run
  <2>2. \A t \in Slots : Active(t) => wf[t] # i
    BY <1>1 DEF lapse, RunBy
  <2> QED
    BY <2>1, <2>2 DEF LeaseHeld, Active, TypeOK, TablesOK, RunsOK
<1>2. CASE \E n \in 1..Len(events[i]) : Elapse(i, n)
  BY <1>2 DEF Elapse, LeaseHeld, Active, tables, run
<1> QED
  BY <1>1, <1>2 DEF ClockStep

LEMMA HeartbeatLease ==
  ASSUME TypeOK, LeaseHeld, NEW s \in Slots, heartbeat(s)
  PROVE  LeaseHeld'
BY DEF heartbeat, extend_workflow_lock, others, LeaseHeld, Active, TypeOK, TablesOK, RunsOK

LEMMA ClientLease ==
  ASSUME TypeOK, LeaseHeld,
         \/ \E i \in Ids : start_workflow(i)
         \/ \E q \in Requests : send_signal(q) \/ write_signal(q)
  PROVE  LeaseHeld'
<1>1. UNCHANGED <<pc, wf, locked_by, locked_until>>
  BY DEF start_workflow, send_signal, write_signal, create_workflow, write_signal_and_wake_workflow,
         others, tables
<1> QED
  BY <1>1 DEF LeaseHeld, Active

LEMMA NextLease ==
  ASSUME TypeOK, LeaseHeld, MaxFaults["stall"] = 0, [Next]_vars
  PROVE  LeaseHeld'
<1>1. CASE UNCHANGED vars
  BY <1>1 DEF vars, LeaseHeld, Active
<1>2. CASE Next
  BY <1>2, RunStepLease, MoveKeepsLeases, FaultLease, ClaimLease, ClockLease, HeartbeatLease,
     ClientLease DEF Next
<1> QED
  BY <1>1, <1>2

\* Without stalls no two runs ever execute the same workflow at once.
THEOREM MutualExclusion ==
  ASSUME MaxFaults["stall"] = 0
  PROVE  Spec => []OneRunPerWorkflow
<1>1. Init => LeaseHeld
  BY DEF Init, LeaseHeld, Active
<1>2. TypeOK /\ LeaseHeld /\ [Next]_vars => LeaseHeld'
  BY NextLease
<1> QED
  BY <1>1, <1>2, TypeCorrect, LeaseHeldExcludes, PTL DEF Spec

-----------------------------------------------------------------------------
(***************************************************************************)
(* No lost wake-up, for every value of the constants: with any number of   *)
(* workers, programs, versions, crashes, errors and even stalls (several   *)
(* runs of one workflow at once), a waiting workflow waits for something   *)
(* that has not arrived and can still arrive; and a child's outcome is in  *)
(* its parent's log as soon as the child is terminal.                      *)
(***************************************************************************)
-----------------------------------------------------------------------------
(***************************************************************************)
(* The inductive invariant.                                                *)
(***************************************************************************)
Has(i) == status[i] # "absent"
ChildOf(c, p) == Has(c) /\ events[c][1].key = p

\* A workflow's first event is STARTED, and its parent exists; a workflow that
\* does not exist has no events.
RowsInv ==
  \A i \in Ids :
    /\ ~Has(i) => events[i] = <<>>
    /\ Has(i) => /\ Len(events[i]) >= 1
                 /\ events[i][1].type = "started" /\ events[i][1].step = 0
                 /\ events[i][1].key \in Ids => Has(events[i][1].key)

\* Where a row comes from: a client's start, or the site that spawns it.
Origin(c) ==
  IF c \in Roots THEN events[c][1].key = None
  ELSE \E v \in Versions, p \in Ids : \E k \in DOMAIN Program[v][p] :
         Program[v][p][k].op = "spawn" /\ Program[v][p][k].key = c /\ events[c][1].key = p

OriginInv == \A c \in Ids : Has(c) => Origin(c)

\* A CHILD_STARTED event names an existing child of its workflow, at the step
\* that spawns it in some version of the code.
SitesInv ==
  \A p \in Ids : \A n \in 1..Len(events[p]) :
    LET e == events[p][n] IN e.type = "child_started" =>
      /\ e.key \in Ids /\ ChildOf(e.key, p)
      /\ \E v \in Versions : /\ e.step \in DOMAIN Program[v][p]
                             /\ Program[v][p][e.step].op = "spawn"
                             /\ Program[v][p][e.step].key = e.key

\* A terminal child has told its parent.
ToldInv ==
  \A p, c \in Ids : (ChildOf(c, p) /\ status[c] \in Terminal) => SignalReceived(p, c)

\* WaitingIsWakeable, with the awaited child a child of the workflow.
WakeInv ==
  \A i \in Ids : status[i] = "waiting" =>
    \E key \in SignalTypes \cup Ids :
      /\ Marked(i, key) /\ ~SignalReceived(i, key)
      /\ key \in Ids => ChildOf(key, i)

TablesInv == RowsInv /\ OriginInv /\ SitesInv /\ ToldInv /\ WakeInv

\* The workflow a run claimed exists.
Exists(s) == Active(s) => Has(wf[s])

\* The history a run loaded is a prefix of its workflow's log.
Prefix(s) ==
  /\ pc[s] \in {"idle", "load"} => step[s] = 1
  /\ pc[s] \notin {"idle", "load"} =>
       /\ 1 <= Len(history[s]) /\ Len(history[s]) <= Len(events[wf[s]])
       /\ \A n \in 1..Len(history[s]) : history[s][n] = events[wf[s]][n]

\* What a run awaits belongs to the step it is at.
InStep(s) ==
  /\ pc[s] \in {"exec", "failed"} => Current(s).op = "activity"
  /\ pc[s] \in {"marking", "reload"} => Current(s).op \in {"signal", "join"}
  /\ pc[s] \in {"exec", "failed", "marking", "reload"} => step[s] \in DOMAIN Body(s)

\* A run that is past a spawning step left the child in the tables.
Passed(s) ==
  Active(s) => \A k \in DOMAIN Body(s) :
    (k < step[s] /\ Body(s)[k].op = "spawn") => Body(s)[k].key \in Ids /\ ChildOf(Body(s)[k].key, wf[s])

\* A run about to mark its workflow waiting has its marker in the log.
Marking(s) == pc[s] = "marking" => Marked(wf[s], Current(s).key)

RunInv(s) == Exists(s) /\ Prefix(s) /\ InStep(s) /\ Passed(s) /\ Marking(s)

\* A signal is only accepted for a workflow that exists.
RequestsInv == \A q \in Requests : request[q] = "checked" => Has(SignalTo[q])

Inv == TypeOK /\ TablesInv /\ RequestsInv /\ \A s \in Slots : RunInv(s)

USE DEF Has

LEMMA ToldAndWakeSuffice ==
  ASSUME Inv
  PROVE  WaitingIsWakeable /\ ParentTold
<1>1. ASSUME NEW i \in Ids, status[i] = "waiting"
      PROVE  \E key \in SignalTypes \cup Ids :
               /\ Marked(i, key) /\ ~SignalReceived(i, key)
               /\ key \in Ids => status[key] \in Live
  <2>1. PICK key \in SignalTypes \cup Ids :
          /\ Marked(i, key) /\ ~SignalReceived(i, key)
          /\ key \in Ids => ChildOf(key, i)
    BY <1>1 DEF Inv, TablesInv, WakeInv
  <2>2. ASSUME key \in Ids PROVE status[key] \in Live
    <3>1. Has(key) /\ status[key] \notin Terminal
      BY <2>1, <2>2 DEF Inv, TablesInv, ToldInv, ChildOf
    <3>2. status[key] \in WorkflowStatus
      BY <2>2 DEF Inv, TypeOK, TablesOK
    <3> QED
      BY <3>1, <3>2 DEF Has, WorkflowStatus
  <2> QED
    BY <2>1, <2>2
<1>2. ASSUME NEW i \in Ids, NEW j \in Ids, status[j] \in Terminal,
             NEW n \in find_event(events[j], 0, "started"), events[j][n].key = i
      PROVE  SignalReceived(i, j)
  <2>1. Has(j)
    BY <1>2 DEF Has, Terminal
  <2>2. n = 1
    <3>1. events[j][1].type = "started" /\ events[j][1].step = 0
      BY <2>1 DEF Inv, TablesInv, RowsInv
    <3>2. n \in 1..Len(events[j]) /\ Len(events[j]) \in Nat
      BY <1>2 DEF find_event, Inv, TypeOK, TablesOK
    <3>3. \A m \in 1..(n - 1) : ~(events[j][m].step = 0 /\ events[j][m].type = "started")
      BY <1>2 DEF find_event
    <3>4. ~(1 \in 1..(n - 1))
      BY <3>1, <3>3
    <3> QED
      BY <3>2, <3>4
  <2> QED
    BY <1>2, <2>1, <2>2 DEF Inv, TablesInv, ToldInv, ChildOf
<1> QED
  BY <1>1, <1>2 DEF WaitingIsWakeable, ParentTold

\* The parent a run reports to is the one its workflow was created with.
LEMMA ParentInfo ==
  ASSUME Inv, NEW s \in Slots, Active(s), pc[s] # "load"
  PROVE  parent_info(s) = events[wf[s]][1].key
<1> DEFINE h == history[s]
<1>1. /\ wf[s] \in Ids /\ Has(wf[s])
      /\ 1 <= Len(h) /\ Len(h) <= Len(events[wf[s]]) /\ h[1] = events[wf[s]][1]
      /\ h \in Seq(EventRecord)
  <2>1. wf[s] \in Ids /\ h \in Seq(EventRecord)
    BY DEF Inv, TypeOK, RunsOK, Active
  <2>2. Has(wf[s])
    BY DEF Inv, RunInv, Exists
  <2>3. 1 <= Len(h) /\ Len(h) <= Len(events[wf[s]]) /\ \A n \in 1..Len(h) : h[n] = events[wf[s]][n]
    BY DEF Inv, RunInv, Prefix, Active
  <2>4. 1 \in 1..Len(h)
    BY <2>1, <2>3
  <2> QED
    BY <2>1, <2>2, <2>3, <2>4
<1>2. h[1].type = "started" /\ h[1].step = 0
  BY <1>1 DEF Inv, TablesInv, RowsInv
<1> HIDE DEF h
<1>3. find_event(h, 0, "started") = {1}
  BY <1>1, <1>2 DEF find_event
<1>4. (CHOOSE n \in find_event(h, 0, "started") : TRUE) = 1
  BY <1>3
<1> QED
  BY <1>1, <1>3, <1>4 DEF parent_info, h

-----------------------------------------------------------------------------
(***************************************************************************)
(* What a step does to the tables, as the invariants of the tables see it. *)
(***************************************************************************)
\* Logs only grow, and rows are never deleted.
Grows ==
  \A i \in Ids : /\ Len(events[i]) <= Len(events'[i])
                 /\ \A n \in 1..Len(events[i]) : events'[i][n] = events[i][n]
Stays == \A i \in Ids : Has(i) => Has(i)'

\* A new row has a STARTED event, of an existing parent, and is running.
NewRows ==
  \A i \in Ids :
    /\ ~Has(i)' => events'[i] = events[i]
    /\ (~Has(i) /\ Has(i)') =>
         /\ Len(events'[i]) >= 1
         /\ events'[i][1].type = "started" /\ events'[i][1].step = 0
         /\ events'[i][1].key \in Ids => Has(events[i][1].key)'
         /\ Origin(i)'
         /\ status'[i] = "running"

Site(e, p) ==
  /\ e.key \in Ids /\ ChildOf(e.key, p)
  /\ \E v \in Versions : /\ e.step \in DOMAIN Program[v][p]
                         /\ Program[v][p][e.step].op = "spawn"
                         /\ Program[v][p][e.step].key = e.key
NewSites ==
  \A p \in Ids : \A n \in 1..Len(events'[p]) :
    (n > Len(events[p]) /\ events'[p][n].type = "child_started") => Site(events[p][n], p)'

\* A workflow becomes terminal together with the signal to its parent.
NewEnds ==
  \A c \in Ids : (status'[c] \in Terminal /\ status[c] \notin Terminal) =>
    /\ Has(c)
    /\ \A p \in Ids : events[c][1].key = p => SignalReceived(p, c)'

\* A waiting workflow has received nothing new, or has just begun to wait for
\* something that has not come.
NewWaits ==
  \A i \in Ids : status'[i] = "waiting" =>
    \/ status[i] = "waiting" /\ \A key : ~SignalReceived(i, key) => ~SignalReceived(i, key)'
    \/ \E key \in SignalTypes \cup Ids :
         Marked(i, key)' /\ ~SignalReceived(i, key)' /\ (key \in Ids => ChildOf(key, i)')

TableStep == Grows /\ Stays /\ NewRows /\ NewSites /\ NewEnds /\ NewWaits

LEMMA Monotone ==
  ASSUME TypeOK, TypeOK', Grows, NEW i \in Ids, NEW key
  PROVE  /\ Marked(i, key) => Marked(i, key)'
         /\ SignalReceived(i, key) => SignalReceived(i, key)'
<1>1. Len(events[i]) \in Nat /\ Len(events'[i]) \in Nat
  BY DEF TypeOK, TablesOK
<1> QED
  BY <1>1 DEF Grows, Marked, SignalReceived

LEMMA FirstStays ==
  ASSUME TypeOK, TypeOK', RowsInv, Grows, Stays, NEW i \in Ids, Has(i)
  PROVE  Has(i)' /\ events'[i][1] = events[i][1] /\ Len(events'[i]) >= 1
<1>1. Len(events[i]) \in Nat /\ Len(events'[i]) \in Nat /\ Len(events[i]) >= 1
  BY DEF TypeOK, TablesOK, RowsInv
<1>2. 1 \in 1..Len(events[i])
  BY <1>1
<1> QED
  BY <1>1, <1>2 DEF Grows, Stays

LEMMA TableStepInv ==
  ASSUME TypeOK, TypeOK', TablesInv, TableStep
  PROVE  TablesInv'
<1> RowsInv /\ OriginInv /\ SitesInv /\ ToldInv /\ WakeInv
    /\ Grows /\ Stays /\ NewRows /\ NewSites /\ NewEnds /\ NewWaits
  BY DEF TablesInv, TableStep
<1> HIDE DEF TablesInv, TableStep
<1>1. RowsInv'
  <2> SUFFICES ASSUME NEW i \in Ids
               PROVE  /\ ~Has(i)' => events'[i] = <<>>
                      /\ Has(i)' =>
                           /\ Len(events'[i]) >= 1
                           /\ events'[i][1].type = "started" /\ events'[i][1].step = 0
                           /\ events'[i][1].key \in Ids => Has(events[i][1].key)'
    BY DEF RowsInv
  <2>1. CASE Has(i)
    <3>1. Has(i)' /\ events'[i][1] = events[i][1] /\ Len(events'[i]) >= 1
      BY <2>1, FirstStays
    <3>2. /\ events[i][1].type = "started" /\ events[i][1].step = 0
          /\ events[i][1].key \in Ids => Has(events[i][1].key)
      BY <2>1 DEF RowsInv
    <3> QED
      BY <3>1, <3>2 DEF Stays
  <2>2. CASE ~Has(i)
    <3>1. events[i] = <<>>
      BY <2>2 DEF RowsInv
    <3> QED
      BY <2>2, <3>1 DEF NewRows
  <2> QED
    BY <2>1, <2>2
<1>2. OriginInv'
  <2> SUFFICES ASSUME NEW c \in Ids, Has(c)' PROVE Origin(c)'
    BY DEF OriginInv
  <2>1. CASE Has(c)
    <3>1. events'[c][1] = events[c][1] /\ Origin(c)
      BY <2>1, FirstStays DEF OriginInv
    <3> QED
      BY <3>1 DEF Origin
  <2>2. CASE ~Has(c)
    BY <2>2 DEF NewRows
  <2> QED
    BY <2>1, <2>2
<1>3. SitesInv'
  <2> SUFFICES ASSUME NEW p \in Ids, NEW n \in 1..Len(events'[p]), events'[p][n].type = "child_started"
               PROVE  Site(events[p][n], p)'
    BY DEF SitesInv, Site
  <2>1. CASE n > Len(events[p])
    BY <2>1 DEF NewSites
  <2>2. CASE ~(n > Len(events[p]))
    <3>1. n \in 1..Len(events[p])
      BY <2>2 DEF TypeOK, TablesOK
    <3>2. events'[p][n] = events[p][n]
      BY <3>1 DEF Grows
    <3>3. Site(events[p][n], p)
      BY <3>1, <3>2 DEF SitesInv, Site
    <3>4. ChildOf(events[p][n].key, p)'
      <4>1. PICK c \in Ids : c = events[p][n].key /\ ChildOf(c, p)
        BY <3>3 DEF Site
      <4>2. Has(c)' /\ events'[c][1] = events[c][1]
        BY <4>1, FirstStays DEF ChildOf
      <4> QED
        BY <3>2, <4>1, <4>2 DEF ChildOf
    <3> QED
      BY <3>2, <3>3, <3>4 DEF Site
  <2> QED
    BY <2>1, <2>2
<1>4. ToldInv'
  <2> SUFFICES ASSUME NEW p \in Ids, NEW c \in Ids, ChildOf(c, p)', status'[c] \in Terminal
               PROVE  SignalReceived(p, c)'
    BY DEF ToldInv
  <2>1. CASE status[c] \in Terminal
    <3>1. ChildOf(c, p)
      <4>1. Has(c)
        BY <2>1 DEF Has, Terminal
      <4>2. events'[c][1] = events[c][1]
        BY <4>1, FirstStays
      <4> QED
        BY <4>1, <4>2 DEF ChildOf
    <3> QED
      BY <2>1, <3>1, Monotone DEF ToldInv
  <2>2. CASE status[c] \notin Terminal
    <3>1. Has(c)
      BY <2>2 DEF NewEnds
    <3>2. events[c][1].key = p
      <4>1. events'[c][1] = events[c][1]
        BY <3>1, FirstStays
      <4> QED
        BY <4>1 DEF ChildOf
    <3> QED
      BY <2>2, <3>2 DEF NewEnds
  <2> QED
    BY <2>1, <2>2
<1>5. WakeInv'
  <2> SUFFICES ASSUME NEW i \in Ids, status'[i] = "waiting"
               PROVE  \E key \in SignalTypes \cup Ids :
                        Marked(i, key)' /\ ~SignalReceived(i, key)' /\ (key \in Ids => ChildOf(key, i)')
    BY DEF WakeInv
  <2>1. CASE status[i] = "waiting" /\ \A key : ~SignalReceived(i, key) => ~SignalReceived(i, key)'
    <3>1. PICK key \in SignalTypes \cup Ids :
            Marked(i, key) /\ ~SignalReceived(i, key) /\ (key \in Ids => ChildOf(key, i))
      BY <2>1 DEF WakeInv
    <3>2. Marked(i, key)' /\ ~SignalReceived(i, key)'
      BY <2>1, <3>1, Monotone
    <3>3. ASSUME key \in Ids PROVE ChildOf(key, i)'
      <4>1. Has(key) /\ events[key][1].key = i
        BY <3>1, <3>3 DEF ChildOf
      <4>2. Has(key)' /\ events'[key][1] = events[key][1]
        BY <3>3, <4>1, FirstStays
      <4> QED
        BY <4>1, <4>2 DEF ChildOf
    <3> QED
      BY <3>2, <3>3
  <2> QED
    BY <2>1 DEF NewWaits
<1> QED
  BY <1>1, <1>2, <1>3, <1>4, <1>5 DEF TablesInv

-----------------------------------------------------------------------------
(***************************************************************************)
(* Every step of the system is such a step of the tables.                  *)
(***************************************************************************)
\* What an appended event does to one log.
LEMMA Appending ==
  ASSUME TypeOK, NEW i \in Ids, NEW e \in EventRecord, events'[i] = Append(events[i], e)
  PROVE  /\ Len(events[i]) \in Nat
         /\ Len(events'[i]) = Len(events[i]) + 1
         /\ \A n \in 1..Len(events[i]) : events'[i][n] = events[i][n]
         /\ events'[i][Len(events[i]) + 1] = e
<1>1. events[i] \in Seq(EventRecord)
  BY DEF TypeOK, TablesOK
<1> QED
  BY <1>1

LEMMA AppendedSignal ==
  ASSUME TypeOK, NEW i \in Ids, NEW e \in EventRecord, events'[i] = Append(events[i], e), NEW key
  PROVE  /\ IsReceived(e, key) => SignalReceived(i, key)'
         /\ IsMarker(e, key) => Marked(i, key)'
         /\ (SignalReceived(i, key)' /\ ~IsReceived(e, key)) => SignalReceived(i, key)
<1> DEFINE L == Len(events[i])
<1>1. /\ L \in Nat /\ Len(events'[i]) = L + 1
      /\ \A n \in 1..L : events'[i][n] = events[i][n]
      /\ events'[i][L + 1] = e
  BY Appending
<1>2. L + 1 \in 1..Len(events'[i]) /\ \A n \in 1..Len(events'[i]) : n \in 1..L \/ n = L + 1
  BY <1>1
<1> HIDE DEF L
<1>3. (\E n \in 1..Len(events'[i]) : IsReceived(events'[i][n], key)) /\ ~IsReceived(e, key)
        => \E n \in 1..L : IsReceived(events[i][n], key)
  BY <1>1, <1>2
<1> QED
  BY <1>1, <1>2, <1>3 DEF SignalReceived, Marked, L

\* Logs of which each is unchanged or longer by one event.
LEMMA GrowingLogs ==
  ASSUME TypeOK, \A i \in Ids : events'[i] = events[i] \/ \E e \in EventRecord : events'[i] = Append(events[i], e)
  PROVE  Grows
<1> SUFFICES ASSUME NEW i \in Ids
             PROVE  /\ Len(events[i]) <= Len(events'[i])
                    /\ \A n \in 1..Len(events[i]) : events'[i][n] = events[i][n]
  BY DEF Grows
<1>1. CASE events'[i] = events[i]
  <2>1. Len(events[i]) \in Nat
    BY DEF TypeOK, TablesOK
  <2> QED
    BY <1>1, <2>1
<1>2. CASE \E e \in EventRecord : events'[i] = Append(events[i], e)
  BY <1>2, Appending
<1> QED
  BY <1>1, <1>2

\* The type of a new event is that of the event appended.
LEMMA NewEvent ==
  ASSUME TypeOK, NEW i \in Ids, NEW e \in EventRecord, events'[i] = Append(events[i], e),
         NEW n \in 1..Len(events'[i]), n > Len(events[i])
  PROVE  events'[i][n] = e
<1>1. n = Len(events[i]) + 1
  BY Appending
<1> QED
  BY <1>1, Appending

\* Neither a received signal nor a child's start is written, no status changes.
Silent(e) == e.type # "child_started" /\ (e.type = "signal" => e.val = Waiting)
Quiet ==
  /\ UNCHANGED status
  /\ \/ UNCHANGED events
     \/ \E i \in Ids, e \in EventRecord : Has(i) /\ Silent(e) /\ events' = Appended(i, e)

LEMMA QuietStep ==
  ASSUME TypeOK, Quiet
  PROVE  TableStep
<1>1. CASE UNCHANGED <<status, events>>
  <2>1. \A i \in Ids : Len(events[i]) \in Nat
    BY DEF TypeOK, TablesOK
  <2>2. Grows
    BY <1>1, <2>1 DEF Grows
  <2>3. Stays /\ NewRows /\ NewEnds
    BY <1>1 DEF Stays, NewRows, NewEnds
  <2>4. NewSites
    BY <1>1, <2>1 DEF NewSites
  <2>5. NewWaits
    BY <1>1 DEF NewWaits, SignalReceived
  <2> QED
    BY <2>2, <2>3, <2>4, <2>5 DEF TableStep
<1>2. ASSUME UNCHANGED status, NEW i \in Ids, NEW e \in EventRecord, Has(i), Silent(e), events' = Appended(i, e)
      PROVE  TableStep
  <2>1. events'[i] = Append(events[i], e) /\ \A j \in Ids \ {i} : events'[j] = events[j]
    BY <1>2 DEF Appended, TypeOK, TablesOK
  <2>2. Grows
    BY <2>1, GrowingLogs
  <2>3. Stays /\ NewRows /\ NewEnds
    BY <1>2, <2>1 DEF Stays, NewRows, NewEnds
  <2>4. NewSites
    <3> SUFFICES ASSUME NEW p \in Ids, NEW n \in 1..Len(events'[p]), n > Len(events[p]),
                        events'[p][n].type = "child_started"
                 PROVE  FALSE
      BY DEF NewSites
    <3>1. CASE p = i
      BY <1>2, <2>1, <3>1, NewEvent DEF Silent
    <3>2. CASE p # i
      <4>1. Len(events[p]) \in Nat
        BY DEF TypeOK, TablesOK
      <4> QED
        BY <2>1, <3>2, <4>1
    <3> QED
      BY <3>1, <3>2
  <2>5. NewWaits
    <3> SUFFICES ASSUME NEW j \in Ids, NEW key, ~SignalReceived(j, key) PROVE ~SignalReceived(j, key)'
      BY <1>2 DEF NewWaits
    <3>1. CASE j = i
      <4>1. ~IsReceived(e, key)
        BY <1>2 DEF Silent, IsReceived
      <4> QED
        BY <2>1, <3>1, <4>1, AppendedSignal
    <3>2. CASE j # i
      BY <2>1, <3>2 DEF SignalReceived
    <3> QED
      BY <3>1, <3>2
  <2> QED
    BY <2>2, <2>3, <2>4, <2>5 DEF TableStep
<1> QED
  BY <1>1, <1>2 DEF Quiet

\* A client starts a workflow.
LEMMA StartStep ==
  ASSUME TypeOK, RowsInv, NEW i \in Roots, ~Has(i), create_workflow(i)
  PROVE  TableStep
<1> DEFINE e == Event("started", 0, None, None)
<1>1. /\ i \in Ids /\ e \in EventRecord /\ e.type = "started" /\ e.step = 0 /\ e.key = None
      /\ status' = [status EXCEPT ![i] = "running"]
      /\ events'[i] = Append(events[i], e) /\ \A j \in Ids \ {i} : events'[j] = events[j]
  BY EventTyped, NoneTyped, ConstantsAssumption DEF EventType, Event, create_workflow, Appended, TypeOK, TablesOK
<1> HIDE DEF e
<1>2. \A j \in Ids : status'[j] = IF j = i THEN "running" ELSE status[j]
  BY <1>1 DEF TypeOK, TablesOK
<1>3. Len(events'[i]) = 1 /\ events'[i][1] = e
  <2>1. Len(events[i]) = 0
    BY <1>1 DEF RowsInv
  <2> QED
    BY <1>1, <2>1, Appending
<1>4. Grows
  BY <1>1, GrowingLogs
<1>5. Stays
  BY <1>2 DEF Stays
<1>6. NewRows
  <2>1. Origin(i)'
    BY <1>1, <1>3 DEF Origin
  <2> QED
    BY <1>1, <1>2, <1>3, <2>1, DistinctAssumption DEF NewRows
<1>7. NewSites
  <2> SUFFICES ASSUME NEW p \in Ids, NEW n \in 1..Len(events'[p]), n > Len(events[p]),
                      events'[p][n].type = "child_started"
               PROVE  FALSE
    BY DEF NewSites
  <2>1. CASE p = i
    BY <1>1, <2>1, NewEvent
  <2>2. CASE p # i
    BY <1>1, <2>2 DEF TypeOK, TablesOK
  <2> QED
    BY <2>1, <2>2
<1>8. NewEnds
  BY <1>2 DEF NewEnds, Terminal
<1>9. NewWaits
  <2> SUFFICES ASSUME NEW j \in Ids, status'[j] = "waiting"
               PROVE  status[j] = "waiting" /\ \A key : ~SignalReceived(j, key) => ~SignalReceived(j, key)'
    BY DEF NewWaits
  <2>1. j # i /\ status[j] = "waiting" /\ events'[j] = events[j]
    BY <1>1, <1>2
  <2> QED
    BY <2>1 DEF SignalReceived
<1> QED
  BY <1>4, <1>5, <1>6, <1>7, <1>8, <1>9 DEF TableStep

\* A client's signal wakes its workflow.
LEMMA SignalStep ==
  ASSUME TypeOK, NEW i \in Ids, NEW t \in SignalTypes, NEW q \in Requests, Has(i),
         write_signal_and_wake_workflow(i, t, q)
  PROVE  TableStep
<1> DEFINE e == Event("signal", 0, t, q)
<1>1. /\ e \in EventRecord /\ e.type = "signal"
      /\ status' = [status EXCEPT ![i] = "running"]
      /\ events'[i] = Append(events[i], e) /\ \A j \in Ids \ {i} : events'[j] = events[j]
  BY EventTyped DEF EventType, Event, Keys, Values, write_signal_and_wake_workflow, Appended, TypeOK, TablesOK
<1> HIDE DEF e
<1>2. \A j \in Ids : status'[j] = IF j = i THEN "running" ELSE status[j]
  BY <1>1 DEF TypeOK, TablesOK
<1>3. Grows
  BY <1>1, GrowingLogs
<1>4. Stays /\ NewRows
  BY <1>1, <1>2 DEF Stays, NewRows
<1>5. NewSites
  <2> SUFFICES ASSUME NEW p \in Ids, NEW n \in 1..Len(events'[p]), n > Len(events[p]),
                      events'[p][n].type = "child_started"
               PROVE  FALSE
    BY DEF NewSites
  <2>1. CASE p = i
    BY <1>1, <2>1, NewEvent
  <2>2. CASE p # i
    BY <1>1, <2>2 DEF TypeOK, TablesOK
  <2> QED
    BY <2>1, <2>2
<1>6. NewEnds
  BY <1>2 DEF NewEnds, Terminal
<1>7. NewWaits
  <2> SUFFICES ASSUME NEW j \in Ids, status'[j] = "waiting"
               PROVE  status[j] = "waiting" /\ \A key : ~SignalReceived(j, key) => ~SignalReceived(j, key)'
    BY DEF NewWaits
  <2>1. j # i /\ status[j] = "waiting" /\ events'[j] = events[j]
    BY <1>1, <1>2
  <2> QED
    BY <2>1 DEF SignalReceived
<1> QED
  BY <1>3, <1>4, <1>5, <1>6, <1>7 DEF TableStep

\* A workflow is marked waiting for what has not come.
LEMMA WaitingStep ==
  ASSUME TypeOK, NEW i \in Ids, NEW key \in SignalTypes \cup Ids, Has(i),
         mark_workflow_waiting(i, key), Marked(i, key), key \in Ids => ChildOf(key, i)
  PROVE  TableStep
<1>1. /\ UNCHANGED events
      /\ \A j \in Ids : status'[j] = IF j = i THEN "waiting" ELSE status[j]
      /\ \A j \in Ids : Len(events[j]) \in Nat
  BY DEF mark_workflow_waiting, TypeOK, TablesOK
<1>2. Grows /\ Stays /\ NewRows /\ NewSites
  BY <1>1 DEF Grows, Stays, NewRows, NewSites
<1>3. NewEnds
  BY <1>1 DEF NewEnds, Terminal
<1>4. NewWaits
  <2>1. Marked(i, key)' /\ ~SignalReceived(i, key)'
    BY <1>1 DEF mark_workflow_waiting, Marked, SignalReceived
  <2>2. ASSUME key \in Ids PROVE ChildOf(key, i)'
    BY <1>1, <2>2 DEF ChildOf
  <2>3. ASSUME NEW j \in Ids, j # i, status'[j] = "waiting"
        PROVE  status[j] = "waiting" /\ \A k : ~SignalReceived(j, k) => ~SignalReceived(j, k)'
    BY <1>1, <2>3 DEF SignalReceived
  <2> QED
    BY <2>1, <2>2, <2>3 DEF NewWaits
<1> QED
  BY <1>2, <1>3, <1>4 DEF TableStep

\* A workflow's parent is none, or a workflow that exists, other than itself.
LEMMA ParentOf ==
  ASSUME TablesInv, NEW i \in Ids, Has(i)
  PROVE  /\ events[i][1].key = None \/ events[i][1].key \in Ids
         /\ events[i][1].key \in Ids => Has(events[i][1].key)
         /\ events[i][1].key # i
<1>1. Origin(i)
  BY DEF TablesInv, OriginInv
<1>2. CASE i \in Roots
  BY <1>1, <1>2, DistinctAssumption DEF Origin
<1>3. CASE i \notin Roots
  <2>1. PICK v \in Versions, p \in Ids : \E k \in DOMAIN Program[v][p] :
          Program[v][p][k].op = "spawn" /\ Program[v][p][k].key = i /\ events[i][1].key = p
    BY <1>1, <1>3 DEF Origin
  <2>2. i # p
    BY <2>1, ChildIdAssumption
  <2> QED
    BY <2>1, <2>2 DEF TablesInv, RowsInv
<1> QED
  BY <1>2, <1>3 DEF TablesInv, RowsInv

\* A workflow ends and tells its parent.
LEMMA EndStep ==
  ASSUME TypeOK, TablesInv, NEW i \in Ids, Has(i),
         NEW type \in {"workflow_completed", "workflow_failed"}, NEW final \in Terminal,
         NEW outcome \in {Done, Failed}, NEW p, p = events[i][1].key,
         write_terminal_workflow_event(i, type, final, p, outcome)
  PROVE  TableStep
<1> DEFINE e == Event(type, 0, None, None)
           f == Event("signal", 0, i, outcome)
<1>1. /\ p # i
      /\ p \in Ids => Has(p)
  BY ParentOf
<1>2. /\ e \in EventRecord /\ e.type = type
      /\ f \in EventRecord /\ f.type = "signal" /\ f.key = i /\ f.val = outcome
  BY EventTyped, NoneTyped DEF EventType, Event, Keys
<1>3. \A j \in Ids : /\ events'[j] = IF j = i THEN Append(events[j], e)
                                     ELSE IF j = p THEN Append(events[j], f) ELSE events[j]
                     /\ status'[j] = IF j = i THEN final ELSE IF j = p THEN "running" ELSE status[j]
  BY DEF write_terminal_workflow_event
<1> HIDE DEF e, f
<1>4. final # "absent" /\ final # "waiting"
  BY DEF Terminal
<1>5. Grows
  BY <1>2, <1>3, GrowingLogs
<1>6. Stays
  BY <1>3, <1>4 DEF Stays
<1>7. NewRows
  BY <1>1, <1>3, <1>4 DEF NewRows
<1>8. NewSites
  <2> SUFFICES ASSUME NEW r \in Ids, NEW n \in 1..Len(events'[r]), n > Len(events[r]),
                      events'[r][n].type = "child_started"
               PROVE  FALSE
    BY DEF NewSites
  <2>1. CASE r = i
    BY <1>2, <1>3, <2>1, NewEvent
  <2>2. CASE r # i /\ r = p
    BY <1>2, <1>3, <2>2, NewEvent
  <2>3. CASE r # i /\ r # p
    BY <1>3, <2>3 DEF TypeOK, TablesOK
  <2> QED
    BY <2>1, <2>2, <2>3
<1>9. NewEnds
  <2> SUFFICES ASSUME NEW c \in Ids, status'[c] \in Terminal, status[c] \notin Terminal
               PROVE  Has(c) /\ \A r \in Ids : events[c][1].key = r => SignalReceived(r, c)'
    BY DEF NewEnds
  <2>1. c = i
    BY <1>3 DEF Terminal
  <2>2. ASSUME p \in Ids PROVE SignalReceived(p, i)'
    <3>1. IsReceived(f, i)
      BY <1>2, DistinctAssumption DEF IsReceived
    <3> QED
      BY <1>1, <1>2, <1>3, <2>2, <3>1, AppendedSignal
  <2> QED
    BY <2>1, <2>2
<1>10. NewWaits
  <2> SUFFICES ASSUME NEW j \in Ids, status'[j] = "waiting"
               PROVE  status[j] = "waiting" /\ \A key : ~SignalReceived(j, key) => ~SignalReceived(j, key)'
    BY DEF NewWaits
  <2>1. j # i /\ status[j] = "waiting" /\ events'[j] = events[j]
    BY <1>3, <1>4
  <2> QED
    BY <2>1 DEF SignalReceived
<1> QED
  BY <1>5, <1>6, <1>7, <1>8, <1>9, <1>10 DEF TableStep

\* In every version of the code a site spawns the same child.
LEMMA SameSite ==
  ASSUME NEW v \in Versions, NEW w \in Versions, NEW p \in Ids,
         NEW k \in DOMAIN Program[v][p], k \in DOMAIN Program[w][p],
         Program[v][p][k].op = "spawn", Program[w][p][k].op = "spawn"
  PROVE  Program[v][p][k].key = Program[w][p][k].key
BY ChildIdAssumption

\* A child that a step would spawn and that exists was spawned by that step.
LEMMA SpawnedHere ==
  ASSUME TypeOK, TablesInv, NEW s \in Slots, At(s, "spawn"), Has(Current(s).key)
  PROVE  ChildOf(Current(s).key, wf[s])
<1> DEFINE c == Current(s).key
<1>1. /\ code[WorkerOf[s]] \in Versions /\ wf[s] \in Ids
      /\ step[s] \in DOMAIN Program[code[WorkerOf[s]]][wf[s]]
      /\ Program[code[WorkerOf[s]]][wf[s]][step[s]].op = "spawn"
      /\ Program[code[WorkerOf[s]]][wf[s]][step[s]].key = c
  BY CurrentTyped, BodyTyped DEF At, Body, Current
<1>2. c \in Ids /\ c \notin Roots
  BY SpawnKey
<1> HIDE DEF c
<1>3. Origin(c)
  BY <1>2 DEF TablesInv, OriginInv, c
<1>4. PICK v \in Versions, p \in Ids : \E k \in DOMAIN Program[v][p] :
        Program[v][p][k].op = "spawn" /\ Program[v][p][k].key = c /\ events[c][1].key = p
  BY <1>2, <1>3 DEF Origin
<1>5. p = wf[s]
  BY <1>1, <1>4, ChildIdAssumption
<1> QED
  BY <1>4, <1>5 DEF ChildOf, c

\* A run spawns a child, or finds it spawned already.
LEMMA SpawningStep ==
  ASSUME TypeOK, TablesInv, NEW s \in Slots, At(s, "spawn"), Has(wf[s]),
         NEW c, c = Current(s).key, NEW p, p = wf[s],
         create_child_workflow(p, c, step[s])
  PROVE  TableStep /\ ChildOf(c, p)'
<1>1. /\ code[WorkerOf[s]] \in Versions /\ p \in Ids
      /\ step[s] \in DOMAIN Program[code[WorkerOf[s]]][p]
      /\ Program[code[WorkerOf[s]]][p][step[s]].op = "spawn"
      /\ Program[code[WorkerOf[s]]][p][step[s]].key = c
      /\ step[s] \in Nat
  BY CurrentTyped, BodyTyped DEF At, Body, Current, TypeOK, RunsOK
<1>2. c \in Ids /\ c \notin Roots /\ c # p
  BY SpawnKey
<1>3. CASE Has(c)
  <2>1. UNCHANGED <<status, events>>
    BY <1>3 DEF create_child_workflow, tables
  <2>2. ChildOf(c, p)
    BY <1>3, SpawnedHere
  <2>3. Quiet /\ ChildOf(c, p)'
    BY <2>1, <2>2 DEF Quiet, ChildOf
  <2> QED
    BY <2>3, QuietStep
<1>4. CASE ~Has(c)
  <2> DEFINE e == Event("started", 0, p, None)
             f == Event("child_started", step[s], c, c)
  <2>1. /\ e \in EventRecord /\ e.type = "started" /\ e.step = 0 /\ e.key = p
        /\ f \in EventRecord /\ f.type = "child_started" /\ f.step = step[s] /\ f.key = c
    BY <1>1, <1>2, EventTyped, NoneTyped DEF EventType, Event, Keys, Values
  <2>2. \A j \in Ids : /\ events'[j] = IF j = c THEN Append(events[j], e)
                                       ELSE IF j = p THEN Append(events[j], f) ELSE events[j]
                       /\ status'[j] = IF j = c THEN "running" ELSE status[j]
    BY <1>2, <1>4 DEF create_child_workflow, TypeOK, TablesOK
  <2> HIDE DEF e, f
  <2>3. Len(events'[c]) = 1 /\ events'[c][1] = e
    <3>1. Len(events[c]) = 0
      BY <1>2, <1>4 DEF TablesInv, RowsInv
    <3>2. events'[c] = Append(events[c], e)
      BY <1>2, <2>2
    <3> QED
      BY <1>2, <2>1, <3>1, <3>2, Appending
  <2>4. ChildOf(c, p)'
    BY <1>2, <2>1, <2>2, <2>3 DEF ChildOf
  <2>5. Grows
    BY <2>1, <2>2, GrowingLogs
  <2>6. Stays
    BY <2>2 DEF Stays
  <2>7. NewRows
    <3>1. Origin(c)'
      BY <1>1, <1>2, <2>1, <2>3 DEF Origin
    <3>2. events'[c][1].key = p /\ Has(p)'
      BY <1>1, <2>1, <2>2, <2>3
    <3> QED
      BY <1>2, <2>1, <2>2, <2>3, <3>1, <3>2 DEF NewRows
  <2>8. NewSites
    <3> SUFFICES ASSUME NEW r \in Ids, NEW n \in 1..Len(events'[r]), n > Len(events[r]),
                        events'[r][n].type = "child_started"
                 PROVE  Site(events[r][n], r)'
      BY DEF NewSites
    <3>1. ASSUME r = c PROVE FALSE
      BY <1>2, <2>1, <2>2, <3>1, NewEvent
    <3>2. r = p
      BY <2>2, <3>1 DEF TypeOK, TablesOK
    <3>3. events'[p][n] = f
      BY <1>1, <1>2, <2>1, <2>2, <3>2, NewEvent
    <3> QED
      BY <1>1, <1>2, <2>1, <2>4, <3>2, <3>3 DEF Site, ChildOf
  <2>9. NewEnds
    BY <2>2 DEF NewEnds, Terminal
  <2>10. NewWaits
    <3> SUFFICES ASSUME NEW j \in Ids, status'[j] = "waiting", NEW key, ~SignalReceived(j, key)
                 PROVE  status[j] = "waiting" /\ ~SignalReceived(j, key)'
      BY <2>2 DEF NewWaits
    <3>1. j # c /\ status[j] = "waiting"
      BY <2>2
    <3>2. CASE j = p
      <4>1. events'[j] = Append(events[j], f) /\ ~IsReceived(f, key)
        BY <2>1, <2>2, <3>1, <3>2 DEF IsReceived
      <4> QED
        BY <2>1, <3>1, <4>1, AppendedSignal
    <3>3. CASE j # p
      BY <2>2, <3>1, <3>3 DEF SignalReceived
    <3> QED
      BY <3>1, <3>2, <3>3
  <2> QED
    BY <2>4, <2>5, <2>6, <2>7, <2>8, <2>9, <2>10 DEF TableStep
<1> QED
  BY <1>3, <1>4

-----------------------------------------------------------------------------
(***************************************************************************)
(* What a step does to the runs.                                           *)
(***************************************************************************)
\* Slot t goes on as it was.
Same(t) ==
  /\ pc'[t] = pc[t] /\ wf'[t] = wf[t] /\ history'[t] = history[t] /\ step'[t] = step[t]
  /\ code'[WorkerOf[t]] = code[WorkerOf[t]]

\* Slot t runs on, at the same step, and awaits something else.
Moves(t, to) ==
  /\ pc'[t] = to /\ wf'[t] = wf[t] /\ history'[t] = history[t] /\ step'[t] = step[t]
  /\ code'[WorkerOf[t]] = code[WorkerOf[t]]

\* What holds of the program's steps holds of them when the tables change.
LEMMA SameBody ==
  ASSUME NEW t \in Slots, wf'[t] = wf[t], code'[WorkerOf[t]] = code[WorkerOf[t]]
  PROVE  /\ Body(t)' = Body(t)
         /\ step'[t] = step[t] => Current(t)' = Current(t)
BY DEF Body, Current

LEMMA LogKept ==
  ASSUME TypeOK, TypeOK', RowsInv, Grows, Stays, NEW t \in Slots, Active(t), RunInv(t), wf'[t] = wf[t]
  PROVE  /\ Has(wf[t])'
         /\ pc[t] # "load" =>
              /\ 1 <= Len(history[t]) /\ Len(history[t]) <= Len(events'[wf'[t]])
              /\ \A n \in 1..Len(history[t]) : history[t][n] = events'[wf'[t]][n]
         /\ \A key : Marked(wf[t], key) => Marked(wf[t], key)'
         /\ \A c \in Ids : ChildOf(c, wf[t]) => ChildOf(c, wf[t])'
<1>1. /\ wf[t] \in Ids /\ Has(wf[t])
      /\ Len(history[t]) \in Nat /\ Len(events[wf[t]]) \in Nat /\ Len(events'[wf[t]]) \in Nat
  BY DEF RunInv, Exists, TypeOK, TablesOK, RunsOK, Active
<1>2. Has(wf[t])'
  BY <1>1 DEF Stays
<1>3. ASSUME pc[t] # "load"
      PROVE  /\ 1 <= Len(history[t]) /\ Len(history[t]) <= Len(events'[wf'[t]])
             /\ \A n \in 1..Len(history[t]) : history[t][n] = events'[wf'[t]][n]
  <2>1. /\ 1 <= Len(history[t]) /\ Len(history[t]) <= Len(events[wf[t]])
        /\ \A n \in 1..Len(history[t]) : history[t][n] = events[wf[t]][n]
    BY <1>3 DEF RunInv, Prefix, Active
  <2>2. /\ Len(events[wf[t]]) <= Len(events'[wf[t]])
        /\ \A n \in 1..Len(events[wf[t]]) : events'[wf[t]][n] = events[wf[t]][n]
    BY <1>1 DEF Grows
  <2>3. \A n \in 1..Len(history[t]) : n \in 1..Len(events[wf[t]])
    BY <1>1, <2>1
  <2>4. \A n \in 1..Len(history[t]) : history[t][n] = events'[wf[t]][n]
    BY <2>1, <2>2, <2>3
  <2>5. 1 <= Len(history[t]) /\ Len(history[t]) <= Len(events'[wf[t]])
    BY <1>1, <2>1, <2>2
  <2> QED
    BY <2>4, <2>5
<1>4. ASSUME NEW key, Marked(wf[t], key) PROVE Marked(wf[t], key)'
  <2>1. PICK i \in Ids : i = wf[t]
    BY <1>1
  <2>2. Marked(i, key)'
    BY <1>4, <2>1, Monotone
  <2> QED
    BY <2>1, <2>2 DEF Marked
<1>5. ASSUME NEW c \in Ids, ChildOf(c, wf[t]) PROVE ChildOf(c, wf[t])'
  <2>1. Has(c)' /\ events'[c][1] = events[c][1]
    BY <1>5, FirstStays DEF ChildOf
  <2> QED
    BY <1>5, <2>1 DEF ChildOf
<1> QED
  BY <1>2, <1>3, <1>4, <1>5

LEMMA RunOver ==
  ASSUME NEW t \in Slots, pc'[t] = "idle", step'[t] = 1
  PROVE  RunInv(t)'
BY DEF RunInv, Exists, Prefix, InStep, Passed, Marking, Active

LEMMA RunMoves ==
  ASSUME TypeOK, TypeOK', RowsInv, Grows, Stays, NEW t \in Slots, Active(t), RunInv(t),
         NEW to \in PC \ {"idle"}, Moves(t, to),
         to = "load" => pc[t] = "load",
         to # "load" => pc[t] # "load",
         to \in {"exec", "failed"} => Current(t).op = "activity",
         to \in {"marking", "reload"} => Current(t).op \in {"signal", "join"},
         to \in {"exec", "failed", "marking", "reload"} => step[t] \in DOMAIN Body(t),
         to = "marking" => Marked(wf[t], Current(t).key)'
  PROVE  RunInv(t)'
<1>1. /\ Body(t)' = Body(t) /\ Current(t)' = Current(t)
      /\ pc'[t] = to /\ wf'[t] = wf[t] /\ history'[t] = history[t] /\ step'[t] = step[t]
  BY SameBody DEF Moves
<1>2. Exists(t)'
  BY <1>1, LogKept DEF Exists
<1>3. Prefix(t)'
  BY <1>1, LogKept DEF Prefix, RunInv, Active
<1>4. InStep(t)'
  BY <1>1 DEF InStep
<1>5. Passed(t)'
  <2>1. \A k \in DOMAIN Body(t) : (k < step[t] /\ Body(t)[k].op = "spawn") =>
          Body(t)[k].key \in Ids /\ ChildOf(Body(t)[k].key, wf[t])
    BY DEF RunInv, Passed
  <2>2. \A c \in Ids : ChildOf(c, wf[t]) => ChildOf(c, wf[t])'
    BY <1>1, LogKept
  <2> QED
    BY <1>1, <2>1, <2>2 DEF Passed, ChildOf
<1>6. Marking(t)'
  BY <1>1 DEF Marking
<1> QED
  BY <1>2, <1>3, <1>4, <1>5, <1>6 DEF RunInv

LEMMA RunStays ==
  ASSUME TypeOK, TypeOK', RowsInv, Grows, Stays, NEW t \in Slots, RunInv(t), Same(t)
  PROVE  RunInv(t)'
<1>1. CASE pc[t] = "idle"
  BY <1>1, RunOver DEF Same, RunInv, Prefix
<1>2. CASE pc[t] # "idle"
  <2>1. Active(t) /\ wf'[t] = wf[t] /\ pc[t] \in PC
    BY <1>2 DEF Active, Same, TypeOK, RunsOK
  <2>2. ASSUME pc[t] = "marking" PROVE Marked(wf[t], Current(t).key)'
    <3>1. Marked(wf[t], Current(t).key)
      BY <2>2 DEF RunInv, Marking
    <3>2. Current(t)' = Current(t)
      BY SameBody DEF Same
    <3>3. \A key : Marked(wf[t], key) => Marked(wf[t], key)'
      BY <2>1, LogKept
    <3> QED
      BY <3>1, <3>2, <3>3 DEF Marked
  <2>3. Moves(t, pc[t])
    BY DEF Moves, Same
  <2> QED
    BY <1>2, <2>1, <2>2, <2>3, RunMoves DEF RunInv, InStep
<1> QED
  BY <1>1, <1>2

\* A step returns; if it spawns, its child exists.
LEMMA RunReturns ==
  ASSUME TypeOK, TypeOK', RowsInv, Grows, Stays, NEW t \in Slots, Active(t), RunInv(t), pc[t] # "load",
         pc'[t] = "step", step'[t] = step[t] + 1, UNCHANGED <<wf, history, code>>,
         Current(t).op = "spawn" => \E c \in Ids : c = Current(t).key /\ ChildOf(c, wf[t])'
  PROVE  RunInv(t)'
<1>1. Body(t)' = Body(t)
  BY DEF Body
<1>2. Exists(t)'
  BY LogKept DEF Exists
<1>3. Prefix(t)'
  BY LogKept DEF Prefix
<1>4. Passed(t)'
  <2> SUFFICES ASSUME NEW k \in DOMAIN Body(t), k < step[t] + 1, Body(t)[k].op = "spawn"
               PROVE  Body(t)[k].key \in Ids /\ ChildOf(Body(t)[k].key, wf[t])'
    BY <1>1 DEF Passed, ChildOf
  <2>1. k \in Nat /\ step[t] \in Nat
    BY BodyTyped DEF TypeOK, RunsOK
  <2>2. CASE k < step[t]
    <3>1. Body(t)[k].key \in Ids /\ ChildOf(Body(t)[k].key, wf[t])
      BY <2>2 DEF RunInv, Passed
    <3>2. \A c \in Ids : ChildOf(c, wf[t]) => ChildOf(c, wf[t])'
      BY LogKept
    <3> QED
      BY <1>1, <3>1, <3>2 DEF ChildOf
  <2>3. CASE k = step[t]
    <3>1. Body(t)[k] = Current(t)
      BY <2>3 DEF Current
    <3> QED
      BY <1>1, <2>3, <3>1 DEF ChildOf, Current
  <2> QED
    BY <2>1, <2>2, <2>3
<1>5. InStep(t)' /\ Marking(t)'
  BY DEF InStep, Marking
<1> QED
  BY <1>2, <1>3, <1>4, <1>5 DEF RunInv

-----------------------------------------------------------------------------
(***************************************************************************)
(* Every action keeps the invariant: the tables take one of the steps      *)
(* above, one run moves, the others stay.                                  *)
(***************************************************************************)
OthersStay(s) == UNCHANGED request /\ \A t \in Slots \ {s} : Same(t)

\* A step of run s.
Advance(s) == TableStep /\ OthersStay(s) /\ RunInv(s)'

LEMMA RequestsStay ==
  ASSUME RequestsInv, Stays, UNCHANGED request
  PROVE  RequestsInv'
BY ConstantsAssumption DEF RequestsInv, Stays

LEMMA AdvanceKeepsInv ==
  ASSUME Inv, TypeOK', NEW s \in Slots, Advance(s)
  PROVE  Inv'
<1>1. TablesInv'
  BY TableStepInv DEF Inv, Advance
<1>2. RequestsInv'
  BY RequestsStay DEF Inv, Advance, TableStep, OthersStay
<1>3. ASSUME NEW t \in Slots PROVE RunInv(t)'
  BY RunStays DEF Inv, TablesInv, Advance, TableStep, OthersStay
<1> QED
  BY <1>1, <1>2, <1>3 DEF Inv

\* How the run helpers move slots.
LEMMA AwaitMoves ==
  ASSUME TypeOK, NEW s \in Slots, NEW to, Await(s, to) \/ AwaitDeadline(s, to)
  PROVE  OthersStay(s) /\ Moves(s, to)
BY DEF Await, AwaitDeadline, OthersStay, Same, Moves, TypeOK, RunsOK

LEMMA ReturnMoves ==
  ASSUME TypeOK, NEW s \in Slots, NEW v, Return(s, v)
  PROVE  /\ OthersStay(s)
         /\ pc'[s] = "step" /\ step'[s] = step[s] + 1 /\ UNCHANGED <<wf, history, code>>
BY DEF Return, OthersStay, Same, TypeOK, RunsOK

LEMMA SuspendMoves ==
  ASSUME TypeOK, NEW s \in Slots, Suspend(s)
  PROVE  OthersStay(s) /\ RunInv(s)'
<1>1. pc'[s] = "idle" /\ step'[s] = 1
  BY DEF Suspend, Over
<1> QED
  BY <1>1, RunOver DEF Suspend, Over, OthersStay, Same

\* The steps that leave the tables as they are, to the invariants, and suspend,
\* await or return.
LEMMA QuietAwait ==
  ASSUME Inv, TypeOK', Quiet, NEW s \in Slots, Active(s), NEW to \in PC \ {"idle", "load"},
         Await(s, to) \/ AwaitDeadline(s, to), pc[s] # "load",
         to \in {"exec", "failed"} => Current(s).op = "activity",
         to \in {"marking", "reload"} => Current(s).op \in {"signal", "join"},
         to \in {"exec", "failed", "marking", "reload"} => step[s] \in DOMAIN Body(s),
         to = "marking" => Marked(wf[s], Current(s).key)'
  PROVE  Advance(s)
<1>1. TableStep
  BY QuietStep DEF Inv
<1>2. OthersStay(s) /\ Moves(s, to)
  BY AwaitMoves DEF Inv
<1>3. RunInv(s)'
  BY <1>1, <1>2, RunMoves DEF Inv, TablesInv, TableStep
<1> QED
  BY <1>1, <1>2, <1>3 DEF Advance

LEMMA QuietReturn ==
  ASSUME Inv, TypeOK', Quiet, NEW s \in Slots, Active(s), NEW v, Return(s, v), pc[s] # "load",
         Current(s).op # "spawn"
  PROVE  Advance(s)
<1>1. TableStep
  BY QuietStep DEF Inv
<1>2. /\ OthersStay(s)
      /\ pc'[s] = "step" /\ step'[s] = step[s] + 1 /\ UNCHANGED <<wf, history, code>>
  BY ReturnMoves DEF Inv
<1>3. RunInv(s)'
  BY <1>1, <1>2, RunReturns DEF Inv, TablesInv, TableStep
<1> QED
  BY <1>1, <1>2, <1>3 DEF Advance

LEMMA Suspends ==
  ASSUME Inv, TableStep, NEW s \in Slots, Suspend(s)
  PROVE  Advance(s)
BY SuspendMoves DEF Inv, Advance

\* A run ends its workflow and tells the parent.
LEMMA RunEnds ==
  ASSUME Inv, NEW s \in Slots, Active(s), pc[s] # "load", Suspend(s),
         complete_workflow(wf[s], parent_info(s)) \/ fail_workflow(wf[s], parent_info(s))
  PROVE  Advance(s)
<1>1. PICK i \in Ids : i = wf[s] /\ Has(i)
  BY DEF Inv, RunInv, Exists, TypeOK, RunsOK, Active
<1>2. parent_info(s) = events[i][1].key
  BY <1>1, ParentInfo
<1>3. TableStep
  <2>1. CASE complete_workflow(wf[s], parent_info(s))
    <3>1. write_terminal_workflow_event(i, "workflow_completed", "completed", parent_info(s), Done)
      BY <1>1, <2>1 DEF complete_workflow
    <3> QED
      BY <1>1, <1>2, <3>1, EndStep DEF Inv, Terminal
  <2>2. CASE fail_workflow(wf[s], parent_info(s))
    <3>1. write_terminal_workflow_event(i, "workflow_failed", "failed", parent_info(s), Failed)
      BY <1>1, <2>2 DEF fail_workflow
    <3> QED
      BY <1>1, <1>2, <3>1, EndStep DEF Inv, Terminal
  <2> QED
    BY <2>1, <2>2
<1> QED
  BY <1>3, Suspends

LEMMA RunHas ==
  ASSUME Inv, NEW s \in Slots, Active(s)
  PROVE  wf[s] \in Ids /\ Has(wf[s]) /\ step[s] \in Nat
BY DEF Inv, RunInv, Exists, TypeOK, RunsOK, Active

LEMMA QuietTables == UNCHANGED tables => Quiet
BY DEF tables, Quiet

LEMMA QuietRunAt ==
  ASSUME NEW i, NEW n, update_workflow_run_at(i, n)
  PROVE  Quiet
BY DEF update_workflow_run_at, Quiet

LEMMA QuietWrite ==
  ASSUME Inv, NEW s \in Slots, Active(s), NEW key \in Keys, NEW val \in Values,
         NEW type \in EventType \ {"child_started", "signal"}, NEW k \in Nat,
         write_event(wf[s], Event(type, k, key, val))
  PROVE  Quiet
<1>1. Event(type, k, key, val) \in EventRecord
  BY EventTyped
<1>2. Silent(Event(type, k, key, val))
  BY DEF Silent, Event
<1> QED
  BY <1>1, <1>2, RunHas DEF Quiet, write_event, rows

LEMMA RunnerWake ==
  ASSUME Inv, TypeOK', NEW s \in Slots, RunnerStep(s)
  PROVE  Advance(s)
<1>1. CASE run_workflow(s)
  <2>1. TableStep
    BY <1>1, QuietTables, QuietStep DEF run_workflow, Inv
  <2>2. OthersStay(s)
    BY <1>1 DEF run_workflow, OthersStay, Same, Inv, TypeOK, RunsOK
  <2>3. Active(s) /\ wf[s] \in Ids /\ Has(wf[s])
    BY <1>1, RunHas DEF run_workflow, Active
  <2>4. /\ pc'[s] \in {"step", "fail"} /\ history'[s] = events[wf[s]]
        /\ UNCHANGED <<wf, step, code, status, events>> /\ step[s] = 1
    BY <1>1 DEF run_workflow, tables, Inv, TypeOK, RunsOK, RunInv, Prefix
  <2>5. Exists(s)' /\ InStep(s)' /\ Marking(s)'
    BY <2>3, <2>4 DEF Exists, InStep, Marking
  <2>6. Prefix(s)'
    <3>1. Len(events[wf[s]]) >= 1 /\ Len(events[wf[s]]) \in Nat
      BY <2>3 DEF Inv, TablesInv, RowsInv, TypeOK, TablesOK
    <3> QED
      BY <2>4, <3>1 DEF Prefix
  <2>7. Passed(s)'
    <3>1. Body(s)' = Body(s) /\ Body(s) \in Seq(StepRecord)
      BY <2>3, <2>4, BodyTyped DEF Body, Inv
    <3>2. \A k \in DOMAIN Body(s) : ~(k < 1)
      BY <3>1
    <3> QED
      BY <2>4, <3>1, <3>2 DEF Passed
  <2> QED
    BY <2>1, <2>2, <2>5, <2>6, <2>7 DEF Advance, RunInv
<1>2. CASE finish(s)
  BY <1>2, RunEnds DEF finish, Active
<1>3. CASE raise(s)
  <2>1. Active(s) /\ pc[s] # "load"
    BY <1>3 DEF raise, At, AtStep, Active
  <2> QED
    BY <1>3, <2>1, QuietTables, QuietAwait DEF raise, PC
<1>4. CASE fail(s)
  BY <1>4, RunEnds DEF fail, Active
<1> QED
  BY <1>1, <1>2, <1>3, <1>4 DEF RunnerStep

LEMMA ActivityWake ==
  ASSUME Inv, TypeOK', NEW s \in Slots, ActivityStep(s)
  PROVE  Advance(s)
<1> TypeOK /\ None \in Keys /\ None \in Values
  BY NoneTyped DEF Inv
<1>0. ASSUME At(s, "activity")
      PROVE  /\ Active(s) /\ pc[s] # "load" /\ Current(s).op = "activity"
             /\ step[s] \in DOMAIN Body(s) /\ Current(s).key \in Keys
  BY <1>0, CurrentTyped DEF At, AtStep, Active, StepRecord
<1>1. CASE replay_activity(s)
  BY <1>0, <1>1, QuietTables, QuietReturn DEF replay_activity
<1>2. CASE DivergenceError(s)
  BY <1>0, <1>2, QuietTables, QuietAwait DEF DivergenceError, NotReplayed, PC
<1>3. CASE schedule(s)
  <2>1. At(s, "activity") /\ Await(s, "exec")
    BY <1>3 DEF schedule, NotReplayed
  <2>2. Quiet
    <3>1. CASE write_event(wf[s], Event("scheduled", step[s], Current(s).key, None))
      BY <1>0, <2>1, <3>1, RunHas, QuietWrite DEF EventType
    <3>2. CASE UNCHANGED tables
      BY <3>2, QuietTables
    <3> QED
      BY <1>3, <3>1, <3>2 DEF schedule
  <2> QED
    BY <1>0, <2>1, <2>2, QuietAwait DEF PC
<1>4. ASSUME NEW r \in Results, complete_activity(s, r) PROVE Advance(s)
  <2>1. Active(s) /\ pc[s] # "load" /\ r \in Values
    BY <1>4 DEF complete_activity, Active, Values
  <2>2. Current(s).op = "activity"
    BY <1>4 DEF complete_activity, Inv, RunInv, InStep
  <2>3. Quiet
    BY <1>4, <2>1, RunHas, QuietWrite DEF complete_activity, EventType
  <2> QED
    BY <1>4, <2>1, <2>2, <2>3, QuietReturn DEF complete_activity
<1>5. CASE fail_activity(s)
  <2>1. Active(s) /\ pc[s] # "load"
    BY <1>5 DEF fail_activity, Active
  <2>2. Current(s).op = "activity" /\ step[s] \in DOMAIN Body(s)
    BY <1>5 DEF fail_activity, Inv, RunInv, InStep
  <2>3. Quiet
    BY <1>5, <2>1, RunHas, QuietWrite DEF fail_activity, EventType
  <2> QED
    BY <1>5, <2>1, <2>2, <2>3, QuietAwait DEF fail_activity, PC
<1>6. CASE retry(s)
  BY <1>6, QuietRunAt, QuietStep, Suspends DEF retry
<1>7. CASE exhaust_retries(s)
  BY <1>7, RunEnds DEF exhaust_retries, Active
<1> QED
  BY <1>1, <1>2, <1>3, <1>4, <1>5, <1>6, <1>7 DEF ActivityStep

LEMMA SleepWake ==
  ASSUME Inv, TypeOK', NEW s \in Slots, SleepStep(s)
  PROVE  Advance(s)
<1> TypeOK /\ None \in Keys /\ None \in Values
  BY NoneTyped DEF Inv
<1>0. ASSUME At(s, "sleep") PROVE Active(s) /\ pc[s] # "load" /\ Current(s).op = "sleep"
  BY <1>0 DEF At, AtStep, Active
<1>1. CASE wake_up(s)
  BY <1>0, <1>1, QuietTables, QuietReturn DEF wake_up
<1>2. CASE re_suspend(s)
  BY <1>2, QuietRunAt, QuietStep, Suspends DEF re_suspend
<1>3. CASE start_sleep(s)
  <2>1. Active(s) /\ pc[s] # "load"
    BY <1>0, <1>3 DEF start_sleep
  <2>2. Quiet
    BY <1>3, <2>1, RunHas, QuietWrite DEF start_sleep, EventType
  <2> QED
    BY <1>3, <2>1, <2>2, QuietAwait DEF start_sleep, PC
<1>4. CASE suspend_sleep(s)
  BY <1>4, QuietRunAt, QuietStep, Suspends DEF suspend_sleep
<1> QED
  BY <1>1, <1>2, <1>3, <1>4 DEF SleepStep

LEMMA ReceivedWake ==
  ASSUME Inv, TypeOK', Quiet, NEW s \in Slots, Active(s), pc[s] # "load",
         Current(s).op \in {"signal", "join"}, NEW v, Received(s, v)
  PROVE  Advance(s)
<1>1. CASE Await(s, "fail")
  BY <1>1, QuietAwait DEF PC
<1>2. CASE Return(s, v)
  BY <1>2, QuietReturn
<1> QED
  BY <1>1, <1>2 DEF Received

\* After write_marker, the marker is in the log.
LEMMA MarkerWritten ==
  ASSUME Inv, NEW s \in Slots, write_marker(s)
  PROVE  Quiet /\ Marked(wf[s], Current(s).key)'
<1>1. /\ Active(s) /\ pc[s] # "load" /\ pc[s] # "idle"
      /\ UNCHANGED <<wf, step, code>>
  BY DEF write_marker, AtWait, AtStep, Active, Await
<1>2. PICK i \in Ids : i = wf[s] /\ Has(i)
  BY <1>1, RunHas
<1>3. PICK key \in Keys : key = Current(s).key
  BY CurrentTyped DEF write_marker, AtWait, StepRecord, Inv
<1>4. Current(s)' = Current(s) /\ wf'[s] = i
  BY <1>1, <1>2, SameBody
<1>5. Quiet /\ Marked(i, key)'
  <2>1. CASE find_waiting_for_signal_event(history[s], key) = {}
    <3> DEFINE e == Event("signal", 0, key, Waiting)
    <3>1. e \in EventRecord /\ Silent(e) /\ IsMarker(e, key)
      BY EventTyped, NoneTyped DEF EventType, Silent, Event, IsMarker
    <3>2. write_event(i, e)
      BY <1>2, <1>3, <2>1 DEF write_marker
    <3> HIDE DEF e
    <3>3. events' = Appended(i, e) /\ UNCHANGED status
      BY <3>2 DEF write_event, rows
    <3>4. events'[i] = Append(events[i], e)
      BY <3>3 DEF Appended, Inv, TypeOK, TablesOK
    <3>5. Quiet
      BY <1>2, <3>1, <3>3 DEF Quiet
    <3>6. Marked(i, key)'
      BY <3>1, <3>4, AppendedSignal DEF Inv
    <3> QED
      BY <3>5, <3>6
  <2>2. CASE find_waiting_for_signal_event(history[s], key) # {}
    <3>1. PICK n \in 1..Len(history[s]) : IsMarker(history[s][n], key)
      BY <2>2 DEF find_waiting_for_signal_event
    <3>2. /\ Len(history[s]) \in Nat /\ Len(events[i]) \in Nat
          /\ Len(history[s]) <= Len(events[i]) /\ history[s][n] = events[i][n]
      BY <1>1, <1>2 DEF Inv, RunInv, Prefix, TypeOK, TablesOK, RunsOK
    <3>3. Marked(i, key)
      BY <3>1, <3>2 DEF Marked
    <3>4. UNCHANGED tables
      BY <1>3, <2>2 DEF write_marker
    <3> QED
      BY <3>3, <3>4, QuietTables DEF tables, Marked
  <2> QED
    BY <2>1, <2>2
<1> QED
  BY <1>2, <1>3, <1>4, <1>5 DEF Marked

\* What a run waits for can arrive: it is a signal, or the end of its own child.
LEMMA WaitsForChild ==
  ASSUME Inv, NEW s \in Slots, Active(s), Current(s).op \in {"signal", "join"}, step[s] \in DOMAIN Body(s)
  PROVE  /\ Current(s).key \in SignalTypes \cup Ids
         /\ Current(s).key \in Ids => ChildOf(Current(s).key, wf[s])
<1> DEFINE v == code[WorkerOf[s]]
           i == wf[s]
           k == step[s]
<1>1. v \in Versions /\ i \in Ids /\ k \in DOMAIN Program[v][i] /\ Program[v][i] \in Seq(StepRecord)
      /\ Current(s) = Program[v][i][k]
  BY BodyTyped DEF Body, Current, Inv
<1>2. CASE Current(s).op = "signal"
  <2>1. Current(s).key \in SignalTypes
    BY <1>1, <1>2, WaitAssumption
  <2> QED
    BY <2>1, DistinctAssumption
<1>3. CASE Current(s).op = "join"
  <2>1. PICK m \in 1..(k - 1) : Program[v][i][m].op = "spawn" /\ Program[v][i][m].key = Current(s).key
    BY <1>1, <1>3, WaitAssumption
  <2>2. m \in DOMAIN Program[v][i] /\ m < k
    BY <1>1, <2>1
  <2> QED
    BY <2>1, <2>2 DEF Inv, RunInv, Passed, Body
<1> QED
  BY <1>2, <1>3

LEMMA WaitWake ==
  ASSUME Inv, TypeOK', NEW s \in Slots, WaitStep(s)
  PROVE  Advance(s)
<1> TypeOK
  BY DEF Inv
<1>0. ASSUME AtWait(s)
      PROVE  /\ Active(s) /\ pc[s] # "load" /\ Current(s).op \in {"signal", "join"}
             /\ step[s] \in DOMAIN Body(s)
  BY <1>0, CurrentTyped DEF AtWait, AtStep, Active
<1>00. ASSUME pc[s] \in {"marking", "reload"}
       PROVE  /\ Active(s) /\ pc[s] # "load" /\ Current(s).op \in {"signal", "join"}
              /\ step[s] \in DOMAIN Body(s)
  BY <1>00 DEF Inv, RunInv, InStep, Active
<1>1. CASE replay_wait(s)
  BY <1>0, <1>1, QuietTables, ReceivedWake DEF replay_wait
<1>2. CASE write_marker(s)
  <2>1. AtWait(s) /\ Await(s, "marking")
    BY <1>2 DEF write_marker
  <2> QED
    BY <1>0, <1>2, <2>1, MarkerWritten, QuietAwait DEF PC
<1>3. CASE mark_waiting(s)
  <2>1. PICK i \in Ids : i = wf[s] /\ Has(i)
    BY <1>00, <1>3, RunHas DEF mark_waiting
  <2>2. PICK key \in SignalTypes \cup Ids : key = Current(s).key /\ (key \in Ids => ChildOf(key, i))
    BY <1>00, <1>3, <2>1, WaitsForChild DEF mark_waiting
  <2>3. mark_workflow_waiting(i, key) /\ Marked(i, key)
    BY <1>3, <2>1, <2>2 DEF mark_waiting, Inv, RunInv, Marking
  <2>4. TableStep
    BY <2>1, <2>2, <2>3, WaitingStep
  <2> QED
    BY <1>3, <2>4, Suspends DEF mark_waiting
<1>4. CASE already_received(s)
  BY <1>00, <1>4, QuietTables, QuietAwait DEF already_received, PC
<1>5. CASE reload(s)
  BY <1>00, <1>5, QuietTables, ReceivedWake DEF reload
<1> QED
  BY <1>1, <1>2, <1>3, <1>4, <1>5 DEF WaitStep

LEMMA SpawnWake ==
  ASSUME Inv, TypeOK', NEW s \in Slots, SpawnStep(s)
  PROVE  Advance(s)
<1> TypeOK /\ TablesInv /\ RunInv(s) /\ RowsInv
  BY DEF Inv, TablesInv
<1>0. ASSUME At(s, "spawn")
      PROVE  /\ Active(s) /\ pc[s] # "load" /\ pc[s] # "idle" /\ Current(s).op = "spawn"
             /\ wf[s] \in Ids /\ Has(wf[s]) /\ Current(s).key \in Ids
  BY <1>0, RunHas, SpawnKey DEF At, AtStep, Active
<1>1. CASE replay_spawn(s)
  <2>1. PICK n \in find_child_started_event(history[s], step[s]) : Return(s, history[s][n].val)
    BY <1>1 DEF replay_spawn
  <2>2. At(s, "spawn") /\ UNCHANGED tables
    BY <1>1 DEF replay_spawn
  <2>3. PICK p \in Ids : p = wf[s]
    BY <1>0, <2>2
  <2>4. /\ n \in 1..Len(history[s]) /\ history[s][n].step = step[s]
        /\ history[s][n].type = "child_started"
    BY <2>1 DEF find_child_started_event, find_event
  <2>5. n \in 1..Len(events[p]) /\ history[s][n] = events[p][n]
    <3>1. Len(history[s]) \in Nat /\ Len(events[p]) \in Nat
      BY DEF TypeOK, TablesOK, RunsOK
    <3>2. Len(history[s]) <= Len(events[p]) /\ history[s][n] = events[p][n]
      BY <1>0, <2>2, <2>3, <2>4 DEF RunInv, Prefix
    <3> QED
      BY <2>4, <3>1, <3>2
  <2>6. PICK c \in Ids : c = events[p][n].key /\ ChildOf(c, p)
    BY <2>4, <2>5 DEF TablesInv, SitesInv
  <2>7. \E v \in Versions : /\ step[s] \in DOMAIN Program[v][p]
                            /\ Program[v][p][step[s]].op = "spawn"
                            /\ Program[v][p][step[s]].key = c
    BY <2>4, <2>5, <2>6 DEF TablesInv, SitesInv
  <2>8. /\ code[WorkerOf[s]] \in Versions /\ step[s] \in DOMAIN Program[code[WorkerOf[s]]][p]
        /\ Program[code[WorkerOf[s]]][p][step[s]] = Current(s)
    BY <2>2, <2>3, CurrentTyped, BodyTyped DEF At, Body, Current
  <2>9. c = Current(s).key
    <3>1. PICK v \in Versions : /\ step[s] \in DOMAIN Program[v][p]
                                /\ Program[v][p][step[s]].op = "spawn"
                                /\ Program[v][p][step[s]].key = c
      BY <2>7
    <3>2. Program[code[WorkerOf[s]]][p][step[s]].op = "spawn"
      BY <1>0, <2>2, <2>8
    <3>3. Program[v][p][step[s]].key = Program[code[WorkerOf[s]]][p][step[s]].key
      BY <2>8, <3>1, <3>2, SameSite
    <3> QED
      BY <2>8, <3>1, <3>3
  <2>10. ChildOf(c, wf[s])'
    <3>1. UNCHANGED <<status, events, wf>>
      BY <2>1, <2>2 DEF tables, Return
    <3> QED
      BY <2>3, <2>6, <3>1 DEF ChildOf
  <2>11. TableStep
    BY <2>2, QuietTables, QuietStep
  <2>12. /\ OthersStay(s)
         /\ pc'[s] = "step" /\ step'[s] = step[s] + 1 /\ UNCHANGED <<wf, history, code>>
    BY <2>1, ReturnMoves
  <2>13. RunInv(s)'
    BY <1>0, <2>2, <2>9, <2>10, <2>11, <2>12, RunReturns DEF TableStep
  <2> QED
    BY <2>11, <2>12, <2>13 DEF Advance
<1>2. CASE spawn_child(s)
  <2>1. At(s, "spawn") /\ create_child_workflow(wf[s], Current(s).key, step[s]) /\ Return(s, Current(s).key)
    BY <1>2 DEF spawn_child
  <2>2. PICK c \in Ids, p \in Ids : c = Current(s).key /\ p = wf[s]
    BY <1>0, <2>1
  <2>3. TableStep /\ ChildOf(c, p)'
    BY <1>0, <2>1, <2>2, SpawningStep
  <2>4. /\ OthersStay(s)
        /\ pc'[s] = "step" /\ step'[s] = step[s] + 1 /\ UNCHANGED <<wf, history, code>>
    BY <2>1, ReturnMoves
  <2>5. ChildOf(c, wf[s])'
    BY <2>2, <2>3, <2>4 DEF ChildOf
  <2>6. RunInv(s)'
    BY <1>0, <2>1, <2>2, <2>3, <2>4, <2>5, RunReturns DEF TableStep
  <2> QED
    BY <2>3, <2>4, <2>6 DEF Advance
<1> QED
  BY <1>1, <1>2 DEF SpawnStep

LEMMA RunWake ==
  ASSUME Inv, TypeOK', NEW s \in Slots, RunStep(s)
  PROVE  Advance(s)
BY RunnerWake, ActivityWake, SleepWake, WaitWake, SpawnWake DEF RunStep

\* Steps of nobody's run.
LEMMA TablesOnly ==
  ASSUME Inv, TypeOK', TableStep, \A t \in Slots : Same(t), RequestsInv'
  PROVE  Inv'
<1>1. TablesInv'
  BY TableStepInv DEF Inv
<1>2. \A t \in Slots : RunInv(t)'
  BY RunStays DEF Inv, TablesInv, TableStep
<1> QED
  BY <1>1, <1>2 DEF Inv

LEMMA ClientWake ==
  ASSUME Inv, TypeOK',
         \/ \E i \in Ids : start_workflow(i)
         \/ \E q \in Requests : send_signal(q) \/ write_signal(q)
  PROVE  Inv'
<1> TypeOK /\ TablesInv /\ RowsInv
  BY DEF Inv, TablesInv
<1>1. ASSUME NEW i \in Ids, start_workflow(i) PROVE Inv'
  <2>1. TableStep
    BY <1>1, StartStep DEF start_workflow
  <2>2. \A t \in Slots : Same(t)
    BY <1>1 DEF start_workflow, others, Same
  <2>3. RequestsInv'
    BY <1>1, <2>1, RequestsStay DEF start_workflow, Inv, TableStep
  <2> QED
    BY <2>1, <2>2, <2>3, TablesOnly
<1>2. ASSUME NEW q \in Requests, send_signal(q) PROVE Inv'
  <2>1. TableStep
    BY <1>2, QuietTables, QuietStep DEF send_signal
  <2>2. \A t \in Slots : Same(t)
    BY <1>2 DEF send_signal, others, Same
  <2>3. RequestsInv'
    <3> SUFFICES ASSUME NEW r \in Requests, request'[r] = "checked" PROVE Has(SignalTo[r])'
      BY DEF RequestsInv
    <3>1. UNCHANGED status
      BY <1>2 DEF send_signal, tables
    <3>2. CASE r = q
      BY <1>2, <3>1, <3>2 DEF send_signal, Live, TypeOK
    <3>3. CASE r # q
      BY <1>2, <3>1, <3>3 DEF send_signal, TypeOK, Inv, RequestsInv
    <3> QED
      BY <3>2, <3>3
  <2> QED
    BY <2>1, <2>2, <2>3, TablesOnly
<1>3. ASSUME NEW q \in Requests, write_signal(q) PROVE Inv'
  <2>1. SignalTo[q] \in Ids /\ SignalType[q] \in SignalTypes /\ Has(SignalTo[q])
    BY <1>3, ConstantsAssumption DEF write_signal, Inv, RequestsInv
  <2>2. TableStep
    BY <1>3, <2>1, SignalStep DEF write_signal
  <2>3. \A t \in Slots : Same(t)
    BY <1>3 DEF write_signal, others, Same
  <2>4. RequestsInv'
    <3> SUFFICES ASSUME NEW r \in Requests, request'[r] = "checked" PROVE Has(SignalTo[r])'
      BY DEF RequestsInv
    <3>1. request[r] = "checked"
      BY <1>3 DEF write_signal, TypeOK
    <3> QED
      BY <2>2, <3>1, ConstantsAssumption DEF Inv, RequestsInv, TableStep, Stays
  <2> QED
    BY <2>2, <2>3, <2>4, TablesOnly
<1> QED
  BY <1>1, <1>2, <1>3

LEMMA ClaimWake ==
  ASSUME Inv, TypeOK', NEW s \in Slots, NEW i \in Ids, claim(s, i)
  PROVE  Inv'
<1>1. UNCHANGED <<status, events, history, step, code, request>> /\ status[i] = "running"
  BY DEF claim, claim_next_workflow
<1>2. TableStep
  BY <1>1, QuietStep DEF Quiet, Inv
<1>3. OthersStay(s)
  BY DEF claim, OthersStay, Same, Inv, TypeOK, RunsOK
<1>4. RunInv(s)'
  <2>1. pc'[s] = "load" /\ wf'[s] = i /\ step'[s] = 1
    BY DEF claim, Inv, RunInv, Prefix, TypeOK, RunsOK
  <2>2. Body(s)' \in Seq(StepRecord)
    <3>1. Active(s)'
      BY <2>1 DEF Active
    <3> QED
      BY <2>1, <1>1, ConstantsAssumption DEF Body, Inv, TypeOK
  <2>3. \A k \in DOMAIN Body(s)' : ~(k < 1)
    BY <2>2
  <2>4. Passed(s)'
    BY <2>1, <2>3 DEF Passed
  <2> QED
    BY <1>1, <2>1, <2>4 DEF RunInv, Exists, Prefix, InStep, Marking
<1> QED
  BY <1>2, <1>3, <1>4, AdvanceKeepsInv DEF Advance

\* The lease, the deadlines and the code of idle slots are not in the invariant.
LEMMA IndifferentWake ==
  ASSUME Inv, TypeOK', UNCHANGED <<status, events, pc, wf, history, step, code, request>>
  PROVE  Inv'
<1>1. TableStep
  BY QuietStep DEF Quiet, Inv
<1>2. \A t \in Slots : Same(t)
  BY DEF Same
<1>3. RequestsInv'
  BY <1>1, RequestsStay DEF Inv, TableStep
<1> QED
  BY <1>1, <1>2, <1>3, TablesOnly

\* Slots that lose their runs, and others that go on.
LEMMA OverWake ==
  ASSUME Inv, TypeOK', UNCHANGED <<tables, request>>, NEW S, Over(S),
         \A t \in Slots \ S : code'[WorkerOf[t]] = code[WorkerOf[t]]
  PROVE  Inv'
<1>1. TableStep
  BY QuietTables, QuietStep DEF Inv
<1>2. TablesInv' /\ RequestsInv'
  BY <1>1, TableStepInv, RequestsStay DEF Inv, TableStep
<1>3. ASSUME NEW t \in Slots PROVE RunInv(t)'
  <2>1. CASE t \in S
    BY <2>1, RunOver DEF Over
  <2>2. CASE t \notin S
    BY <1>1, <2>2, RunStays DEF Over, Same, Inv, TablesInv, TableStep
  <2> QED
    BY <2>1, <2>2
<1> QED
  BY <1>2, <1>3 DEF Inv

LEMMA FaultWake ==
  ASSUME Inv, TypeOK', FaultStep
  PROVE  Inv'
<1> TypeOK
  BY DEF Inv
<1>1. ASSUME NEW i \in Ids, stall(i) PROVE Inv'
  BY <1>1, IndifferentWake DEF stall, LetLapse, run
<1>2. ASSUME NEW w \in Workers, NEW v \in Versions, restart(w, v) PROVE Inv'
  BY <1>2, OverWake, ConstantsAssumption DEF restart, TypeOK
<1>3. ASSUME NEW s \in Slots, database_error(s) PROVE Inv'
  <2>1. CASE InRunner(s)
    BY <1>3, <2>1, OverWake DEF database_error
  <2>2. CASE ~InRunner(s)
    <3>1. Active(s) /\ pc[s] # "load"
      BY <1>3, <2>2 DEF database_error, InRunner
    <3>2. TableStep
      BY <1>3, QuietTables, QuietStep DEF database_error
    <3>3. OthersStay(s) /\ Moves(s, "fail")
      BY <1>3, <2>2 DEF database_error, OthersStay, Same, Moves, TypeOK, RunsOK
    <3>4. RunInv(s)'
      BY <3>1, <3>2, <3>3, RunMoves DEF Inv, TablesInv, TableStep, PC
    <3> QED
      BY <3>2, <3>3, <3>4, AdvanceKeepsInv DEF Advance
  <2> QED
    BY <2>1, <2>2
<1>4. ASSUME NEW s \in Slots, activity_cancelled(s) PROVE Inv'
  BY <1>4, OverWake DEF activity_cancelled
<1>5. ASSUME NEW s \in Slots, NEW r \in Results, notify_error(s, r) PROVE Inv'
  <2>1. Active(s) /\ pc[s] # "load" /\ r \in Values /\ None \in Keys
    BY <1>5, NoneTyped DEF notify_error, Active, Values
  <2>2. TableStep
    BY <1>5, <2>1, RunHas, QuietWrite, QuietStep DEF notify_error, EventType
  <2>3. OthersStay(s) /\ Moves(s, "fail")
    BY <1>5 DEF notify_error, OthersStay, Same, Moves, TypeOK, RunsOK
  <2>4. RunInv(s)'
    BY <2>1, <2>2, <2>3, RunMoves DEF Inv, TablesInv, TableStep, PC
  <2> QED
    BY <2>2, <2>3, <2>4, AdvanceKeepsInv DEF Advance
<1> QED
  BY <1>1, <1>2, <1>3, <1>4, <1>5 DEF FaultStep

LEMMA ClockWake ==
  ASSUME Inv, TypeOK', NEW i \in Ids, ClockStep(i)
  PROVE  Inv'
<1>1. UNCHANGED <<status, events, pc, wf, history, step, code, request>>
  BY DEF ClockStep, lapse, LetLapse, Elapse, tables, run
<1> QED
  BY <1>1, IndifferentWake

LEMMA InitWake == Init => Inv
<1> SUFFICES ASSUME Init PROVE Inv
  OBVIOUS
<1>1. TypeOK
  BY InitTyped
<1>2. \A i \in Ids : status[i] = "absent" /\ events[i] = <<>>
  BY DEF Init, TablesInit
<1>3. \A s \in Slots : pc[s] = "idle" /\ step[s] = 1
  BY DEF Init
<1>4. RowsInv /\ OriginInv /\ ToldInv /\ WakeInv
  BY <1>2 DEF RowsInv, OriginInv, ToldInv, WakeInv, ChildOf
<1>5. SitesInv
  <2>1. \A i \in Ids : Len(events[i]) = 0
    BY <1>2
  <2> QED
    BY <2>1 DEF SitesInv
<1>6. RequestsInv
  BY DEF Init, RequestsInv
<1>7. \A s \in Slots : RunInv(s)
  BY <1>3 DEF RunInv, Exists, Prefix, InStep, Passed, Marking, Active
<1> QED
  BY <1>1, <1>4, <1>5, <1>6, <1>7 DEF Inv, TablesInv

LEMMA NextWake == Inv /\ [Next]_vars => Inv'
<1> SUFFICES ASSUME Inv, [Next]_vars PROVE Inv'
  OBVIOUS
<1>1. TypeOK'
  BY NextTyped DEF Inv
<1>2. CASE UNCHANGED vars
  BY <1>1, <1>2, IndifferentWake DEF vars
<1>3. CASE Next
  <2>1. ASSUME NEW s \in Slots, heartbeat(s) PROVE Inv'
    BY <1>1, <2>1, IndifferentWake DEF heartbeat, extend_workflow_lock, others
  <2>2. ASSUME NEW s \in Slots, RunStep(s) PROVE Inv'
    BY <1>1, <2>2, RunWake, AdvanceKeepsInv
  <2> QED
    BY <1>1, <1>3, <2>1, <2>2, ClientWake, ClaimWake, ClockWake, FaultWake DEF Next
<1> QED
  BY <1>2, <1>3

\* The inductive invariant holds of the engine.
THEOREM Invariant == Spec => []Inv
BY InitWake, NextWake, PTL DEF Spec

\* No wake-up is lost, whatever crashes, fails, stalls or is deployed: a waiting
\* workflow waits for a signal or a child's end that has not come and still can.
THEOREM NoLostWakeup == Spec => []WaitingIsWakeable
<1>1. Inv => WaitingIsWakeable
  BY ToldAndWakeSuffice
<1> QED
  BY <1>1, Invariant, PTL

\* However a child ends, its outcome is in its parent's log by then.
THEOREM ParentIsTold == Spec => []ParentTold
<1>1. Inv => ParentTold
  BY ToldAndWakeSuffice
<1> QED
  BY <1>1, Invariant, PTL

-----------------------------------------------------------------------------
(***************************************************************************)
(* The engine changes the tables by queries, one a step, and asks only     *)
(* what Transactions lets a transaction begin with: arguments as           *)
(* AtomicQueries has them, about rows that exist, and for a parent only    *)
(* the parent the row was created with.                                    *)
(***************************************************************************)
Atomic == INSTANCE AtomicQueries WITH Existing <- {}, Load <- {}

\* Callers know the rows they name from committed ones.
Askable(q) ==
  /\ Atomic!WellFormed(q)
  /\ Has(q.id)
  /\ (q.name \in {"complete_workflow", "fail_workflow"} /\ q.kin # None) => Has(q.kin) /\ ChildOf(q.id, q.kin)

\* One query takes effect, a client's new workflow is inserted, or time passes.
TableMove ==
  \/ \E q \in Atomic!Query : Askable(q) /\ Atomic!Takes(q) /\ UNCHANGED elapsed
  \/ \E i \in Roots : ~Has(i) /\ create_workflow(i) /\ UNCHANGED elapsed
  \/ \E i \in Ids : Atomic!Lapses(i)
  \/ \E i \in Ids, n \in Nat : elapsed' = [elapsed EXCEPT ![i] = @ \cup {n}] /\ UNCHANGED tables

Ask(name, i, kin, key, e, n, s) ==
  [name |-> name, id |-> i, kin |-> kin, key |-> key, event |-> e, n |-> n, slot |-> s]

LEMMA SameTypes == Atomic!Keys = Keys /\ Atomic!EventRecord = EventRecord
BY DEF Atomic!Keys, Atomic!EventRecord, Keys, EventRecord, Values, EventType, Atomic!Values, Atomic!EventType

LEMMA WriteAsked ==
  ASSUME NEW i \in Ids, Has(i), NEW e \in EventRecord, write_event(i, e), UNCHANGED elapsed
  PROVE  TableMove
<1>1. PICK q \in Atomic!Query : q.name = "write_event" /\ q.id = i /\ q.kin = None /\ q.event = e
  <2>1. PICK q : q = Ask("write_event", i, None, None, e, 0, None)
    OBVIOUS
  <2> QED
    BY <2>1, SameTypes, NoneTyped DEF Ask, Atomic!Query, Atomic!QueryNames
<1>2. Askable(q)
  BY <1>1, SameTypes, DistinctAssumption DEF Askable, Atomic!WellFormed
<1>3. Atomic!Takes(q)
  BY <1>1 DEF Atomic!Takes, Atomic!write_event, write_event, Atomic!Appended, Appended, Atomic!rows, rows
<1> QED
  BY <1>2, <1>3 DEF TableMove

\* A query about one row that inserts nothing.
LEMMA RowAsked ==
  ASSUME NEW i \in Ids, Has(i), UNCHANGED elapsed,
         \/ \E s \in Slots : claim_next_workflow(i, s)
         \/ \E key \in Keys : mark_workflow_waiting(i, key)
         \/ \E n \in Nat : update_workflow_run_at(i, n)
         \/ extend_workflow_lock(i)
  PROVE  TableMove
<1>1. ASSUME NEW q \in Atomic!Query, q.id = i, q.kin = None,
             q.name \in {"claim_next_workflow", "mark_workflow_waiting", "update_workflow_run_at", "extend_workflow_lock"}
      PROVE  Askable(q)
  BY <1>1, DistinctAssumption DEF Askable, Atomic!WellFormed
<1>2. ASSUME NEW s \in Slots, claim_next_workflow(i, s) PROVE TableMove
  <2>1. PICK q \in Atomic!Query : q.name = "claim_next_workflow" /\ q.id = i /\ q.kin = None /\ q.slot = s
    <3>1. PICK q : q = Ask("claim_next_workflow", i, None, None, None, 0, s)
      OBVIOUS
    <3> QED
      BY <3>1, SameTypes, NoneTyped DEF Ask, Atomic!Query, Atomic!QueryNames
  <2>2. Atomic!Takes(q)
    BY <1>2, <2>1 DEF Atomic!Takes, Atomic!claim_next_workflow, claim_next_workflow, Atomic!RunAtReached, RunAtReached,
       Atomic!LeaseFree, LeaseFree
  <2> QED
    BY <1>1, <2>1, <2>2 DEF TableMove
<1>3. ASSUME NEW key \in Keys, mark_workflow_waiting(i, key) PROVE TableMove
  <2>1. PICK q \in Atomic!Query : q.name = "mark_workflow_waiting" /\ q.id = i /\ q.kin = None /\ q.key = key
    <3>1. PICK q : q = Ask("mark_workflow_waiting", i, None, key, None, 0, None)
      OBVIOUS
    <3> QED
      BY <3>1, SameTypes, NoneTyped DEF Ask, Atomic!Query, Atomic!QueryNames
  <2>2. Atomic!Takes(q)
    BY <1>3, <2>1 DEF Atomic!Takes, Atomic!mark_workflow_waiting, mark_workflow_waiting, Atomic!SignalReceived,
       SignalReceived, Atomic!IsReceived, IsReceived, Atomic!Unlock, Unlock
  <2> QED
    BY <1>1, <2>1, <2>2 DEF TableMove
<1>4. ASSUME NEW n \in Nat, update_workflow_run_at(i, n) PROVE TableMove
  <2>1. PICK q \in Atomic!Query : q.name = "update_workflow_run_at" /\ q.id = i /\ q.kin = None /\ q.n = n
    <3>1. PICK q : q = Ask("update_workflow_run_at", i, None, None, None, n, None)
      OBVIOUS
    <3> QED
      BY <3>1, SameTypes, NoneTyped DEF Ask, Atomic!Query, Atomic!QueryNames
  <2>2. Atomic!Takes(q)
    BY <1>4, <2>1 DEF Atomic!Takes, Atomic!update_workflow_run_at, update_workflow_run_at, Atomic!Unlock, Unlock
  <2> QED
    BY <1>1, <2>1, <2>2 DEF TableMove
<1>5. ASSUME extend_workflow_lock(i) PROVE TableMove
  <2>1. PICK q \in Atomic!Query : q.name = "extend_workflow_lock" /\ q.id = i /\ q.kin = None
    <3>1. PICK q : q = Ask("extend_workflow_lock", i, None, None, None, 0, None)
      OBVIOUS
    <3> QED
      BY <3>1, SameTypes, NoneTyped DEF Ask, Atomic!Query, Atomic!QueryNames
  <2>2. Atomic!Takes(q)
    BY <1>5, <2>1 DEF Atomic!Takes, Atomic!extend_workflow_lock, extend_workflow_lock
  <2> QED
    BY <1>1, <2>1, <2>2 DEF TableMove
<1> QED
  BY <1>2, <1>3, <1>4, <1>5

LEMMA WakeAsked ==
  ASSUME NEW i \in Ids, Has(i), NEW type \in SignalTypes, NEW v \in Requests,
         write_signal_and_wake_workflow(i, type, v), UNCHANGED elapsed
  PROVE  TableMove
<1> DEFINE e == Event("signal", 0, type, v)
<1>1. e \in EventRecord /\ e.key = type /\ e.val = v /\ e = Event("signal", 0, e.key, e.val)
  BY EventTyped DEF EventType, Keys, Values, Event
<1>2. PICK q \in Atomic!Query : q.name = "write_signal_and_wake_workflow" /\ q.id = i /\ q.kin = None /\ q.event = e
  <2>1. PICK q : q = Ask("write_signal_and_wake_workflow", i, None, None, e, 0, None)
    OBVIOUS
  <2> QED
    BY <1>1, <2>1, SameTypes, NoneTyped DEF Ask, Atomic!Query, Atomic!QueryNames
<1>3. q.event \in Atomic!EventRecord /\ q.event = Atomic!Event("signal", 0, q.event.key, q.event.val)
  BY <1>1, <1>2, SameTypes DEF Event, Atomic!Event
<1>4. Askable(q)
  BY <1>2, <1>3, DistinctAssumption DEF Askable, Atomic!WellFormed
<1> HIDE DEF e
<1>5. Atomic!write_signal_and_wake_workflow(q.id, q.event.key, q.event.val)
  BY <1>1, <1>2 DEF Atomic!write_signal_and_wake_workflow, write_signal_and_wake_workflow,
     Atomic!Appended, Appended, Atomic!Event, Event
<1>6. Atomic!Takes(q)
  BY <1>2, <1>5 DEF Atomic!Takes
<1> QED
  BY <1>4, <1>6 DEF TableMove

LEMMA SpawnAsked ==
  ASSUME NEW i \in Ids, Has(i), NEW c \in Ids, c # i, NEW k \in Nat, create_child_workflow(i, c, k), UNCHANGED elapsed
  PROVE  TableMove
<1>1. PICK q \in Atomic!Query : q.name = "create_child_workflow" /\ q.id = i /\ q.kin = c /\ q.n = k
  <2>1. PICK q : q = Ask("create_child_workflow", i, c, None, None, k, None)
    OBVIOUS
  <2> QED
    BY <2>1, SameTypes, NoneTyped DEF Ask, Atomic!Query, Atomic!QueryNames
<1>2. Askable(q)
  BY <1>1 DEF Askable, Atomic!WellFormed
<1>3. Atomic!create_child_workflow(i, c, k)
  BY DEF Atomic!create_child_workflow, create_child_workflow, Atomic!tables, tables, Atomic!Event, Event
<1>4. Atomic!Takes(q)
  BY <1>1, <1>3 DEF Atomic!Takes
<1> QED
  BY <1>2, <1>4 DEF TableMove

LEMMA EndAsked ==
  ASSUME TablesInv, NEW i \in Ids, Has(i), NEW p, p = events[i][1].key,
         complete_workflow(i, p) \/ fail_workflow(i, p), UNCHANGED elapsed
  PROVE  TableMove
<1>1. p \in Ids \cup {None} /\ p # i /\ (p # None => Has(p) /\ ChildOf(i, p))
  BY ParentOf DEF ChildOf
<1>2. ASSUME NEW q \in Atomic!Query, q.id = i, q.kin = p, q.name \in {"complete_workflow", "fail_workflow"}
      PROVE  Askable(q)
  BY <1>1, <1>2 DEF Askable, Atomic!WellFormed
<1>3. CASE complete_workflow(i, p)
  <2>1. PICK q \in Atomic!Query : q.name = "complete_workflow" /\ q.id = i /\ q.kin = p
    <3>1. PICK q : q = Ask("complete_workflow", i, p, None, None, 0, None)
      OBVIOUS
    <3> QED
      BY <1>1, <3>1, SameTypes, NoneTyped DEF Ask, Atomic!Query, Atomic!QueryNames
  <2>2. Atomic!complete_workflow(i, p)
    BY <1>3 DEF Atomic!complete_workflow, complete_workflow, Atomic!write_terminal_workflow_event,
       write_terminal_workflow_event, Atomic!Event, Event, Atomic!Unlock, Unlock
  <2>3. Atomic!Takes(q)
    BY <2>1, <2>2 DEF Atomic!Takes
  <2> QED
    BY <1>2, <2>1, <2>3 DEF TableMove
<1>4. CASE fail_workflow(i, p)
  <2>1. PICK q \in Atomic!Query : q.name = "fail_workflow" /\ q.id = i /\ q.kin = p
    <3>1. PICK q : q = Ask("fail_workflow", i, p, None, None, 0, None)
      OBVIOUS
    <3> QED
      BY <1>1, <3>1, SameTypes, NoneTyped DEF Ask, Atomic!Query, Atomic!QueryNames
  <2>2. Atomic!fail_workflow(i, p)
    BY <1>4 DEF Atomic!fail_workflow, fail_workflow, Atomic!write_terminal_workflow_event,
       write_terminal_workflow_event, Atomic!Event, Event, Atomic!Unlock, Unlock
  <2>3. Atomic!Takes(q)
    BY <2>1, <2>2 DEF Atomic!Takes
  <2> QED
    BY <1>2, <2>1, <2>3 DEF TableMove
<1> QED
  BY <1>3, <1>4

\* A run completes its workflow or gives it up.
Ending(s) == finish(s) \/ fail(s) \/ exhaust_retries(s)

LEMMA RunAsks ==
  ASSUME Inv, NEW s \in Slots, RunStep(s)
  PROVE  TableMove \/ UNCHANGED <<tables, elapsed>>
<1> TypeOK /\ TablesInv
  BY DEF Inv
<1>1. Active(s) => wf[s] \in Ids /\ Has(wf[s]) /\ step[s] \in Nat /\ wake[s] \in Nat
  BY RunHas DEF TypeOK, RunsOK
<1>2. AtStep(s) => Active(s) /\ Current(s).key \in Keys
  BY CurrentTyped DEF StepRecord
<1>3. ASSUME Active(s), NEW type \in EventType, NEW k \in Nat, NEW key \in Keys, NEW val \in Values,
             write_event(wf[s], Event(type, k, key, val)), UNCHANGED elapsed
      PROVE  TableMove
  BY <1>1, <1>3, EventTyped, WriteAsked
<1>4. ASSUME Active(s), NEW n \in Nat, update_workflow_run_at(wf[s], n), UNCHANGED elapsed PROVE TableMove
  BY <1>1, <1>4, RowAsked
<1>5. ASSUME Ending(s) PROVE TableMove
  <2>1. Active(s) /\ pc[s] # "load" /\ UNCHANGED elapsed
    BY <1>5 DEF Ending, finish, fail, exhaust_retries, Active, Suspend
  <2>2. parent_info(s) = events[wf[s]][1].key
    BY <2>1, ParentInfo
  <2>3. complete_workflow(wf[s], parent_info(s)) \/ fail_workflow(wf[s], parent_info(s))
    BY <1>5 DEF Ending, finish, fail, exhaust_retries
  <2> QED
    BY <1>1, <2>1, <2>2, <2>3, EndAsked
<1>6. CASE RunnerStep(s)
  BY <1>5, <1>6 DEF RunnerStep, Ending, run_workflow, raise, Await
<1>7. CASE ActivityStep(s)
  <2>1. CASE schedule(s)
    BY <1>1, <1>2, <1>3, <2>1, NoneTyped DEF schedule, NotReplayed, At, EventType, Await
  <2>2. ASSUME NEW r \in Results, complete_activity(s, r) PROVE TableMove
    BY <1>1, <1>3, <2>2, NoneTyped DEF complete_activity, Active, EventType, Values, Return
  <2>3. CASE fail_activity(s)
    BY <1>1, <1>3, <2>3, NoneTyped DEF fail_activity, Active, EventType, AwaitDeadline
  <2>4. CASE retry(s)
    BY <1>1, <1>4, <2>4 DEF retry, Active, Suspend
  <2> QED
    BY <1>5, <1>7, <2>1, <2>2, <2>3, <2>4 DEF ActivityStep, Ending, replay_activity, DivergenceError, Return, Await
<1>8. CASE SleepStep(s)
  <2>1. CASE re_suspend(s)
    <3>1. PICK n \in find_event(history[s], step[s], "sleep") : update_workflow_run_at(wf[s], n)
      BY <2>1 DEF re_suspend
    <3>2. n \in Nat
      BY <3>1 DEF find_event
    <3> QED
      BY <1>2, <1>4, <2>1, <3>1, <3>2 DEF re_suspend, At, Suspend
  <2>2. CASE start_sleep(s)
    BY <1>1, <1>2, <1>3, <2>2, NoneTyped DEF start_sleep, At, EventType, AwaitDeadline
  <2>3. CASE suspend_sleep(s)
    BY <1>1, <1>4, <2>3 DEF suspend_sleep, Active, Suspend
  <2> QED
    BY <1>8, <2>1, <2>2, <2>3 DEF SleepStep, wake_up, Return
<1>9. CASE WaitStep(s)
  <2>1. CASE write_marker(s)
    BY <1>1, <1>2, <1>3, <2>1, NoneTyped DEF write_marker, AtWait, EventType, Await
  <2>2. CASE mark_waiting(s)
    <3>1. Active(s) /\ pc[s] = "marking" /\ UNCHANGED elapsed
      BY <2>2 DEF mark_waiting, Active, Suspend
    <3>2. Current(s).key \in Keys
      <4>1. step[s] \in DOMAIN Body(s)
        BY <3>1 DEF Inv, RunInv, InStep
      <4>2. Current(s) \in StepRecord
        BY <3>1, <4>1, BodyTyped DEF Current
      <4> QED
        BY <4>2 DEF StepRecord
    <3> QED
      BY <1>1, <2>2, <3>1, <3>2, RowAsked DEF mark_waiting
  <2> QED
    BY <1>9, <2>1, <2>2 DEF WaitStep, replay_wait, already_received, reload, Received, Await, Return
<1>10. CASE SpawnStep(s)
  <2>1. CASE spawn_child(s)
    <3>1. Active(s) /\ Current(s).key \in Ids /\ Current(s).key # wf[s] /\ UNCHANGED elapsed
      BY <1>2, <2>1, SpawnKey DEF spawn_child, At, Return
    <3> QED
      BY <1>1, <2>1, <3>1, SpawnAsked DEF spawn_child
  <2> QED
    BY <1>10, <2>1 DEF SpawnStep, replay_spawn, Return
<1> QED
  BY <1>6, <1>7, <1>8, <1>9, <1>10 DEF RunStep

LEMMA NextAsks ==
  ASSUME Inv, [Next]_vars
  PROVE  TableMove \/ UNCHANGED <<tables, elapsed>>
<1> TypeOK
  BY DEF Inv
<1>1. CASE UNCHANGED vars
  BY <1>1 DEF vars, tables
<1>2. ASSUME NEW i \in Ids, start_workflow(i) PROVE TableMove
  BY <1>2 DEF start_workflow, others, TableMove
<1>3. ASSUME NEW q \in Requests, write_signal(q) PROVE TableMove
  <2>1. SignalTo[q] \in Ids /\ SignalType[q] \in SignalTypes /\ Has(SignalTo[q])
    BY <1>3, ConstantsAssumption DEF write_signal, Inv, RequestsInv
  <2> QED
    BY <1>3, <2>1, WakeAsked DEF write_signal, others
<1>4. ASSUME NEW i \in Ids, LetLapse(i) PROVE TableMove
  BY <1>4 DEF LetLapse, TableMove, Atomic!Lapses
<1>5. ASSUME NEW i \in Ids, NEW n \in 1..Len(events[i]), Elapse(i, n) PROVE TableMove
  <2>1. Len(events[i]) \in Nat
    BY DEF TypeOK, TablesOK
  <2>2. n \in Nat
    BY <2>1
  <2> QED
    BY <1>5, <2>2 DEF Elapse, TableMove
<1>6. ASSUME NEW s \in Slots, heartbeat(s) PROVE TableMove
  BY <1>6, RunHas, RowAsked DEF heartbeat, others
<1>7. ASSUME NEW s \in Slots, NEW i \in Ids, claim(s, i) PROVE TableMove
  BY <1>7, RowAsked DEF claim, claim_next_workflow
<1>8. ASSUME NEW s \in Slots, NEW r \in Results, notify_error(s, r) PROVE TableMove
  <2>1. wf[s] \in Ids /\ Has(wf[s]) /\ step[s] \in Nat
    BY <1>8, RunHas DEF notify_error, Active
  <2>2. Event("completed", step[s], None, r) \in EventRecord
    BY <2>1, EventTyped, NoneTyped DEF EventType, Values
  <2> QED
    BY <1>8, <2>1, <2>2, WriteAsked DEF notify_error
<1>9. ASSUME FaultStep PROVE TableMove \/ UNCHANGED <<tables, elapsed>>
  BY <1>4, <1>8, <1>9 DEF FaultStep, stall, restart, database_error, activity_cancelled
<1>10. ASSUME NEW q \in Requests, send_signal(q) PROVE UNCHANGED <<tables, elapsed>>
  BY <1>10 DEF send_signal, others
<1>11. ASSUME NEW i \in Ids, ClockStep(i) PROVE TableMove
  BY <1>4, <1>5, <1>11 DEF ClockStep, lapse
<1> QED
  BY <1>1, <1>2, <1>3, <1>6, <1>7, <1>9, <1>10, <1>11, RunAsks DEF Next

\* What Transactions and AtomicQueries assume of callers, the engine keeps: whatever
\* its runs, clients and faults do, the tables change only by one query at a time, about
\* rows that exist and with the row's own parent, or by the passing of time.
THEOREM TablesMoveByQueries == Spec => [][TableMove]_<<tables, elapsed>>
<1>1. Inv /\ [Next]_vars => [TableMove]_<<tables, elapsed>>
  BY NextAsks
<1> QED
  BY <1>1, Invariant, PTL DEF Spec
=============================================================================
