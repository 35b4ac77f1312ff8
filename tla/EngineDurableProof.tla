------------------------- MODULE EngineDurableProof -------------------------
(***************************************************************************)
(* The engine implements Durable, for every value of the constants with    *)
(* which no run loses its lock, no database call fails and every worker    *)
(* registers every workflow and runs the same code: whatever crashes and   *)
(* restarts, each step of a workflow is decided once, in order.            *)
(***************************************************************************)
EXTENDS EngineDurable, EngineReplay

\* What the theorem asks of an instance: heartbeats in time, a database that answers,
\* and one code, which deployments do not change and every worker has.
Reliable ==
  /\ MaxFaults["stall"] = 0 /\ MaxFaults["error"] = 0
  /\ Versions # {}
  /\ \A v, w \in Versions : Program[v] = Program[w]
  /\ \A v \in Versions : Registry[v] = Ids

-----------------------------------------------------------------------------
(***************************************************************************)
(* The inductive invariant.                                                *)
(***************************************************************************)
Out(i, k) == Outcome(i, OnlyBody[i][k], k)
Decided(i, k) == Out(i, k) \notin {{}, {Failed}}

\* The steps before step k were decided and did not fail.
Before(i, k) == \A m \in 1..(k - 1) : Decided(i, m)

\* Only a child's end says that something failed.
Payloads ==
  \A i \in Ids : \A n \in 1..Len(events[i]) : events[i][n].val = Failed =>
    events[i][n].type = "signal" /\ events[i][n].key \in Ids

\* Only deadlines of events in the log have passed.
ElapsedPast == \A i \in Ids : elapsed[i] \subseteq 1..Len(events[i])

\* A sleep begins at its step, when all steps before it are decided, and a workflow
\* does not end during a sleep.
SleepsInOrder ==
  \A i \in Ids : \A n \in 1..Len(events[i]) : events[i][n].type = "sleep" =>
    /\ \E k \in DOMAIN OnlyBody[i] : k = events[i][n].step /\ OnlyBody[i][k].op = "sleep" /\ Before(i, k)
    /\ n \in elapsed[i] \/ status[i] \in Live

\* The call scheduled is that of the code.
CallsKept ==
  \A i \in Ids : \A n \in 1..Len(events[i]) : events[i][n].type = "scheduled" =>
    events[i][n].key = OnlyBody[i][events[i][n].step].key

\* A run does not go on after a child that failed.
NotFailed(s) == \A k \in 1..Len(values[s]) : values[s][k] # Failed

\* A run fails its workflow where the code raises, or a child has failed.
Failing(s) ==
  pc[s] = "fail" =>
    /\ step[s] \in DOMAIN Body(s)
    /\ \/ Current(s).op = "raise"
       \/ Current(s).op = "join" /\ Outcome(wf[s], Current(s), step[s]) = {Failed}

DurableInv ==
  /\ ReplayInv
  /\ Payloads /\ ElapsedPast /\ SleepsInOrder /\ CallsKept
  /\ \A s \in Slots : NotFailed(s) /\ Failing(s)

-----------------------------------------------------------------------------
(***************************************************************************)
(* The one program, and the outcomes of its steps.                         *)
(***************************************************************************)
LEMMA OneProgram ==
  ASSUME Reliable, TypeOK
  PROVE  /\ OnlyBody \in [Ids -> Seq(StepRecord)]
         /\ \A v \in Versions : Program[v] = OnlyBody
         /\ \A s \in Slots : Active(s) => Body(s) = OnlyBody[wf[s]] /\ wf[s] \in Registry[code[WorkerOf[s]]]
<1>1. (CHOOSE v \in Versions : TRUE) \in Versions
  BY DEF Reliable
<1>2. \A v \in Versions : Program[v] = OnlyBody
  BY <1>1 DEF Reliable, OnlyBody
<1>3. OnlyBody \in [Ids -> Seq(StepRecord)]
  BY <1>1, <1>2, ConstantsAssumption
<1>4. ASSUME NEW s \in Slots, Active(s) PROVE Body(s) = OnlyBody[wf[s]] /\ wf[s] \in Registry[code[WorkerOf[s]]]
  <2>1. code[WorkerOf[s]] \in Versions /\ wf[s] \in Ids
    BY <1>4, ConstantsAssumption DEF TypeOK, RunsOK, Active
  <2> QED
    BY <1>2, <2>1 DEF Body, Reliable
<1> QED
  BY <1>2, <1>3, <1>4

LEMMA StepAt ==
  ASSUME Reliable, TypeOK, NEW i \in Ids, NEW k \in DOMAIN OnlyBody[i]
  PROVE  /\ OnlyBody[i][k] \in StepRecord /\ k \in Nat \ {0} /\ k <= Len(OnlyBody[i])
         /\ \A m \in Nat \ {0} : m <= k => m \in DOMAIN OnlyBody[i]
         /\ Len(OnlyBody[i]) \in Nat /\ DOMAIN OnlyBody[i] = 1..Len(OnlyBody[i])
<1>1. OnlyBody[i] \in Seq(StepRecord)
  BY OneProgram
<1>2. Len(OnlyBody[i]) \in Nat /\ DOMAIN OnlyBody[i] = 1..Len(OnlyBody[i])
  BY <1>1
<1>3. k \in 1..Len(OnlyBody[i])
  BY <1>2
<1>4. OnlyBody[i][k] \in StepRecord
  BY <1>1, <1>3
<1> QED
  BY <1>2, <1>3, <1>4

\* What the assumptions say of a step that waits or spawns.
LEMMA StepKeys ==
  ASSUME Reliable, TypeOK, NEW i \in Ids, NEW k \in DOMAIN OnlyBody[i]
  PROVE  /\ OnlyBody[i][k].op = "signal" => OnlyBody[i][k].key \in SignalTypes
         /\ OnlyBody[i][k].op = "spawn" => OnlyBody[i][k].key \in Ids \ Roots /\ OnlyBody[i][k].key # i
         /\ OnlyBody[i][k].op = "join" => \E m \in DOMAIN OnlyBody[i] :
              OnlyBody[i][m].op = "spawn" /\ OnlyBody[i][m].key = OnlyBody[i][k].key
<1>1. PICK v \in Versions : Program[v] = OnlyBody
  BY OneProgram DEF Reliable
<1>2. OnlyBody[i][k].op = "signal" => OnlyBody[i][k].key \in SignalTypes
  BY <1>1, WaitAssumption
<1>3. OnlyBody[i][k].op = "spawn" => OnlyBody[i][k].key \in Ids \ Roots /\ OnlyBody[i][k].key # i
  BY <1>1, ChildIdAssumption
<1>4. ASSUME OnlyBody[i][k].op = "join"
      PROVE  \E m \in DOMAIN OnlyBody[i] : OnlyBody[i][m].op = "spawn" /\ OnlyBody[i][m].key = OnlyBody[i][k].key
  <2>1. PICK m \in 1..(k - 1) : OnlyBody[i][m].op = "spawn" /\ OnlyBody[i][m].key = OnlyBody[i][k].key
    BY <1>1, <1>4, WaitAssumption
  <2>2. m \in DOMAIN OnlyBody[i]
    BY <2>1, StepAt
  <2> QED
    BY <2>1, <2>2
<1> QED
  BY <1>2, <1>3, <1>4

\* An outcome other than that of a join is not a failure, and a decided one is one value.
LEMMA OutcomeShape ==
  ASSUME Reliable, TypeOK, Payloads, NEW i \in Ids, NEW k \in DOMAIN OnlyBody[i]
  PROVE  /\ OnlyBody[i][k].op # "join" => Failed \notin Out(i, k)
         /\ \A v \in Out(i, k) : Out(i, k) = {v}
         /\ (Out(i, k) # {} /\ Failed \notin Out(i, k)) <=> Decided(i, k)
<1> DEFINE c == OnlyBody[i][k]
<1>1. ASSUME c.op # "join" PROVE Failed \notin Out(i, k)
  <2>1. \A n, key : n \in find_signal_event(events[i], key) =>
          n \in 1..Len(events[i]) /\ events[i][n].type = "signal" /\ events[i][n].key = key
    BY DEF find_signal_event, IsReceived
  <2>2. \A n, type : n \in find_event(events[i], k, type) => n \in 1..Len(events[i]) /\ events[i][n].type = type
    BY DEF find_event
  <2>3. CASE c.op = "activity"
    BY <2>2, <2>3 DEF Out, Outcome, find_completed_event, Payloads
  <2>4. CASE c.op = "signal"
    <3>1. c.key \notin Ids
      BY <2>4, StepKeys, DistinctAssumption
    <3> QED
      BY <2>1, <2>4, <3>1 DEF Out, Outcome, Payloads
  <2>5. CASE c.op = "spawn"
    BY <2>2, <2>5 DEF Out, Outcome, find_child_started_event, Payloads
  <2>6. CASE c.op = "sleep"
    BY <2>6, FailedAssumption DEF Out, Outcome
  <2>7. CASE c.op \notin {"activity", "signal", "join", "spawn", "sleep"}
    BY <2>7 DEF Out, Outcome
  <2> QED
    BY <1>1, <2>3, <2>4, <2>5, <2>6, <2>7
<1>2. ASSUME NEW v \in Out(i, k) PROVE Out(i, k) = {v}
  <2>1. \A u \in Out(i, k) : u = v
    BY <1>2, OneOutcome DEF Out
  <2> QED
    BY <2>1
<1>3. (Out(i, k) # {} /\ Failed \notin Out(i, k)) <=> Decided(i, k)
  BY <1>2 DEF Decided
<1> QED
  BY <1>1, <1>2, <1>3

\* What is decided remains so.
LEMMA DecidedStays ==
  ASSUME TypeOK, TypeOK', Grows, Unforgotten, NEW i \in Ids, NEW k
  PROVE  /\ Out(i, k) # {} => Out(i, k)' = Out(i, k)
         /\ Decided(i, k) => Decided(i, k)'
         /\ Before(i, k) => Before(i, k)'
<1>1. ASSUME NEW m PROVE Out(i, m) # {} => Out(i, m)' = Out(i, m)
  BY OutcomeStays DEF Out
<1>2. \A m : Decided(i, m) => Decided(i, m)'
  BY <1>1 DEF Decided
<1> QED
  BY <1>1, <1>2 DEF Before

\* All steps a run is past are decided.
LEMMA BeforeRun ==
  ASSUME Reliable, DurableInv, NEW s \in Slots, Active(s)
  PROVE  wf[s] \in Ids /\ step[s] \in Nat \ {0} /\ Before(wf[s], step[s]) /\ status[wf[s]] = "running"
<1> ReplayInv /\ Inv /\ TypeOK /\ SpawnInv /\ Payloads
  BY DEF DurableInv, ReplayInv, BackedInv, Inv
<1>1. PICK i \in Ids, k \in Nat \ {0} : i = wf[s] /\ k = step[s]
  BY RunHas DEF TypeOK, RunsOK
<1>2. PICK b \in Seq(StepRecord) : b = Body(s) /\ b = OnlyBody[i]
  BY <1>1, OneProgram
<1>3. ASSUME NEW m \in 1..(k - 1) PROVE Decided(i, m)
  <2>1. /\ m \in DOMAIN b /\ m \in 1..Len(values[s])
        /\ IF b[m].op = "spawn" THEN values[s][m] = b[m].key ELSE values[s][m] \in Outcome(i, b[m], m)
    BY <1>1, <1>2 DEF ReplayInv, RunLog, Valued
  <2>2. CASE b[m].op = "spawn"
    <3>1. ChildOf(b[m].key, i)
      <4>1. Passed(s) /\ m < step[s]
        BY <1>1 DEF Inv, RunInv
      <4>2. (m < step[s] /\ Body(s)[m].op = "spawn") => ChildOf(Body(s)[m].key, wf[s])
        BY <1>2, <2>1, <4>1 DEF Passed
      <4> QED
        BY <1>1, <1>2, <2>2, <4>1, <4>2
    <3>2. PICK v \in Versions : Program[v] = OnlyBody
      BY OneProgram DEF Reliable
    <3>3. Outcome(i, Program[v][i][m], m) = {Program[v][i][m].key}
      BY <1>2, <2>1, <2>2, <3>1, <3>2, SpawnOutcome
    <3>4. Out(i, m) # {} /\ Failed \notin Out(i, m)
      BY <1>2, <2>1, <2>2, <3>2, <3>3, OutcomeShape DEF Out
    <3> QED
      BY <1>2, <2>1, <3>4, OutcomeShape
  <2>3. CASE b[m].op # "spawn"
    <3>1. values[s][m] \in Out(i, m) /\ values[s][m] # Failed
      BY <1>2, <2>1, <2>3 DEF Out, DurableInv, NotFailed
    <3>2. Out(i, m) = {values[s][m]}
      BY <1>2, <2>1, <3>1, OutcomeShape
    <3> QED
      BY <3>1, <3>2 DEF Decided
  <2> QED
    BY <2>2, <2>3
<1>4. status[i] = "running"
  BY <1>1 DEF ReplayInv, Running
<1> QED
  BY <1>1, <1>3, <1>4 DEF Before

-----------------------------------------------------------------------------
(***************************************************************************)
(* The steps that write events.                                            *)
(***************************************************************************)
\* What a run writes of its own, and where in the log.
Wrote(s, i, e) == events'[i] = Append(events[i], e) /\ \A j \in Ids \ {i} : events'[j] = events[j]

OwnEvent(s, k, e) ==
  /\ e.type # "signal" => e.step = k
  /\ \/ schedule(s) /\ e.type = "scheduled" /\ e.key = Current(s).key /\ e.val = None
     \/ fail_activity(s) /\ e.type = "failed" /\ e.val = None
     \/ start_sleep(s) /\ e.type = "sleep" /\ e.val = None
     \/ write_marker(s) /\ e.type = "signal" /\ e.val = Waiting
     \/ \E r \in Results : (complete_activity(s, r) \/ notify_error(s, r)) /\ e.type = "completed" /\ e.val = r

LEMMA WritesWhat ==
  ASSUME Inv, NEW s \in Slots, Writes(s)
  PROVE  \E i \in Ids, k \in Nat \ {0} :
           /\ i = wf[s] /\ k = step[s]
           /\ \/ UNCHANGED events
              \/ \E e \in EventRecord : Wrote(s, i, e) /\ OwnEvent(s, k, e)
<1> TypeOK
  BY DEF Inv
<1>1. PICK i \in Ids, k \in Nat \ {0} : i = wf[s] /\ k = step[s]
  BY WritesOne DEF TypeOK, RunsOK
<1>2. ASSUME NEW type \in EventType, NEW m \in Nat, NEW key \in Keys, NEW val \in Values, write_event(i, Event(type, m, key, val))
      PROVE  \E e \in EventRecord : Wrote(s, i, e) /\ e.type = type /\ e.step = m /\ e.key = key /\ e.val = val
  <2> DEFINE e == Event(type, m, key, val)
  <2>1. e \in EventRecord /\ e.type = type /\ e.step = m /\ e.key = key /\ e.val = val
    BY EventTyped DEF Event
  <2>2. Wrote(s, i, e)
    BY <1>2 DEF write_event, Appended, TypeOK, TablesOK, Wrote
  <2> QED
    BY <2>1, <2>2
<1> SUFFICES ASSUME ~ UNCHANGED events
             PROVE  \E e \in EventRecord : Wrote(s, i, e) /\ OwnEvent(s, k, e)
  BY <1>1
<1>3. ~ UNCHANGED tables
  BY DEF tables
<1>4. CASE schedule(s)
  <2>1. PICK key \in Keys : key = Current(s).key
    BY <1>4, CurrentTyped DEF schedule, NotReplayed, At, StepRecord
  <2>2. write_event(i, Event("scheduled", k, key, None))
    BY <1>1, <1>3, <1>4, <2>1 DEF schedule
  <2>3. \E e \in EventRecord : Wrote(s, i, e) /\ e.type = "scheduled" /\ e.step = k /\ e.key = key /\ e.val = None
    BY <1>2, <2>2, NoneTyped DEF EventType
  <2> QED
    BY <1>4, <2>1, <2>3 DEF OwnEvent
<1>5. CASE fail_activity(s)
  <2>1. write_event(i, Event("failed", k, None, None))
    BY <1>1, <1>5 DEF fail_activity
  <2>2. \E e \in EventRecord : Wrote(s, i, e) /\ e.type = "failed" /\ e.step = k /\ e.val = None
    BY <1>2, <2>1, NoneTyped DEF EventType
  <2> QED
    BY <1>5, <2>2 DEF OwnEvent
<1>6. CASE start_sleep(s)
  <2>1. write_event(i, Event("sleep", k, None, None))
    BY <1>1, <1>6 DEF start_sleep
  <2>2. \E e \in EventRecord : Wrote(s, i, e) /\ e.type = "sleep" /\ e.step = k /\ e.val = None
    BY <1>2, <2>1, NoneTyped DEF EventType
  <2> QED
    BY <1>6, <2>2 DEF OwnEvent
<1>7. CASE write_marker(s)
  <2>1. PICK key \in Keys : key = Current(s).key
    BY <1>7, CurrentTyped DEF write_marker, AtWait, StepRecord
  <2>2. write_event(i, Event("signal", 0, key, Waiting))
    BY <1>1, <1>3, <1>7, <2>1 DEF write_marker
  <2>3. \E e \in EventRecord : Wrote(s, i, e) /\ e.type = "signal" /\ e.val = Waiting
    BY <1>2, <2>2, NoneTyped DEF EventType
  <2> QED
    BY <1>7, <2>3 DEF OwnEvent
<1>8. ASSUME NEW r \in Results, complete_activity(s, r) \/ notify_error(s, r)
      PROVE  \E e \in EventRecord : Wrote(s, i, e) /\ e.type = "completed" /\ e.step = k /\ e.val = r
  <2>1. write_event(i, Event("completed", k, None, r))
    BY <1>1, <1>8 DEF complete_activity, notify_error
  <2> QED
    BY <1>2, <2>1, NoneTyped DEF EventType, Values
<1> QED
  BY <1>4, <1>5, <1>6, <1>7, <1>8 DEF Writes, OwnEvent

\* The events a step adds, whoever takes it.
LEMMA NewEvents ==
  ASSUME Inv, [Next]_vars, NEW i \in Ids, NEW n \in 1..Len(events'[i]), n > Len(events[i])
  PROVE  LET e == events'[i][n] IN
         /\ e.val = Failed => e.type = "signal" /\ e.key \in Ids
         /\ e.type = "sleep" => \E s \in Slots : start_sleep(s) /\ wf[s] = i /\ e.step = step[s]
         /\ e.type = "scheduled" => \E s \in Slots : schedule(s) /\ wf[s] = i /\ e.step = step[s] /\ e.key = Current(s).key
<1> TypeOK
  BY DEF Inv
<1> DEFINE e == events'[i][n]
<1>1. Failed # None /\ Failed # Waiting /\ Failed \notin Ids \cup Results \cup Requests
  BY FailedAssumption, DistinctAssumption
<1>2. events'[i] # events[i]
  BY DEF TypeOK, TablesOK
<1>3. ASSUME NEW f \in EventRecord, events'[i] = Append(events[i], f) PROVE e = f
  BY <1>3, NewEvent
<1> DEFINE Good(f) == /\ f.val = Failed => f.type = "signal" /\ f.key \in Ids
                      /\ f.type # "sleep" /\ f.type # "scheduled"
<1> HIDE DEF e
<1>4. ASSUME NEW j \in Ids, start_workflow(j) PROVE Good(e)
  <2> DEFINE f == Event("started", 0, None, None)
  <2>1. f \in EventRecord /\ Good(f)
    BY <1>1, EventTyped, NoneTyped DEF EventType, Event
  <2>2. events'[i] = Append(events[i], f)
    BY <1>2, <1>4 DEF start_workflow, create_workflow, Appended, TypeOK, TablesOK
  <2> HIDE DEF f, Good
  <2> QED
    BY <1>3, <2>1, <2>2
<1>5. ASSUME NEW q \in Requests, write_signal(q) PROVE Good(e)
  <2> DEFINE f == Event("signal", 0, SignalType[q], q)
  <2>1. f \in EventRecord /\ Good(f)
    BY <1>1, EventTyped, ConstantsAssumption DEF EventType, Event, Keys, Values
  <2>2. events'[i] = Append(events[i], f)
    BY <1>2, <1>5 DEF write_signal, write_signal_and_wake_workflow, Appended, TypeOK, TablesOK
  <2> HIDE DEF f, Good
  <2> QED
    BY <1>3, <2>1, <2>2
<1>6. ASSUME NEW s \in Slots, spawn_child(s) PROVE Good(e)
  <2>1. PICK c \in Ids, p \in Ids, k \in Nat : c = Current(s).key /\ p = wf[s] /\ k = step[s]
    BY <1>6, CurrentTyped, SpawnKey DEF spawn_child, At, TypeOK, RunsOK
  <2> DEFINE f == Event("started", 0, p, None)
             g == Event("child_started", k, c, c)
  <2>2. f \in EventRecord /\ Good(f) /\ g \in EventRecord /\ Good(g)
    BY <1>1, EventTyped, NoneTyped DEF EventType, Event, Keys, Values
  <2>3. events'[i] = Append(events[i], f) \/ events'[i] = Append(events[i], g)
    BY <1>2, <1>6, <2>1 DEF spawn_child, create_child_workflow, tables
  <2> HIDE DEF f, g, Good
  <2> QED
    BY <1>3, <2>2, <2>3
<1>7. ASSUME NEW s \in Slots, mark_waiting(s) PROVE FALSE
  BY <1>2, <1>7 DEF mark_waiting, mark_workflow_waiting
<1>8. ASSUME NEW s \in Slots, EndsRun(s) PROVE Good(e)
  <2>1. wf[s] \in Ids
    BY <1>8, RunHas DEF EndsRun, finish, fail, exhaust_retries, Active
  <2>2. PICK type \in {"workflow_completed", "workflow_failed"}, final \in Terminal, v \in {Done, Failed}, p \in {parent_info(s)} :
          write_terminal_workflow_event(wf[s], type, final, p, v)
    BY <1>8 DEF EndsRun, finish, fail, exhaust_retries, complete_workflow, fail_workflow, Terminal
  <2> DEFINE f == Event(type, 0, None, None)
             g == Event("signal", 0, wf[s], v)
  <2>3. f \in EventRecord /\ Good(f) /\ g \in EventRecord /\ Good(g)
    BY <1>1, <2>1, EventTyped, NoneTyped DEF EventType, Event, Keys
  <2>4. events'[i] = Append(events[i], f) \/ events'[i] = Append(events[i], g)
    BY <1>2, <2>2 DEF write_terminal_workflow_event
  <2> HIDE DEF f, g, Good
  <2> QED
    BY <1>3, <2>3, <2>4
<1>9. ASSUME NEW s \in Slots, Writes(s)
      PROVE  /\ e.val = Failed => FALSE
             /\ e.type = "sleep" => start_sleep(s) /\ wf[s] = i /\ e.step = step[s]
             /\ e.type = "scheduled" => schedule(s) /\ wf[s] = i /\ e.step = step[s] /\ e.key = Current(s).key
  <2>1. PICK j \in Ids, k \in Nat \ {0} :
           /\ j = wf[s] /\ k = step[s]
           /\ \/ UNCHANGED events
              \/ \E f \in EventRecord : Wrote(s, j, f) /\ OwnEvent(s, k, f)
    BY <1>9, WritesWhat
  <2>2. PICK f \in EventRecord : Wrote(s, j, f) /\ OwnEvent(s, k, f)
    BY <1>2, <2>1
  <2>3. i = j /\ e = f
    BY <1>2, <1>3, <2>2 DEF Wrote
  <2>4. f.val # Failed
    BY <1>1, <2>2 DEF OwnEvent
  <2> QED
    BY <2>1, <2>2, <2>3, <2>4 DEF OwnEvent
<1>10. CASE UNCHANGED <<status, events>>
  BY <1>2, <1>10
<1> HIDE DEF Good
<1>11. Good(e) \/ (e.val # Failed /\ \E s \in Slots : 
             /\ e.type = "sleep" => start_sleep(s) /\ wf[s] = i /\ e.step = step[s]
             /\ e.type = "scheduled" => schedule(s) /\ wf[s] = i /\ e.step = step[s] /\ e.key = Current(s).key)
  BY <1>4, <1>5, <1>6, <1>7, <1>8, <1>9, <1>10, StepKind DEF TableKind
<1> QED
  BY <1>11 DEF Good, e

-----------------------------------------------------------------------------
(***************************************************************************)
(* How a run goes on: it is not past a child that failed, and it fails     *)
(* where the code says so.                                                 *)
(***************************************************************************)
\* The run goes on, is over, or returns from a step that did not fail.
GoesOn(s) ==
  /\ pc'[s] # "fail"
  /\ \/ values'[s] = values[s] \/ values'[s] = <<>>
     \/ \E v \in Values : v # Failed /\ values'[s] = Append(values[s], v)

\* The run has come to a step that fails.
Stops(s) ==
  /\ pc'[s] = "fail" /\ UNCHANGED <<wf, step, values, code, events, elapsed>>
  /\ Active(s) /\ step[s] \in DOMAIN Body(s)
  /\ \/ Current(s).op = "raise"
     \/ Current(s).op = "join" /\ Outcome(wf[s], Current(s), step[s]) = {Failed}

\* The value of an event other than the end of a child is not a failure.
LEMMA NoFailure ==
  ASSUME Inv, Payloads, NEW s \in Slots, Active(s), pc[s] # "load", NEW k, NEW type \in EventType \ {"signal"},
         NEW n \in find_event(history[s], k, type)
  PROVE  history[s][n].val \in Values /\ history[s][n].val # Failed
<1>1. PICK i \in Ids : i = wf[s]
  BY RunHas
<1>2. history[s] \in Seq(EventRecord) /\ events[i] \in Seq(EventRecord)
  BY DEF Inv, TypeOK, TablesOK, RunsOK
<1>3. n \in 1..Len(history[s]) /\ history[s][n].type = type /\ history[s][n].val \in Values
  BY <1>2, FoundAt DEF find_event
<1>4. Continues(events[i], history[s])
  BY <1>1, LogContinues
<1>5. n \in 1..Len(events[i]) /\ events[i][n] = history[s][n]
  BY <1>3, <1>4 DEF Continues
<1> QED
  BY <1>3, <1>5 DEF Payloads

\* The call a run has in its history for a step is that of the code.
LEMMA NoDivergence ==
  ASSUME Reliable, DurableInv, NEW s \in Slots
  PROVE  ~DivergenceError(s)
<1> SUFFICES ASSUME DivergenceError(s) PROVE FALSE
  OBVIOUS
<1> Inv /\ TypeOK
  BY DEF DurableInv, ReplayInv, BackedInv, Inv
<1>1. AtStep(s) /\ pc[s] # "load"
  BY DEF DivergenceError, NotReplayed, At, AtStep
<1>2. PICK n \in find_event(history[s], step[s], "scheduled") : history[s][n].key # Current(s).key
  BY DEF DivergenceError, Diverges, find_scheduled_event
<1>3. PICK i \in Ids, k \in Nat : i = wf[s] /\ k = step[s] /\ Active(s) /\ Body(s) = OnlyBody[i]
  BY <1>1, CurrentTyped, OneProgram, RunHas
<1>4. Current(s) = OnlyBody[i][k]
  BY <1>3 DEF Current
<1>5. Continues(events[i], history[s])
  BY <1>1, <1>3, LogContinues
<1>6. n \in 1..Len(history[s]) /\ history[s][n].type = "scheduled" /\ history[s][n].step = k
  BY <1>2, <1>3 DEF find_event
<1>7. n \in 1..Len(events[i]) /\ events[i][n] = history[s][n]
  BY <1>5, <1>6 DEF Continues
<1>8. events[i][n].key = OnlyBody[i][k].key
  BY <1>6, <1>7 DEF DurableInv, CallsKept
<1> QED
  BY <1>2, <1>4, <1>7, <1>8

\* A wait that is over, in the history or in the log.
LEMMA WaitEnds ==
  ASSUME Reliable, DurableInv, NEW s \in Slots, Active(s), step[s] \in DOMAIN Body(s), UNCHANGED tables,
         Current(s).op \in {"signal", "join"}, NEW n \in find_signal_event(events[wf[s]], Current(s).key),
         Received(s, events[wf[s]][n].val)
  PROVE  GoesOn(s) \/ Stops(s)
<1> Inv /\ TypeOK /\ Payloads
  BY DEF DurableInv, ReplayInv, BackedInv, Inv
<1>1. PICK i \in Ids, k \in Nat : i = wf[s] /\ k = step[s] /\ Body(s) = OnlyBody[i]
  BY OneProgram, RunHas
<1>2. PICK v \in Values : v = events[i][n].val
  BY <1>1, FoundAt DEF TypeOK, TablesOK
<1>3. k \in DOMAIN OnlyBody[i] /\ Current(s) = OnlyBody[i][k]
  BY <1>1 DEF Current
<1>4. v \in Out(i, k)
  BY <1>1, <1>2, <1>3 DEF Out, Outcome
<1>5. CASE Current(s).op = "join" /\ v = Failed
  <2>1. Await(s, "fail")
    BY <1>1, <1>2, <1>5 DEF Received
  <2>2. Outcome(wf[s], Current(s), step[s]) = {Failed}
    <3>1. Out(i, k) = {v}
      BY <1>3, <1>4, OutcomeShape
    <3> QED
      BY <1>1, <1>3, <1>5, <3>1 DEF Out
  <2> QED
    BY <1>5, <2>1, <2>2 DEF Stops, Await, tables, TypeOK, RunsOK
<1>6. CASE ~(Current(s).op = "join" /\ v = Failed)
  <2>1. Return(s, v)
    BY <1>1, <1>2, <1>6 DEF Received
  <2>2. v # Failed
    BY <1>3, <1>4, <1>6, OutcomeShape
  <2> QED
    BY <2>1, <2>2 DEF GoesOn, Return, TypeOK, RunsOK
<1> QED
  BY <1>5, <1>6

LEMMA RunDurable ==
  ASSUME Reliable, DurableInv, NEW s \in Slots, RunStep(s)
  PROVE  GoesOn(s) \/ Stops(s)
<1> Inv /\ TypeOK /\ Payloads
  BY DEF DurableInv, ReplayInv, BackedInv, Inv
<1>1. ASSUME NEW to \in PC \ {"fail"}, Await(s, to) \/ AwaitDeadline(s, to) PROVE GoesOn(s)
  BY <1>1 DEF Await, AwaitDeadline, GoesOn, TypeOK, RunsOK
<1>2. ASSUME Suspend(s) PROVE GoesOn(s)
  BY <1>2 DEF Suspend, Over, GoesOn
<1>3. ASSUME NEW v \in Values, v # Failed, Return(s, v) PROVE GoesOn(s)
  BY <1>3 DEF Return, GoesOn, TypeOK, RunsOK
<1>4. AtStep(s) => Active(s) /\ pc[s] # "load"
  BY DEF AtStep, Active
<1>5. CASE RunnerStep(s)
  <2>1. CASE run_workflow(s)
    <3>1. wf[s] \in Registry[code[WorkerOf[s]]]
      BY <2>1, OneProgram DEF run_workflow, Active
    <3> QED
      BY <2>1, <3>1 DEF run_workflow, GoesOn, TypeOK, RunsOK
  <2>2. CASE raise(s)
    <3>1. step[s] \in DOMAIN Body(s) /\ Active(s)
      BY <2>2, CurrentTyped DEF raise, At
    <3> QED
      BY <2>2, <3>1 DEF raise, At, Await, Stops, tables, TypeOK, RunsOK
  <2> QED
    BY <1>2, <1>5, <2>1, <2>2 DEF RunnerStep, finish, fail
<1>6. CASE ActivityStep(s)
  <2>1. CASE replay_activity(s)
    <3>1. PICK n \in find_event(history[s], step[s], "completed") : Return(s, history[s][n].val)
      BY <2>1 DEF replay_activity, find_completed_event
    <3>2. history[s][n].val \in Values /\ history[s][n].val # Failed
      BY <1>4, <2>1, NoFailure DEF replay_activity, At, EventType
    <3> QED
      BY <1>3, <3>1, <3>2
  <2>2. ASSUME NEW r \in Results, complete_activity(s, r) PROVE GoesOn(s)
    BY <1>3, <2>2, FailedAssumption DEF complete_activity, Values
  <2> QED
    BY <1>1, <1>2, <1>6, <2>1, <2>2, NoDivergence DEF ActivityStep, schedule, fail_activity, retry, exhaust_retries, PC
<1>7. CASE SleepStep(s)
  <2>1. None \in Values /\ None # Failed
    BY NoneTyped, FailedAssumption
  <2> QED
    BY <1>1, <1>2, <1>3, <1>7, <2>1 DEF SleepStep, wake_up, re_suspend, start_sleep, suspend_sleep, PC
<1>8. CASE WaitStep(s)
  <2>1. CASE replay_wait(s)
    <3>1. PICK n \in find_signal_event(history[s], Current(s).key) : Received(s, history[s][n].val)
      BY <2>1 DEF replay_wait
    <3>2. AtStep(s) /\ Current(s).op \in {"signal", "join"} /\ UNCHANGED tables
      BY <2>1 DEF replay_wait, AtWait
    <3>3. n \in find_signal_event(events[wf[s]], Current(s).key) /\ events[wf[s]][n] = history[s][n]
      BY <1>4, <3>1, <3>2, HistoryFinds
    <3> QED
      BY <3>1, <3>2, <3>3, WaitEnds, CurrentTyped
  <2>2. CASE reload(s)
    <3>1. PICK n \in find_signal_event(events[wf[s]], Current(s).key) : Received(s, events[wf[s]][n].val)
      BY <2>2 DEF reload
    <3>2. Active(s) /\ pc[s] = "reload"
      BY <2>2 DEF reload, Active
    <3>3. Current(s).op \in {"signal", "join"} /\ step[s] \in DOMAIN Body(s) /\ UNCHANGED tables
      BY <2>2, <3>2 DEF Inv, RunInv, InStep, reload
    <3> QED
      BY <3>1, <3>2, <3>3, WaitEnds
  <2> QED
    BY <1>1, <1>2, <1>8, <2>1, <2>2 DEF WaitStep, write_marker, mark_waiting, already_received, PC
<1>9. CASE SpawnStep(s)
  <2>1. CASE replay_spawn(s)
    <3>1. PICK n \in find_event(history[s], step[s], "child_started") : Return(s, history[s][n].val)
      BY <2>1 DEF replay_spawn, find_child_started_event
    <3>2. history[s][n].val \in Values /\ history[s][n].val # Failed
      BY <1>4, <2>1, NoFailure DEF replay_spawn, At, EventType
    <3> QED
      BY <1>3, <3>1, <3>2
  <2>2. CASE spawn_child(s)
    <3>1. Current(s).key \in Values /\ Current(s).key # Failed
      BY <2>2, SpawnKey, FailedAssumption DEF spawn_child, Values
    <3> QED
      BY <1>3, <2>2, <3>1 DEF spawn_child
  <2> QED
    BY <1>9, <2>1, <2>2 DEF SpawnStep
<1> QED
  BY <1>5, <1>6, <1>7, <1>8, <1>9 DEF RunStep

LEMMA NoError ==
  ASSUME Reliable, TypeOK
  PROVE  ~Fault("error")
<1>1. faults["error"] \in Nat
  BY DEF TypeOK, FaultKinds
<1> QED
  BY <1>1 DEF Fault, Reliable

\* The reason to fail remains.
LEMMA FailingStays ==
  ASSUME TypeOK, TypeOK', Grows, Unforgotten, NEW t \in Slots, Active(t), step[t] \in DOMAIN Body(t),
         Current(t).op = "raise" \/ (Current(t).op = "join" /\ Outcome(wf[t], Current(t), step[t]) = {Failed}),
         wf'[t] = wf[t], step'[t] = step[t], code'[WorkerOf[t]] = code[WorkerOf[t]]
  PROVE  Failing(t)'
<1>1. Body(t)' = Body(t) /\ Current(t)' = Current(t)
  BY SameBody
<1>2. PICK i \in Ids, k \in Nat, c \in StepRecord : i = wf[t] /\ k = step[t] /\ c = Current(t)
  BY BodyTyped DEF TypeOK, RunsOK, Current
<1>3. Outcome(i, c, k) = {Failed} => Outcome(i, c, k)' = {Failed}
  BY OutcomeStays
<1> QED
  BY <1>1, <1>2, <1>3 DEF Failing

LEMMA NextFailing ==
  ASSUME Reliable, DurableInv, TypeOK', Grows, Unforgotten, [Next]_vars, NEW t \in Slots
  PROVE  NotFailed(t)' /\ Failing(t)'
<1> ReplayInv /\ Inv /\ TypeOK /\ NotFailed(t) /\ Failing(t)
  BY DEF DurableInv, ReplayInv, BackedInv, Inv
<1>1. ASSUME Same(t), values'[t] = values[t] PROVE NotFailed(t)' /\ Failing(t)'
  <2>1. NotFailed(t)'
    BY <1>1 DEF NotFailed
  <2>2. ASSUME pc[t] = "fail" PROVE Failing(t)'
    BY <1>1, <2>2, FailingStays DEF Same, Active, Failing
  <2> QED
    BY <1>1, <2>1, <2>2 DEF Failing, Same
<1>2. ASSUME pc'[t] # "fail", values'[t] = values[t] \/ values'[t] = <<>> PROVE NotFailed(t)' /\ Failing(t)'
  BY <1>2 DEF NotFailed, Failing
<1>3. CASE UNCHANGED <<run, code>>
  BY <1>1, <1>3 DEF Same, run
<1>4. ASSUME NEW s \in Slots, RunStep(s) PROVE NotFailed(t)' /\ Failing(t)'
  <2>1. CASE t # s
    <3>1. Same(t)
      BY <1>4, <2>1, RunWake DEF Advance, OthersStay
    <3> QED
      BY <1>1, <1>4, <2>1, <3>1, RunStepLog
  <2>2. CASE t = s /\ Stops(s)
    <3>1. Failing(t)'
      BY <2>2, FailingStays DEF Stops
    <3> QED
      BY <2>2, <3>1 DEF Stops, NotFailed
  <2>3. CASE t = s /\ GoesOn(s)
    <3>1. ASSUME NEW v \in Values, v # Failed, values'[s] = Append(values[s], v) PROVE NotFailed(s)'
      <4>1. values[s] \in Seq(Values)
        BY DEF TypeOK, RunsOK
      <4>2. \A k \in 1..Len(values'[s]) : (k \in 1..Len(values[s]) /\ values'[s][k] = values[s][k]) \/ values'[s][k] = v
        BY <3>1, <4>1
      <4> QED
        BY <2>3, <3>1, <4>2 DEF NotFailed
    <3> QED
      BY <1>2, <2>3, <3>1 DEF GoesOn, Failing
  <2> QED
    BY <1>4, <2>1, <2>2, <2>3, RunDurable
<1>5. ASSUME NEW s \in Slots, Breaks(s) \/ \E r \in Results : notify_error(s, r) PROVE FALSE
  BY <1>5, NoError DEF Breaks, notify_error
<1>6. ASSUME NEW s \in Slots, NEW i \in Ids, claim(s, i) PROVE NotFailed(t)' /\ Failing(t)'
  <2>1. CASE t = s
    BY <1>2, <1>6, <2>1 DEF claim, TypeOK, RunsOK
  <2>2. CASE t # s
    BY <1>1, <1>6, <2>2 DEF claim, Same, TypeOK, RunsOK
  <2> QED
    BY <2>1, <2>2
<1>7. ASSUME NEW S \in SUBSET Slots, LosesRuns(S) PROVE NotFailed(t)' /\ Failing(t)'
  <2>1. CASE t \in S
    BY <1>2, <1>7, <2>1 DEF LosesRuns, Over
  <2>2. CASE t \notin S
    BY <1>1, <1>7, <2>2 DEF LosesRuns, Over, Same
  <2> QED
    BY <2>1, <2>2
<1> QED
  BY <1>3, <1>4, <1>5, <1>6, <1>7, NextRuns DEF RunKind

-----------------------------------------------------------------------------
(***************************************************************************)
(* Sleeps, calls and payloads in the log.                                  *)
(***************************************************************************)
\* A run that ends its workflow is at a step that is not decided, and no sleep, or
\* past all steps.
LEMMA EndsWhere ==
  ASSUME Reliable, DurableInv, NEW s \in Slots, EndsRun(s)
  PROVE  /\ Active(s) /\ pc[s] # "load" /\ status[wf[s]] = "running"
         /\ \/ finish(s) /\ step[s] > Len(OnlyBody[wf[s]])
            \/ /\ fail(s) \/ exhaust_retries(s)
               /\ step[s] \in DOMAIN OnlyBody[wf[s]] /\ OnlyBody[wf[s]][step[s]].op # "sleep"
               /\ Out(wf[s], step[s]) \in {{}, {Failed}}
<1> ReplayInv /\ Inv /\ TypeOK
  BY DEF DurableInv, ReplayInv, BackedInv, Inv
<1>1. Active(s) /\ pc[s] # "load"
  BY DEF EndsRun, finish, fail, exhaust_retries, Active
<1>2. PICK i \in Ids, k \in Nat \ {0} : i = wf[s] /\ k = step[s] /\ Body(s) = OnlyBody[i] /\ status[i] = "running"
  BY <1>1, BeforeRun, OneProgram
<1>3. CASE finish(s)
  BY <1>1, <1>2, <1>3 DEF finish
<1>4. CASE fail(s)
  <2>1. k \in DOMAIN OnlyBody[i]
    BY <1>2, <1>4 DEF fail, DurableInv, Failing
  <2>2. OnlyBody[i][k].op = "raise" \/ (OnlyBody[i][k].op = "join" /\ Out(i, k) = {Failed})
    BY <1>2, <1>4 DEF fail, DurableInv, Failing, Current, Out
  <2>3. OnlyBody[i][k].op = "raise" => Out(i, k) = {}
    BY DEF Out, Outcome
  <2> QED
    BY <1>1, <1>2, <1>4, <2>1, <2>2, <2>3
<1>5. CASE exhaust_retries(s)
  <2>1. k \in DOMAIN OnlyBody[i] /\ OnlyBody[i][k].op = "activity"
    BY <1>2, <1>5 DEF exhaust_retries, Inv, RunInv, InStep, Current
  <2>2. Found(history[s], k, "completed") = {} /\ Ahead(s) /\ pc[s] = "failed"
    BY <1>2, <1>5 DEF exhaust_retries, ReplayInv, RunLog, Undone
  <2>3. "completed" \in Own \ Late(pc[s])
    BY <2>2 DEF Own, Late
  <2>4. Found(events[i], k, "completed") = {}
    BY <1>1, <1>2, <2>2, <2>3, NothingNew
  <2>5. find_event(events[i], k, "completed") = {}
    <3>1. Len(events[i]) \in Nat
      BY DEF TypeOK, TablesOK
    <3> QED
      BY <2>4, <3>1, FindsAny
  <2>6. Out(i, k) = {}
    BY <2>1, <2>5 DEF Out, Outcome, find_completed_event
  <2> QED
    BY <1>1, <1>2, <1>5, <2>1, <2>6
<1> QED
  BY <1>3, <1>4, <1>5 DEF EndsRun

\* A decided sleep has passed.
LEMMA SleepPassed ==
  ASSUME TypeOK, Once, NEW i \in Ids, NEW n \in 1..Len(events[i]), events[i][n].type = "sleep",
         OnlyBody[i][events[i][n].step].op = "sleep", Decided(i, events[i][n].step)
  PROVE  n \in elapsed[i]
<1>1. SleepElapsed(i, events[i], events[i][n].step)
  BY DEF Decided, Out, Outcome
<1>2. PICK m \in find_event(events[i], events[i][n].step, "sleep") : m \in elapsed[i]
  BY <1>1 DEF SleepElapsed
<1>3. m \in 1..Len(events[i]) /\ events[i][m].type = "sleep" /\ events[i][m].step = events[i][n].step
  BY <1>2 DEF find_event
<1>4. m = n
  BY <1>3 DEF Once, OnceIn, Single
<1> QED
  BY <1>2, <1>4

\* A workflow does not end during a sleep.
LEMMA EndsAwake ==
  ASSUME Reliable, DurableInv, NEW s \in Slots, EndsRun(s), NEW n \in 1..Len(events[wf[s]]), events[wf[s]][n].type = "sleep"
  PROVE  n \in elapsed[wf[s]]
<1> ReplayInv /\ Inv /\ TypeOK /\ Once
  BY DEF DurableInv, ReplayInv, BackedInv, Inv
<1>1. Active(s) /\ wf[s] \in Ids /\ step[s] \in Nat \ {0} /\ Before(wf[s], step[s])
  BY EndsWhere, BeforeRun
<1>2. PICK i \in Ids, f \in Nat \ {0} : i = wf[s] /\ f = step[s]
  BY <1>1
<1>3. PICK k \in DOMAIN OnlyBody[i] : k = events[i][n].step /\ OnlyBody[i][k].op = "sleep" /\ Before(i, k)
  BY <1>2 DEF DurableInv, SleepsInOrder
<1>4. k \in Nat \ {0} /\ k <= Len(OnlyBody[i]) /\ Len(OnlyBody[i]) \in Nat
  BY StepAt
<1>5. ASSUME k < f PROVE n \in elapsed[i]
  <2>1. k \in 1..(f - 1)
    BY <1>4, <1>5
  <2>2. Decided(i, k)
    BY <1>1, <1>2, <2>1 DEF Before
  <2> QED
    BY <1>2, <1>3, <2>2, SleepPassed
<1>6. CASE f > Len(OnlyBody[i])
  BY <1>2, <1>4, <1>5, <1>6
<1>7. CASE f \in DOMAIN OnlyBody[i] /\ OnlyBody[i][f].op # "sleep" /\ Out(i, f) \in {{}, {Failed}}
  <2>1. ~(k > f)
    <3>1. k > f => f \in 1..(k - 1)
      BY <1>4
    <3> QED
      BY <1>3, <1>7, <3>1 DEF Before, Decided
  <2>2. k # f
    BY <1>3, <1>7
  <2> QED
    BY <1>2, <1>4, <1>5, <2>1, <2>2
<1> QED
  BY <1>2, <1>6, <1>7, EndsWhere

\* A live workflow ends only with its run.
LEMMA LivesOn ==
  ASSUME Inv, [Next]_vars, NEW i \in Ids, status[i] \in Live, status'[i] \notin Live
  PROVE  \E s \in Slots : EndsRun(s) /\ wf[s] = i
<1> TypeOK
  BY DEF Inv
<1>1. status'[i] # status[i] /\ status'[i] # "running" /\ status'[i] # "waiting"
  BY DEF Live
<1>2. ASSUME NEW j \in Ids, start_workflow(j) PROVE FALSE
  BY <1>1, <1>2 DEF start_workflow, create_workflow, TypeOK, TablesOK
<1>3. ASSUME NEW q \in Requests, write_signal(q) PROVE FALSE
  BY <1>1, <1>3 DEF write_signal, write_signal_and_wake_workflow, TypeOK, TablesOK
<1>4. ASSUME NEW s \in Slots, Writes(s) PROVE FALSE
  BY <1>1, <1>4, WritesOne DEF rows
<1>5. ASSUME NEW s \in Slots, spawn_child(s) PROVE FALSE
  BY <1>1, <1>5 DEF spawn_child, create_child_workflow, tables, TypeOK, TablesOK
<1>6. ASSUME NEW s \in Slots, mark_waiting(s) PROVE FALSE
  BY <1>1, <1>6 DEF mark_waiting, mark_workflow_waiting, TypeOK, TablesOK
<1>7. ASSUME NEW s \in Slots, EndsRun(s) PROVE wf[s] = i
  BY <1>1, <1>7 DEF EndsRun, finish, fail, exhaust_retries, complete_workflow, fail_workflow, write_terminal_workflow_event
<1> QED
  BY <1>1, <1>2, <1>3, <1>4, <1>5, <1>6, <1>7, StepKind DEF TableKind

\* Deadlines pass of events in the log, sleeps and what run_at is.
LEMMA ClockMoves ==
  ASSUME TypeOK, [Next]_vars
  PROVE  \/ UNCHANGED elapsed
         \/ \E i \in Ids : \E n \in 1..Len(events[i]) : Elapse(i, n)
<1>1. ASSUME NEW s \in Slots, RunStep(s) PROVE UNCHANGED elapsed
  BY <1>1 DEF RunStep, RunnerStep, ActivityStep, SleepStep, WaitStep, SpawnStep,
     run_workflow, finish, raise, fail, replay_activity, DivergenceError, schedule, complete_activity, fail_activity,
     retry, exhaust_retries, wake_up, re_suspend, start_sleep, suspend_sleep, replay_wait, write_marker, mark_waiting,
     already_received, reload, replay_spawn, spawn_child, Received, Await, AwaitDeadline, Return, Suspend
<1>2. ASSUME FaultStep PROVE UNCHANGED elapsed
  BY <1>2 DEF FaultStep, stall, LetLapse, restart, database_error, activity_cancelled, notify_error
<1>3. ASSUME \/ \E i \in Ids : start_workflow(i) \/ lapse(i)
             \/ \E q \in Requests : send_signal(q) \/ write_signal(q)
             \/ \E s \in Slots : heartbeat(s) \/ \E i \in Ids : claim(s, i)
      PROVE  UNCHANGED elapsed
  BY <1>3 DEF start_workflow, send_signal, write_signal, heartbeat, claim, others, lapse, LetLapse
<1> QED
  BY <1>1, <1>2, <1>3 DEF Next, ClockStep, vars

LEMMA NextLog ==
  ASSUME Reliable, DurableInv, TypeOK', Grows, Unforgotten, [Next]_vars
  PROVE  Payloads' /\ ElapsedPast' /\ SleepsInOrder' /\ CallsKept'
<1> ReplayInv /\ Inv /\ TypeOK
  BY DEF DurableInv, ReplayInv, BackedInv, Inv
<1>1. /\ \A i \in Ids : Len(events[i]) \in Nat /\ Len(events'[i]) \in Nat /\ Len(events[i]) <= Len(events'[i])
      /\ \A i \in Ids : \A n \in 1..Len(events'[i]) : n > Len(events[i]) \/ (n \in 1..Len(events[i]) /\ events'[i][n] = events[i][n])
  BY DEF TypeOK, TablesOK, Grows
<1>2. Payloads'
  BY <1>1, NewEvents DEF DurableInv, Payloads
<1>3. ElapsedPast'
  <2>1. \A i \in Ids : elapsed'[i] \subseteq 1..Len(events[i])
    <3>1. CASE UNCHANGED elapsed
      BY <3>1 DEF DurableInv, ElapsedPast
    <3>2. ASSUME NEW j \in Ids, NEW n \in 1..Len(events[j]), Elapse(j, n) PROVE \A i \in Ids : elapsed'[i] \subseteq 1..Len(events[i])
      BY <3>2 DEF Elapse, TypeOK, TablesOK, DurableInv, ElapsedPast
    <3> QED
      BY <3>1, <3>2, ClockMoves
  <2> QED
    BY <1>1, <2>1 DEF ElapsedPast
<1>4. SleepsInOrder'
  <2> SUFFICES ASSUME NEW i \in Ids, NEW n \in 1..Len(events'[i]), events'[i][n].type = "sleep"
               PROVE  /\ \E k \in DOMAIN OnlyBody[i] :
                            k = events'[i][n].step /\ OnlyBody[i][k].op = "sleep" /\ Before(i, k)'
                      /\ n \in elapsed'[i] \/ status'[i] \in Live
    BY DEF SleepsInOrder, OnlyBody
  <2>1. ASSUME n \in 1..Len(events[i]), events'[i][n] = events[i][n] PROVE n \in elapsed'[i] \/ status'[i] \in Live
    <3>1. CASE n \in elapsed[i]
      BY <3>1 DEF Unforgotten
    <3>2. CASE status[i] \in Live /\ n \notin elapsed[i]
      <4>1. ASSUME status'[i] \notin Live PROVE FALSE
        <5>1. PICK s \in Slots : EndsRun(s) /\ wf[s] = i
          BY <3>2, <4>1, LivesOn
        <5> QED
          BY <2>1, <3>2, <5>1, EndsAwake
      <4> QED
        BY <4>1
    <3> QED
      BY <2>1, <3>1, <3>2 DEF DurableInv, SleepsInOrder
  <2>2. CASE n \in 1..Len(events[i]) /\ events'[i][n] = events[i][n]
    <3>1. PICK k \in DOMAIN OnlyBody[i] : k = events[i][n].step /\ OnlyBody[i][k].op = "sleep" /\ Before(i, k)
      BY <2>2 DEF DurableInv, SleepsInOrder
    <3>2. Before(i, k)'
      BY <3>1, DecidedStays
    <3>3. events'[i][n].step = k
      BY <2>2, <3>1
    <3> QED
      BY <2>1, <2>2, <3>1, <3>2, <3>3
  <2>3. CASE n > Len(events[i])
    <3>1. PICK s \in Slots : start_sleep(s) /\ wf[s] = i /\ events'[i][n].step = step[s]
      BY <2>3, NewEvents
    <3>2. AtStep(s) /\ Active(s) /\ step[s] \in DOMAIN Body(s) /\ Current(s).op = "sleep" /\ UNCHANGED status
      BY <3>1, CurrentTyped DEF start_sleep, At, write_event, rows
    <3>3. PICK k \in Nat \ {0} : k = step[s] /\ Before(i, k) /\ status[i] = "running" /\ Body(s) = OnlyBody[i]
      BY <3>1, <3>2, BeforeRun, OneProgram
    <3>4. Before(i, k)'
      BY <3>3, DecidedStays
    <3>5. events'[i][n].step = k /\ k \in DOMAIN OnlyBody[i] /\ OnlyBody[i][k].op = "sleep" /\ status'[i] \in Live
      BY <3>1, <3>2, <3>3 DEF Current, Live
    <3> QED
      BY <3>4, <3>5
  <2> QED
    BY <1>1, <2>2, <2>3
<1>5. CallsKept'
  <2> SUFFICES ASSUME NEW i \in Ids, NEW n \in 1..Len(events'[i]), events'[i][n].type = "scheduled"
               PROVE  events'[i][n].key = OnlyBody[i][events'[i][n].step].key
    BY DEF CallsKept
  <2>1. CASE n \in 1..Len(events[i]) /\ events'[i][n] = events[i][n]
    BY <2>1 DEF DurableInv, CallsKept
  <2>2. CASE n > Len(events[i])
    <3>1. PICK s \in Slots : schedule(s) /\ wf[s] = i /\ events'[i][n].step = step[s] /\ events'[i][n].key = Current(s).key
      BY <2>2, NewEvents
    <3>2. Active(s)
      BY <3>1, CurrentTyped DEF schedule, NotReplayed, At
    <3>3. Body(s) = OnlyBody[i]
      BY <3>1, <3>2, OneProgram
    <3> QED
      BY <3>1, <3>3 DEF Current
  <2> QED
    BY <1>1, <2>1, <2>2
<1> QED
  BY <1>2, <1>3, <1>4, <1>5

LEMMA InitDurable ==
  ASSUME Init
  PROVE  DurableInv
<1>1. ReplayInv
  BY InitReplay
<1>2. \A i \in Ids : Len(events[i]) = 0 /\ elapsed[i] = {}
  BY DEF Init, TablesInit
<1>3. Payloads /\ ElapsedPast /\ SleepsInOrder /\ CallsKept
  BY <1>2 DEF Payloads, ElapsedPast, SleepsInOrder, CallsKept
<1>4. \A s \in Slots : pc[s] = "idle" /\ Len(values[s]) = 0
  BY DEF Init
<1>5. \A s \in Slots : NotFailed(s) /\ Failing(s)
  BY <1>4 DEF NotFailed, Failing
<1> QED
  BY <1>1, <1>3, <1>5 DEF DurableInv

LEMMA NextDurable ==
  ASSUME Reliable, DurableInv, [Next]_vars
  PROVE  DurableInv'
<1> ReplayInv /\ Inv /\ TypeOK
  BY DEF DurableInv, ReplayInv, BackedInv, Inv
<1>1. ReplayInv' /\ TypeOK'
  BY NextReplay DEF Reliable, ReplayInv, BackedInv, Inv
<1>2. Grows /\ Unforgotten
  BY <1>1, NextTable, ElapsedStays DEF TableStep
<1>3. \A t \in Slots : NotFailed(t)' /\ Failing(t)'
  BY <1>1, <1>2, NextFailing
<1> QED
  BY <1>1, <1>2, <1>3, NextLog DEF DurableInv

-----------------------------------------------------------------------------
(***************************************************************************)
(* What an event adds to the outcomes of its workflow.                     *)
(***************************************************************************)
Tells(e, c, k) ==
  \/ c.op = "activity" /\ e.type = "completed" /\ e.step = k
  \/ c.op = "spawn" /\ e.type = "child_started" /\ e.step = k
  \/ c.op \in {"signal", "join"} /\ IsReceived(e, c.key)

\* The outcomes of i become those e decides.
Learns(i, e) ==
  \A k \in DOMAIN OnlyBody[i] :
    Out(i, k)' = IF Out(i, k) = {} /\ Tells(e, OnlyBody[i][k], k) THEN {e.val} ELSE Out(i, k)

\* An event that does not match is not found.
LEMMA FindsNoMore ==
  ASSUME NEW h, h \in Seq(EventRecord), NEW e \in EventRecord, NEW k, NEW type, NEW key
  PROVE  LET g == Append(h, e) IN
         /\ ~(e.step = k /\ e.type = type) => find_event(g, k, type) = find_event(h, k, type)
         /\ ~IsReceived(e, key) => find_signal_event(g, key) = find_signal_event(h, key)
<1> DEFINE g == Append(h, e)
<1>1. /\ Len(h) \in Nat /\ Len(g) = Len(h) + 1 /\ g[Len(h) + 1] = e
      /\ \A n \in 1..Len(h) : g[n] = h[n]
  OBVIOUS
<1>2. \A n : n \in 1..(Len(h) + 1) <=> (n \in 1..Len(h) \/ n = Len(h) + 1)
  BY <1>1
<1> HIDE DEF g
<1>3. ~(e.step = k /\ e.type = type) => Found(g, k, type) = Found(h, k, type)
  BY <1>1, <1>2 DEF Found
<1>4. ~IsReceived(e, key) => Got(g, key) = Got(h, key)
  BY <1>1, <1>2 DEF Got
<1>5. /\ find_event(g, k, type) = {n \in Found(g, k, type) : \A m \in Found(g, k, type) : n <= m}
      /\ find_event(h, k, type) = {n \in Found(h, k, type) : \A m \in Found(h, k, type) : n <= m}
      /\ find_signal_event(g, key) = {n \in Got(g, key) : \A m \in Got(g, key) : n <= m}
      /\ find_signal_event(h, key) = {n \in Got(h, key) : \A m \in Got(h, key) : n <= m}
  <2>1. Len(g) \in Nat
    BY <1>1
  <2> QED
    BY <1>1, <2>1, FirstFound
<1> QED
  BY <1>3, <1>4, <1>5 DEF g

LEMMA AppendLearns ==
  ASSUME TypeOK, TypeOK', Grows, Unforgotten, ElapsedPast, NEW i \in Ids, NEW e \in EventRecord,
         events'[i] = Append(events[i], e), elapsed'[i] = elapsed[i]
  PROVE  Learns(i, e)
<1> SUFFICES ASSUME NEW k \in DOMAIN OnlyBody[i]
             PROVE  Out(i, k)' = IF Out(i, k) = {} /\ Tells(e, OnlyBody[i][k], k) THEN {e.val} ELSE Out(i, k)
  BY DEF Learns, OnlyBody
<1> SUFFICES ASSUME Out(i, k) = {}
             PROVE  Out(i, k)' = IF Tells(e, OnlyBody[i][k], k) THEN {e.val} ELSE {}
  BY DecidedStays
<1> DEFINE h == events[i]
           g == events'[i]
           c == OnlyBody[i][k]
<1>1. /\ h \in Seq(EventRecord) /\ g = Append(h, e) /\ Len(h) \in Nat
      /\ g[Len(h) + 1] = e
  BY DEF TypeOK, TablesOK
<1>2. /\ c.op = "activity" => Out(i, k) = {h[n].val : n \in find_event(h, k, "completed")}
      /\ c.op = "activity" => Out(i, k)' = {g[n].val : n \in find_event(g, k, "completed")}
      /\ c.op \in {"signal", "join"} => Out(i, k) = {h[n].val : n \in find_signal_event(h, c.key)}
      /\ c.op \in {"signal", "join"} => Out(i, k)' = {g[n].val : n \in find_signal_event(g, c.key)}
      /\ c.op = "spawn" => Out(i, k) = {h[n].val : n \in find_event(h, k, "child_started")}
      /\ c.op = "spawn" => Out(i, k)' = {g[n].val : n \in find_event(g, k, "child_started")}
      /\ c.op = "sleep" => Out(i, k) = IF SleepElapsed(i, h, k) THEN {None} ELSE {}
      /\ c.op = "sleep" => Out(i, k)' = IF (\E n \in find_event(g, k, "sleep") : n \in elapsed'[i]) THEN {None} ELSE {}
      /\ c.op \notin {"activity", "signal", "join", "spawn", "sleep"} => Out(i, k)' = {}
  BY DEF Out, Outcome, SleepElapsed, OnlyBody, find_completed_event, find_child_started_event
<1>3. elapsed'[i] \subseteq 1..Len(h)
  BY DEF ElapsedPast
<1> HIDE DEF h, g, c
<1>4. ASSUME NEW type PROVE /\ ~(e.step = k /\ e.type = type) => find_event(g, k, type) = find_event(h, k, type)
                            /\ (e.step = k /\ e.type = type /\ find_event(h, k, type) = {}) => find_event(g, k, type) = {Len(h) + 1}
  <2>1. find_event(h, k, type) = {} <=> Found(h, k, type) = {}
    BY <1>1, FindsAny
  <2>2. ~(e.step = k /\ e.type = type) => find_event(g, k, type) = find_event(h, k, type)
    BY <1>1, FindsNoMore
  <2>3. Found(h, e.step, e.type) = {} => find_event(g, e.step, e.type) = {Len(h) + 1}
    BY <1>1, FindsNew
  <2> QED
    BY <2>1, <2>2, <2>3
<1>5. ASSUME NEW key PROVE /\ ~IsReceived(e, key) => find_signal_event(g, key) = find_signal_event(h, key)
                           /\ (IsReceived(e, key) /\ find_signal_event(h, key) = {}) => find_signal_event(g, key) = {Len(h) + 1}
  <2>1. find_signal_event(h, key) = {} <=> Got(h, key) = {}
    BY <1>1, FindsAny
  <2>2. ~IsReceived(e, key) => find_signal_event(g, key) = find_signal_event(h, key)
    BY <1>1, FindsNoMore
  <2>3. (IsReceived(e, key) /\ Got(h, key) = {}) => find_signal_event(g, key) = {Len(h) + 1}
    BY <1>1, FindsNew
  <2> QED
    BY <2>1, <2>2, <2>3
<1>6. CASE c.op = "activity"
  <2>1. find_event(h, k, "completed") = {}
    BY <1>2, <1>6
  <2>2. find_event(g, k, "completed") = IF Tells(e, c, k) THEN {Len(h) + 1} ELSE {}
    BY <1>4, <1>6, <2>1 DEF Tells
  <2> QED
    BY <1>1, <1>2, <1>6, <2>2 DEF c
<1>7. CASE c.op \in {"signal", "join"}
  <2>1. find_signal_event(h, c.key) = {}
    <3>1. {h[n].val : n \in find_signal_event(h, c.key)} = {}
      BY <1>2, <1>7
    <3> QED
      BY <3>1
  <2>2. find_signal_event(g, c.key) = IF Tells(e, c, k) THEN {Len(h) + 1} ELSE {}
    BY <1>5, <1>7, <2>1 DEF Tells
  <2> QED
    BY <1>1, <1>2, <1>7, <2>2 DEF c
<1>8. CASE c.op = "spawn"
  <2>1. find_event(h, k, "child_started") = {}
    BY <1>2, <1>8
  <2>2. find_event(g, k, "child_started") = IF Tells(e, c, k) THEN {Len(h) + 1} ELSE {}
    BY <1>4, <1>8, <2>1 DEF Tells
  <2> QED
    BY <1>1, <1>2, <1>8, <2>2 DEF c
<1>9. CASE c.op = "sleep"
  <2>1. ~SleepElapsed(i, h, k)
    BY <1>2, <1>9
  <2>2. \A n \in find_event(g, k, "sleep") : n \in find_event(h, k, "sleep") \/ n = Len(h) + 1
    <3>1. CASE e.step = k /\ e.type = "sleep" /\ find_event(h, k, "sleep") = {}
      BY <1>4, <3>1
    <3>2. CASE find_event(h, k, "sleep") # {}
      <4>1. Continues(g, h)
        BY <1>1 DEF Continues
      <4>2. \A type : find_event(h, k, type) # {} => find_event(g, k, type) = find_event(h, k, type)
        BY <4>1, FindsSame
      <4> QED
        BY <3>2, <4>2
    <3>3. CASE ~(e.step = k /\ e.type = "sleep")
      BY <1>4, <3>3
    <3> QED
      BY <3>1, <3>2, <3>3
  <2>3. \A n \in find_event(g, k, "sleep") : n \notin elapsed'[i]
    <3>1. Len(h) + 1 \notin elapsed'[i]
      BY <1>1, <1>3
    <3>2. \A n \in find_event(h, k, "sleep") : n \notin elapsed'[i]
      BY <2>1 DEF SleepElapsed
    <3> QED
      BY <2>2, <3>1, <3>2
  <2> QED
    BY <1>2, <1>9, <2>3 DEF Tells, c
<1>10. CASE c.op \notin {"activity", "signal", "join", "spawn", "sleep"}
  BY <1>2, <1>10 DEF Tells, c
<1> QED
  BY <1>6, <1>7, <1>8, <1>9, <1>10

\* A log that did not change tells nothing.
LEMMA UnchangedOut ==
  ASSUME NEW i \in Ids, events'[i] = events[i], elapsed'[i] = elapsed[i], NEW k
  PROVE  Out(i, k)' = Out(i, k)
BY DEF Out, Outcome, SleepElapsed, OnlyBody, find_completed_event, find_child_started_event

-----------------------------------------------------------------------------
(***************************************************************************)
(* The abstract state, workflow by workflow.                               *)
(***************************************************************************)
State(i) == IF status[i] \in Live THEN "live" ELSE status[i]
States == [i \in Ids |-> State(i)]
Outcomes == [i \in Ids |-> [k \in DOMAIN OnlyBody[i] |-> Out(i, k)]]

\* What changes only i leaves the others as they are.
OnlyState(i) == \A j \in Ids \ {i} : State(j)' = State(j)
OnlyOutcome(i) == \A j \in Ids \ {i} : \A k \in DOMAIN OnlyBody[j] : Out(j, k)' = Out(j, k)
SameStates == \A j \in Ids : State(j)' = State(j)
SameOutcomes == \A j \in Ids : \A k \in DOMAIN OnlyBody[j] : Out(j, k)' = Out(j, k)

LEMMA AbstractSame ==
  /\ SameStates => States' = States
  /\ SameOutcomes => Outcomes' = Outcomes
<1>1. SameStates => States' = States
  BY DEF SameStates, States
<1>2. ASSUME SameOutcomes PROVE Outcomes' = Outcomes
  <2>1. \A i \in Ids : [k \in DOMAIN OnlyBody[i] |-> Out(i, k)'] = [k \in DOMAIN OnlyBody[i] |-> Out(i, k)]
    BY <1>2 DEF SameOutcomes
  <2>2. Outcomes' = [i \in Ids |-> [k \in DOMAIN OnlyBody[i] |-> Out(i, k)']]
    BY DEF Outcomes, OnlyBody
  <2> QED
    BY <2>1, <2>2 DEF Outcomes
<1> QED
  BY <1>1, <1>2

LEMMA AbstractBecomes ==
  ASSUME NEW i \in Ids, NEW s, State(i)' = s, OnlyState(i)
  PROVE  States' = [States EXCEPT ![i] = s]
BY DEF OnlyState, States

\* The outcomes of i that are decided by v.
LEMMA AbstractTakes ==
  ASSUME NEW i \in Ids, NEW S, NEW v, OnlyOutcome(i),
         \A k \in DOMAIN OnlyBody[i] : Out(i, k)' = IF k \in S THEN {v} ELSE Out(i, k)
  PROVE  Outcomes' = [Outcomes EXCEPT ![i] = [k \in DOMAIN OnlyBody[i] |-> IF k \in S THEN {v} ELSE Outcomes[i][k]]]
<1> DEFINE Taken == [k \in DOMAIN OnlyBody[i] |-> IF k \in S THEN {v} ELSE Outcomes[i][k]]
<1>1. Outcomes' = [j \in Ids |-> [k \in DOMAIN OnlyBody[j] |-> Out(j, k)']]
  BY DEF Outcomes, OnlyBody
<1>2. \A j \in Ids \ {i} : [k \in DOMAIN OnlyBody[j] |-> Out(j, k)'] = Outcomes[j]
  BY DEF OnlyOutcome, Outcomes
<1>3. \A k \in DOMAIN OnlyBody[i] : Outcomes[i][k] = Out(i, k)
  BY DEF Outcomes
<1>4. [k \in DOMAIN OnlyBody[i] |-> Out(i, k)'] = Taken
  BY <1>3
<1>5. Outcomes = [j \in Ids |-> Outcomes[j]]
  BY DEF Outcomes
<1> HIDE DEF Taken
<1> QED
  BY <1>1, <1>2, <1>4, <1>5 DEF Taken

LEMMA AbstractReached ==
  ASSUME Reliable, TypeOK, NEW i \in Ids, status[i] \in Live, NEW k \in Nat \ {0}, k <= Len(OnlyBody[i]) + 1, Before(i, k)
  PROVE  States[i] = "live" /\ \A m \in 1..(k - 1) : Outcomes[i][m] \notin {{}, {Failed}}
<1>1. States[i] = "live"
  BY DEF States, State
<1>2. DOMAIN OnlyBody[i] = 1..Len(OnlyBody[i]) /\ Len(OnlyBody[i]) \in Nat
  BY OneProgram
<1>3. ASSUME NEW m \in 1..(k - 1) PROVE Outcomes[i][m] \notin {{}, {Failed}}
  <2>1. m \in DOMAIN OnlyBody[i]
    BY <1>2
  <2> QED
    BY <2>1 DEF Before, Decided, Outcomes
<1> QED
  BY <1>1, <1>3

-----------------------------------------------------------------------------
(***************************************************************************)
(* The steps of Durable, in terms of the log.                              *)
(***************************************************************************)
AbstractStep == [D!Next]_(D!vars)

LEMMA AbstractStutter ==
  ASSUME SameStates, SameOutcomes
  PROVE  AbstractStep
<1>1. States' = States /\ Outcomes' = Outcomes
  BY AbstractSame
<1>2. UNCHANGED D!vars
  BY <1>1 DEF D!vars, States, State, Outcomes, Out
<1> QED
  BY <1>2 DEF AbstractStep

\* One step of one workflow is decided.
OneDecided(i, k, v) ==
  /\ OnlyOutcome(i)
  /\ \A m \in DOMAIN OnlyBody[i] : Out(i, m)' = IF m \in {k} THEN {v} ELSE Out(i, m)

LEMMA AbstractDecides ==
  ASSUME NEW i \in Ids, NEW k, NEW v, OneDecided(i, k, v)
  PROVE  D!Decides(i, k, v)
<1>1. Outcomes' = [Outcomes EXCEPT ![i] = [m \in DOMAIN OnlyBody[i] |-> IF m \in {k} THEN {v} ELSE Outcomes[i][m]]]
  BY AbstractTakes DEF OneDecided
<1> QED
  BY <1>1 DEF D!Decides, D!Taken, Outcomes, Out

LEMMA AbstractAt ==
  ASSUME Reliable, TypeOK, NEW i \in Ids, status[i] \in Live, NEW k \in DOMAIN OnlyBody[i], Before(i, k), Out(i, k) = {}
  PROVE  D!At(i, k, OnlyBody[i][k].op)
<1>1. k \in Nat \ {0} /\ k <= Len(OnlyBody[i]) + 1
  BY StepAt
<1>2. States[i] = "live" /\ \A m \in 1..(k - 1) : Outcomes[i][m] \notin {{}, {Failed}}
  BY <1>1, AbstractReached
<1>3. D!Reached(i, k)
  BY <1>2 DEF D!Reached, States, State, Outcomes, Out
<1>4. Outcomes[i][k] = {}
  BY DEF Outcomes
<1> QED
  BY <1>3, <1>4 DEF D!At, Outcomes, Out

LEMMA AbstractReturn ==
  ASSUME Reliable, TypeOK, NEW i \in Ids, status[i] \in Live, NEW k \in DOMAIN OnlyBody[i], Before(i, k), Out(i, k) = {},
         NEW v, SameStates, OneDecided(i, k, v),
         (OnlyBody[i][k].op = "activity" /\ v \in Results) \/ (OnlyBody[i][k].op = "sleep" /\ v = None)
  PROVE  AbstractStep
<1>1. D!At(i, k, OnlyBody[i][k].op) /\ D!Decides(i, k, v)
  BY AbstractAt, AbstractDecides
<1>2. States' = States
  BY AbstractSame
<1>3. D!Return(i, k)
  BY <1>1, <1>2 DEF D!Return, States, State
<1> QED
  BY <1>3 DEF D!Next, AbstractStep

LEMMA AbstractSpawn ==
  ASSUME Reliable, TypeOK, NEW i \in Ids, status[i] \in Live, NEW k \in DOMAIN OnlyBody[i], Before(i, k), Out(i, k) = {},
         NEW c \in Ids, c = OnlyBody[i][k].key, OnlyBody[i][k].op = "spawn", State(c) = "absent", State(c)' = "live",
         OnlyState(c), OneDecided(i, k, c)
  PROVE  AbstractStep
<1>1. D!At(i, k, "spawn") /\ D!Decides(i, k, c)
  BY AbstractAt, AbstractDecides
<1>2. States' = [States EXCEPT ![c] = "live"] /\ States[c] = "absent"
  BY AbstractBecomes DEF States
<1>3. D!Spawn(i, k)
  BY <1>1, <1>2 DEF D!Spawn, D!Becomes, States, State
<1> QED
  BY <1>3 DEF D!Next, AbstractStep

LEMMA AbstractStart ==
  ASSUME NEW i \in Roots, i \in Ids, State(i) = "absent", State(i)' = "live", OnlyState(i), SameOutcomes
  PROVE  AbstractStep
<1>1. States' = [States EXCEPT ![i] = "live"] /\ States[i] = "absent" /\ Outcomes' = Outcomes
  BY AbstractBecomes, AbstractSame DEF States
<1>2. D!Start(i)
  BY <1>1 DEF D!Start, D!Becomes, States, State, Outcomes, Out
<1> QED
  BY <1>2 DEF D!Next, AbstractStep

\* The steps of j that wait for key.
Waits(j, op, key) == {k \in DOMAIN OnlyBody[j] : OnlyBody[j][k].op = op /\ OnlyBody[j][k].key = key /\ Out(j, k) = {}}

LEMMA AbstractExpecting ==
  ASSUME NEW j \in Ids, NEW op, NEW key
  PROVE  D!Expecting(j, op, key) = Waits(j, op, key)
BY DEF D!Expecting, Waits, Outcomes, Out

LEMMA AbstractReceive ==
  ASSUME NEW q \in Requests, NEW i \in Ids, i = SignalTo[q], State(i) = "live", SameStates, OnlyOutcome(i),
         \A k \in DOMAIN OnlyBody[i] : Out(i, k)' = IF k \in Waits(i, "signal", SignalType[q]) THEN {q} ELSE Out(i, k)
  PROVE  AbstractStep
<1> DEFINE S == Waits(i, "signal", SignalType[q])
<1>1. D!Expecting(i, "signal", SignalType[q]) = S
  BY AbstractExpecting
<1> HIDE DEF S
<1>2. Outcomes' = [Outcomes EXCEPT ![i] = [m \in DOMAIN OnlyBody[i] |-> IF m \in S THEN {q} ELSE Outcomes[i][m]]]
  BY AbstractTakes DEF S
<1>3. States' = States /\ States[i] = "live"
  BY AbstractSame DEF States
<1>4. D!Receive(q)
  BY <1>1, <1>2, <1>3 DEF D!Receive, D!Taken, States, State, Outcomes, Out
<1> QED
  BY <1>4 DEF D!Next, AbstractStep

LEMMA AbstractEnds ==
  ASSUME NEW i \in Ids, State(i) = "live", NEW s, State(i)' = s, OnlyState(i), NEW v,
         \A j \in Ids : \A k \in DOMAIN OnlyBody[j] :
           Out(j, k)' = IF k \in Waits(j, "join", i) THEN {v} ELSE Out(j, k)
  PROVE  D!Ends(i, s, v)
<1>1. States' = [States EXCEPT ![i] = s] /\ States[i] = "live"
  BY AbstractBecomes DEF States
<1>2. \A j \in Ids : D!Expecting(j, "join", i) = Waits(j, "join", i)
  BY AbstractExpecting
<1>3. Outcomes' = [j \in Ids |-> [k \in DOMAIN OnlyBody[j] |-> Out(j, k)']]
  BY DEF Outcomes, OnlyBody
<1>4. ASSUME NEW j \in Ids
      PROVE  [k \in DOMAIN OnlyBody[j] |-> Out(j, k)']
               = [k \in DOMAIN OnlyBody[j] |-> IF k \in D!Expecting(j, "join", i) THEN {v} ELSE Outcomes[j][k]]
  <2>1. \A k \in DOMAIN OnlyBody[j] : Outcomes[j][k] = Out(j, k)
    BY DEF Outcomes
  <2> QED
    BY <1>2, <2>1
<1>5. Outcomes' = [j \in Ids |-> [k \in DOMAIN OnlyBody[j] |-> IF k \in D!Expecting(j, "join", i) THEN {v} ELSE Outcomes[j][k]]]
  BY <1>3, <1>4
<1> QED
  BY <1>1, <1>5 DEF D!Ends, D!Becomes, D!Taken, States, State, Outcomes, Out

LEMMA AbstractEnd ==
  ASSUME Reliable, TypeOK, NEW i \in Ids, status[i] \in Live, NEW k \in Nat \ {0}, Before(i, k),
         NEW s, NEW v, D!Ends(i, s, v),
         \/ k > Len(OnlyBody[i]) /\ s = "completed" /\ v = Done
         \/ k \in DOMAIN OnlyBody[i] /\ Out(i, k) \in {{}, {Failed}} /\ s = "failed" /\ v = Failed
  PROVE  AbstractStep
<1>1. Len(OnlyBody[i]) \in Nat /\ DOMAIN OnlyBody[i] = 1..Len(OnlyBody[i])
  BY OneProgram
<1>2. CASE k > Len(OnlyBody[i]) /\ s = "completed" /\ v = Done
  <2> DEFINE last == Len(OnlyBody[i]) + 1
  <2>1. last \in Nat \ {0} /\ last <= Len(OnlyBody[i]) + 1 /\ 1..(last - 1) \subseteq 1..(k - 1)
    BY <1>1, <1>2
  <2>2. Before(i, last)
    BY <2>1 DEF Before
  <2>3. States[i] = "live" /\ \A m \in 1..(last - 1) : Outcomes[i][m] \notin {{}, {Failed}}
    BY <2>1, <2>2, AbstractReached
  <2>4. D!Reached(i, last)
    BY <2>3 DEF D!Reached, States, State, Outcomes, Out
  <2>5. D!Complete(i)
    BY <1>2, <2>4 DEF D!Complete
  <2> QED
    BY <2>5 DEF D!Next, AbstractStep
<1>3. CASE k \in DOMAIN OnlyBody[i] /\ Out(i, k) \in {{}, {Failed}} /\ s = "failed" /\ v = Failed
  <2>1. k <= Len(OnlyBody[i]) + 1
    BY <1>1, <1>3
  <2>2. States[i] = "live" /\ \A m \in 1..(k - 1) : Outcomes[i][m] \notin {{}, {Failed}}
    BY <2>1, AbstractReached
  <2>3. D!Reached(i, k)
    BY <2>2 DEF D!Reached, States, State, Outcomes, Out
  <2>4. Outcomes[i][k] \in {{}, {Failed}}
    BY <1>3 DEF Outcomes
  <2>5. D!Fail(i)
    BY <1>3, <2>3, <2>4 DEF D!Fail, Outcomes, Out
  <2> QED
    BY <2>5 DEF D!Next, AbstractStep
<1> QED
  BY <1>2, <1>3

-----------------------------------------------------------------------------
(***************************************************************************)
(* Every step of the engine is a step of Durable, or none.                 *)
(***************************************************************************)
LEMMA ElapseDurable ==
  ASSUME Reliable, DurableInv, NEW i \in Ids, NEW n \in 1..Len(events[i]), Elapse(i, n)
  PROVE  AbstractStep
<1> ReplayInv /\ Inv /\ TypeOK /\ Once
  BY DEF DurableInv, ReplayInv, BackedInv, Inv
<1>1. n \notin elapsed[i] /\ UNCHANGED <<status, events>> /\ elapsed' = [elapsed EXCEPT ![i] = @ \cup {n}]
  BY DEF Elapse, tables
<1>2. SameStates
  BY <1>1 DEF SameStates, State
<1>3. OnlyOutcome(i)
  <2> SUFFICES ASSUME NEW j \in Ids \ {i}, NEW k \in DOMAIN OnlyBody[j] PROVE Out(j, k)' = Out(j, k)
    BY DEF OnlyOutcome, OnlyBody
  <2>1. events'[j] = events[j] /\ elapsed'[j] = elapsed[j]
    BY <1>1 DEF TypeOK, TablesOK
  <2> QED
    BY <2>1, UnchangedOut
<1>4. elapsed'[i] = elapsed[i] \cup {n}
  BY <1>1 DEF TypeOK, TablesOK
\* Another step's outcome does not depend on this deadline.
<1>5. ASSUME NEW k \in DOMAIN OnlyBody[i], ~(OnlyBody[i][k].op = "sleep" /\ events[i][n].type = "sleep" /\ events[i][n].step = k)
      PROVE  Out(i, k)' = Out(i, k)
  <2>1. CASE OnlyBody[i][k].op = "sleep"
    <3>1. n \notin find_event(events[i], k, "sleep")
      BY <1>5, <2>1 DEF find_event
    <3>2. \A m \in find_event(events[i], k, "sleep") : m \in elapsed'[i] <=> m \in elapsed[i]
      BY <1>4, <3>1
    <3>3. SleepElapsed(i, events[i], k)' = SleepElapsed(i, events[i], k)
      BY <1>1, <3>2 DEF SleepElapsed
    <3> QED
      BY <2>1, <3>3 DEF Out, Outcome, OnlyBody
  <2>2. CASE OnlyBody[i][k].op # "sleep"
    BY <1>1, <2>2 DEF Out, Outcome, OnlyBody, find_completed_event, find_child_started_event
  <2> QED
    BY <2>1, <2>2
<1>6. CASE events[i][n].type # "sleep"
  <2>1. SameOutcomes
    BY <1>3, <1>5, <1>6 DEF SameOutcomes, OnlyOutcome, OnlyBody
  <2> QED
    BY <1>2, <2>1, AbstractStutter
<1>7. CASE events[i][n].type = "sleep"
  <2>1. /\ \E k \in DOMAIN OnlyBody[i] : k = events[i][n].step /\ OnlyBody[i][k].op = "sleep" /\ Before(i, k)
        /\ status[i] \in Live
    BY <1>1, <1>7 DEF DurableInv, SleepsInOrder
  <2>2. PICK k \in DOMAIN OnlyBody[i] : k = events[i][n].step /\ OnlyBody[i][k].op = "sleep" /\ Before(i, k)
    BY <2>1
  <2>3. find_event(events[i], k, "sleep") = {n}
    <3>1. ASSUME NEW m \in 1..Len(events[i]), events[i][m].step = k, events[i][m].type = "sleep" PROVE m = n
      BY <1>7, <2>2, <3>1 DEF Once, OnceIn, Single
    <3>2. \A m \in 1..(n - 1) : m \in 1..Len(events[i]) /\ m # n
      BY DEF TypeOK, TablesOK
    <3> QED
      BY <1>7, <2>2, <3>1, <3>2 DEF find_event
  <2>4. Out(i, k) = {}
    BY <1>1, <2>2, <2>3 DEF Out, Outcome, SleepElapsed
  <2>5. Out(i, k)' = {None}
    BY <1>1, <1>4, <2>2, <2>3 DEF Out, Outcome, SleepElapsed, OnlyBody
  <2>6. OneDecided(i, k, None)
    BY <1>3, <1>5, <2>2, <2>5 DEF OneDecided, OnlyBody
  <2> QED
    BY <1>2, <2>1, <2>2, <2>4, <2>6, AbstractReturn
<1> QED
  BY <1>6, <1>7

\* The hypotheses of a step that changes no deadline.
Steady == TypeOK /\ TypeOK' /\ Grows /\ Unforgotten /\ ElapsedPast /\ UNCHANGED elapsed

LEMMA OthersLearnNothing ==
  ASSUME NEW i \in Ids, UNCHANGED elapsed, \A j \in Ids \ {i} : events'[j] = events[j]
  PROVE  OnlyOutcome(i)
<1> SUFFICES ASSUME NEW j \in Ids \ {i}, NEW k \in DOMAIN OnlyBody[j] PROVE Out(j, k)' = Out(j, k)
  BY DEF OnlyOutcome, OnlyBody
<1>1. events'[j] = events[j] /\ elapsed'[j] = elapsed[j]
  OBVIOUS
<1> QED
  BY <1>1, UnchangedOut

\* An event that tells nothing changes no outcome.
LEMMA LearnsNothing ==
  ASSUME Steady, NEW i \in Ids, NEW e \in EventRecord, events'[i] = Append(events[i], e),
         \A k \in DOMAIN OnlyBody[i] : ~Tells(e, OnlyBody[i][k], k)
  PROVE  \A k \in DOMAIN OnlyBody[i] : Out(i, k)' = Out(i, k)
<1>1. Learns(i, e)
  BY AppendLearns DEF Steady
<1> QED
  BY <1>1 DEF Learns, OnlyBody

LEMMA StartDurable ==
  ASSUME Steady, NEW i \in Ids, start_workflow(i)
  PROVE  AbstractStep
<1> DEFINE e == Event("started", 0, None, None)
<1>1. e \in EventRecord /\ \A k \in DOMAIN OnlyBody[i] : ~Tells(e, OnlyBody[i][k], k)
  BY EventTyped, NoneTyped DEF EventType, Event, Tells, IsReceived
<1>2. events'[i] = Append(events[i], e) /\ \A j \in Ids \ {i} : events'[j] = events[j]
  BY DEF Steady, start_workflow, create_workflow, Appended, TypeOK, TablesOK
<1> HIDE DEF e
<1>3. SameOutcomes
  <2>1. \A k \in DOMAIN OnlyBody[i] : Out(i, k)' = Out(i, k)
    BY <1>1, <1>2, LearnsNothing
  <2>2. OnlyOutcome(i)
    BY <1>2, OthersLearnNothing DEF Steady
  <2> QED
    BY <2>1, <2>2 DEF SameOutcomes, OnlyOutcome, OnlyBody
<1>4. i \in Roots /\ State(i) = "absent" /\ State(i)' = "live" /\ OnlyState(i)
  BY DEF start_workflow, create_workflow, Steady, TypeOK, TablesOK, State, OnlyState, Live
<1> QED
  BY <1>3, <1>4, AbstractStart

\* Which steps a signal decides: those that wait for it.
LEMMA SignalTells ==
  ASSUME Reliable, TypeOK, NEW e, e.type = "signal", e.val # Waiting, NEW i \in Ids, NEW k \in DOMAIN OnlyBody[i]
  PROVE  /\ e.key \in SignalTypes => (Tells(e, OnlyBody[i][k], k) <=> OnlyBody[i][k].op = "signal" /\ OnlyBody[i][k].key = e.key)
         /\ e.key \in Ids => (Tells(e, OnlyBody[i][k], k) <=> OnlyBody[i][k].op = "join" /\ OnlyBody[i][k].key = e.key)
<1> DEFINE c == OnlyBody[i][k]
<1>1. c.op = "signal" => c.key \in SignalTypes
  BY StepKeys
<1>2. c.op = "join" => c.key \in Ids
  <2>1. c.op = "join" => \E m \in DOMAIN OnlyBody[i] : OnlyBody[i][m].op = "spawn" /\ OnlyBody[i][m].key = c.key
    BY StepKeys
  <2>2. \A m \in DOMAIN OnlyBody[i] : OnlyBody[i][m].op = "spawn" => OnlyBody[i][m].key \in Ids
    BY StepKeys
  <2> QED
    BY <2>1, <2>2
<1>3. Tells(e, c, k) <=> c.op \in {"signal", "join"} /\ c.key = e.key
  BY DEF Tells, IsReceived
<1> HIDE DEF c
<1> QED
  BY <1>1, <1>2, <1>3, DistinctAssumption DEF c

LEMMA SignalDurable ==
  ASSUME Reliable, Steady, Inv, EndsForGood, NEW q \in Requests, write_signal(q)
  PROVE  AbstractStep
<1> TypeOK
  BY DEF Steady
<1>1. PICK i \in Ids, type \in SignalTypes : i = SignalTo[q] /\ type = SignalType[q]
  BY ConstantsAssumption
<1> DEFINE e == Event("signal", 0, type, q)
<1>2. e \in EventRecord /\ e.type = "signal" /\ e.key = type /\ e.val = q
  BY EventTyped DEF EventType, Event, Keys, Values
<1>3. events'[i] = Append(events[i], e) /\ \A j \in Ids \ {i} : events'[j] = events[j]
  BY <1>1 DEF write_signal, write_signal_and_wake_workflow, Appended, TypeOK, TablesOK
<1> HIDE DEF e
<1>4. q # Waiting
  BY DistinctAssumption
<1>5. \A k \in DOMAIN OnlyBody[i] : Out(i, k)' = IF k \in Waits(i, "signal", type) THEN {q} ELSE Out(i, k)
  <2>1. Learns(i, e)
    BY <1>2, <1>3, AppendLearns DEF Steady
  <2>2. \A k \in DOMAIN OnlyBody[i] : Tells(e, OnlyBody[i][k], k) <=> OnlyBody[i][k].op = "signal" /\ OnlyBody[i][k].key = type
    BY <1>2, <1>4, SignalTells
  <2> QED
    BY <1>2, <2>1, <2>2 DEF Learns, Waits, OnlyBody
<1>6. OnlyOutcome(i)
  BY <1>3, OthersLearnNothing DEF Steady
<1>7. State(i) = "live" /\ SameStates
  <2>1. status'[i] = "running" /\ \A j \in Ids \ {i} : status'[j] = status[j]
    BY <1>1 DEF write_signal, write_signal_and_wake_workflow, TypeOK, TablesOK
  <2>2. Has(i)
    BY <1>1 DEF write_signal, Inv, RequestsInv
  <2>3. status[i] \in Live
    BY <2>1, <2>2 DEF Has, EndsForGood, Terminal, Live, TypeOK, TablesOK, WorkflowStatus
  <2> QED
    BY <2>1, <2>3 DEF State, SameStates, Live
<1> QED
  BY <1>1, <1>5, <1>6, <1>7, AbstractReceive

\* A completion decides the activity the run is at, no other event a run writes
\* decides anything.
LEMMA WritesDurable ==
  ASSUME Reliable, DurableInv, Steady, NEW s \in Slots, Writes(s)
  PROVE  AbstractStep
<1> ReplayInv /\ Inv /\ TypeOK
  BY DEF DurableInv, ReplayInv, BackedInv, Inv
<1>1. PICK i \in Ids, k \in Nat \ {0} :
         /\ i = wf[s] /\ k = step[s]
         /\ \/ UNCHANGED events
            \/ \E e \in EventRecord : Wrote(s, i, e) /\ OwnEvent(s, k, e)
  BY WritesWhat
<1>2. SameStates
  BY WritesOne DEF rows, SameStates, State
<1>3. CASE UNCHANGED events
  <2>1. SameOutcomes
    <3> SUFFICES ASSUME NEW j \in Ids, NEW m \in DOMAIN OnlyBody[j] PROVE Out(j, m)' = Out(j, m)
      BY DEF SameOutcomes, OnlyBody
    <3>1. events'[j] = events[j] /\ elapsed'[j] = elapsed[j]
      BY <1>3 DEF Steady
    <3> QED
      BY <3>1, UnchangedOut
  <2> QED
    BY <1>2, <2>1, AbstractStutter
<1>4. CASE \E e \in EventRecord : Wrote(s, i, e) /\ OwnEvent(s, k, e)
  <2>1. PICK e \in EventRecord : Wrote(s, i, e) /\ OwnEvent(s, k, e)
    BY <1>4
  <2>2. OnlyOutcome(i) /\ events'[i] = Append(events[i], e)
    BY <2>1, OthersLearnNothing DEF Steady, Wrote
  <2>3. CASE e.type # "completed"
    <3>1. \A m \in DOMAIN OnlyBody[i] : ~Tells(e, OnlyBody[i][m], m)
      BY <2>1, <2>3 DEF OwnEvent, Tells, IsReceived
    <3>2. \A m \in DOMAIN OnlyBody[i] : Out(i, m)' = Out(i, m)
      BY <2>2, <3>1, LearnsNothing
    <3>3. SameOutcomes
      BY <2>2, <3>2 DEF SameOutcomes, OnlyOutcome, OnlyBody
    <3> QED
      BY <1>2, <3>3, AbstractStutter
  <2>4. CASE e.type = "completed"
    <3>1. PICK r \in Results : complete_activity(s, r) /\ e.val = r /\ e.step = k
      BY <2>1, <2>4, NoError DEF OwnEvent, notify_error
    <3>2. pc[s] = "exec" /\ Active(s) /\ pc[s] # "load"
      BY <3>1 DEF complete_activity, Active
    <3>3. /\ status[i] \in Live /\ Before(i, k)
          /\ k \in DOMAIN OnlyBody[i] /\ OnlyBody[i][k].op = "activity"
      <4>1. status[i] = "running" /\ Before(i, k) /\ Body(s) = OnlyBody[i]
        BY <1>1, <3>2, BeforeRun, OneProgram
      <4>2. k \in DOMAIN OnlyBody[i] /\ OnlyBody[i][k].op = "activity"
        BY <1>1, <3>2, <4>1 DEF Inv, RunInv, InStep, Current
      <4> QED
        BY <4>1, <4>2 DEF Live
    <3>4. Out(i, k) = {}
      <4>1. Found(history[s], k, "completed") = {} /\ Ahead(s)
        BY <1>1, <3>2 DEF ReplayInv, RunLog, Undone
      <4>2. "completed" \in Own \ Late(pc[s])
        BY <3>2 DEF Own, Late
      <4>3. Found(events[i], k, "completed") = {}
        BY <1>1, <3>2, <4>1, <4>2, NothingNew
      <4>4. find_event(events[i], k, "completed") = {}
        <5>1. Len(events[i]) \in Nat
          BY DEF TypeOK, TablesOK
        <5> QED
          BY <4>3, <5>1, FindsAny
      <4> QED
        BY <3>3, <4>4 DEF Out, Outcome, find_completed_event
    <3>5. Learns(i, e)
      BY <2>2, AppendLearns DEF Steady
    <3>6. \A m \in DOMAIN OnlyBody[i] : Out(i, m)' = IF m \in {k} THEN {r} ELSE Out(i, m)
      <4>1. \A m \in DOMAIN OnlyBody[i] : Tells(e, OnlyBody[i][m], m) => m = k
        BY <2>4, <3>1 DEF Tells, IsReceived
      <4>2. Tells(e, OnlyBody[i][k], k)
        BY <2>4, <3>1, <3>3 DEF Tells
      <4> QED
        BY <3>1, <3>3, <3>4, <3>5, <4>1, <4>2 DEF Learns, OnlyBody
    <3>7. OneDecided(i, k, r)
      BY <2>2, <3>6 DEF OneDecided
    <3> QED
      BY <1>2, <3>3, <3>4, <3>7, AbstractReturn
  <2> QED
    BY <2>3, <2>4
<1> QED
  BY <1>1, <1>3, <1>4

LEMMA SpawnDurable ==
  ASSUME Reliable, DurableInv, Steady, NEW s \in Slots, spawn_child(s)
  PROVE  AbstractStep
<1> ReplayInv /\ Inv /\ TypeOK /\ SpawnInv
  BY DEF DurableInv, ReplayInv, BackedInv, Inv
<1>1. At(s, "spawn") /\ AtStep(s)
  BY DEF spawn_child, At
<1>2. PICK i \in Ids, k \in Nat \ {0} : i = wf[s] /\ k = step[s] /\ Active(s)
  BY <1>1, CurrentTyped DEF TypeOK, RunsOK
<1>3. status[i] \in Live /\ Before(i, k) /\ k \in DOMAIN OnlyBody[i] /\ OnlyBody[i][k].op = "spawn" /\ Current(s) = OnlyBody[i][k]
  <2>1. status[i] = "running" /\ Before(i, k) /\ Body(s) = OnlyBody[i]
    BY <1>2, BeforeRun, OneProgram
  <2>2. Current(s) = OnlyBody[i][k] /\ k \in DOMAIN OnlyBody[i]
    BY <1>1, <1>2, <2>1, CurrentTyped DEF Current
  <2> QED
    BY <1>1, <2>1, <2>2 DEF At, Live
<1>4. PICK c \in Ids : c = OnlyBody[i][k].key /\ c # i
  BY <1>3, StepKeys
<1>5. create_child_workflow(i, c, k)
  BY <1>2, <1>3, <1>4 DEF spawn_child
<1>6. CASE status[c] # "absent"
  <2>1. UNCHANGED <<status, events>>
    BY <1>5, <1>6 DEF create_child_workflow, tables
  <2>2. SameStates
    BY <2>1 DEF SameStates, State
  <2>3. SameOutcomes
    <3> SUFFICES ASSUME NEW j \in Ids, NEW m \in DOMAIN OnlyBody[j] PROVE Out(j, m)' = Out(j, m)
      BY DEF SameOutcomes, OnlyBody
    <3>1. events'[j] = events[j] /\ elapsed'[j] = elapsed[j]
      BY <2>1 DEF Steady
    <3> QED
      BY <3>1, UnchangedOut
  <2> QED
    BY <2>2, <2>3, AbstractStutter
<1>7. CASE status[c] = "absent"
  <2> DEFINE e == Event("started", 0, i, None)
             f == Event("child_started", k, c, c)
  <2>1. /\ e \in EventRecord /\ e.type = "started"
        /\ f \in EventRecord /\ f.type = "child_started" /\ f.step = k /\ f.val = c
    BY EventTyped, NoneTyped DEF EventType, Event, Keys, Values
  <2>2. /\ events'[c] = Append(events[c], e) /\ events'[i] = Append(events[i], f)
        /\ \A j \in Ids \ {c, i} : events'[j] = events[j]
        /\ status' = [status EXCEPT ![c] = "running"]
    BY <1>4, <1>5, <1>7 DEF create_child_workflow
  <2> HIDE DEF e, f
  <2>3. \A m \in DOMAIN OnlyBody[c] : Out(c, m)' = Out(c, m)
    <3>1. \A m \in DOMAIN OnlyBody[c] : ~Tells(e, OnlyBody[c][m], m)
      BY <2>1 DEF Tells, IsReceived
    <3> QED
      BY <2>1, <2>2, <3>1, LearnsNothing
  <2>4. OnlyOutcome(i)
    <3> SUFFICES ASSUME NEW j \in Ids \ {i, c}, NEW m \in DOMAIN OnlyBody[j] PROVE Out(j, m)' = Out(j, m)
      BY <2>3 DEF OnlyOutcome, OnlyBody
    <3>1. events'[j] = events[j] /\ elapsed'[j] = elapsed[j]
      BY <2>2 DEF Steady
    <3> QED
      BY <3>1, UnchangedOut
  <2>5. Out(i, k) = {}
    <3>1. PICK v \in Versions : Program[v] = OnlyBody
      BY OneProgram DEF Reliable
    <3>2. ASSUME NEW n \in find_event(events[i], k, "child_started") PROVE FALSE
      <4>1. n \in 1..Len(events[i]) /\ IsStarted(events[i][n]) /\ events[i][n].step = k /\ events[i][n].type = "child_started"
        BY <3>2 DEF find_event, IsStarted
      <4>2. events[i][n].key = c
        BY <1>3, <1>4, <3>1, <4>1, StartedAt
      <4>3. ChildOf(c, i)
        BY <4>1, <4>2 DEF Inv, TablesInv, SitesInv
      <4> QED
        BY <1>7, <4>3 DEF ChildOf, Has
    <3> QED
      BY <1>3, <3>2 DEF Out, Outcome, find_child_started_event
  <2>6. OneDecided(i, k, c)
    <3>1. Learns(i, f)
      BY <2>1, <2>2, AppendLearns DEF Steady
    <3>2. \A m \in DOMAIN OnlyBody[i] : Tells(f, OnlyBody[i][m], m) => m = k
      BY <2>1 DEF Tells, IsReceived
    <3>3. Tells(f, OnlyBody[i][k], k)
      BY <1>3, <2>1 DEF Tells
    <3>4. \A m \in DOMAIN OnlyBody[i] : Out(i, m)' = IF m \in {k} THEN {c} ELSE Out(i, m)
      BY <1>3, <2>1, <2>5, <3>1, <3>2, <3>3 DEF Learns, OnlyBody
    <3> QED
      BY <2>4, <3>4 DEF OneDecided
  <2>7. State(c) = "absent" /\ State(c)' = "live" /\ OnlyState(c)
    BY <1>7, <2>2 DEF State, OnlyState, Live, TypeOK, TablesOK
  <2> QED
    BY <1>3, <1>4, <2>5, <2>6, <2>7, AbstractSpawn
<1> QED
  BY <1>6, <1>7

\* Who joins a workflow is its parent.
LEMMA JoinerIsParent ==
  ASSUME Reliable, Inv, NEW i \in Ids, status[i] # "absent", NEW j \in Ids, NEW k \in DOMAIN OnlyBody[j],
         OnlyBody[j][k].op = "join", OnlyBody[j][k].key = i
  PROVE  j = events[i][1].key /\ j # i
<1> TypeOK
  BY DEF Inv
<1>1. PICK m \in DOMAIN OnlyBody[j] : OnlyBody[j][m].op = "spawn" /\ OnlyBody[j][m].key = i
  BY StepKeys
<1>2. i \notin Roots /\ j # i
  BY <1>1, StepKeys
<1>3. PICK w \in Versions : Program[w] = OnlyBody
  BY OneProgram DEF Reliable
<1>4. PICK v \in Versions, p \in Ids : \E n \in DOMAIN Program[v][p] :
        Program[v][p][n].op = "spawn" /\ Program[v][p][n].key = i /\ events[i][1].key = p
  BY <1>2 DEF Inv, TablesInv, OriginInv, Origin, Has
<1>5. p = j
  BY <1>1, <1>3, <1>4, ChildIdAssumption
<1> QED
  BY <1>2, <1>4, <1>5

LEMMA EndsDurable ==
  ASSUME Reliable, DurableInv, Steady, EndsForGood, NEW s \in Slots, EndsRun(s)
  PROVE  AbstractStep
<1> ReplayInv /\ Inv /\ TypeOK
  BY DEF DurableInv, ReplayInv, BackedInv, Inv
<1>1. /\ Active(s) /\ pc[s] # "load" /\ status[wf[s]] = "running"
      /\ \/ finish(s) /\ step[s] > Len(OnlyBody[wf[s]])
         \/ /\ fail(s) \/ exhaust_retries(s)
            /\ step[s] \in DOMAIN OnlyBody[wf[s]]
            /\ Out(wf[s], step[s]) \in {{}, {Failed}}
  BY EndsWhere
<1>2. PICK i \in Ids, k \in Nat \ {0} : i = wf[s] /\ k = step[s] /\ Before(i, k) /\ status[i] = "running"
  BY <1>1, BeforeRun
<1>3. PICK p : p = parent_info(s) /\ p = events[i][1].key
  BY <1>1, <1>2, ParentInfo
<1>4. PICK type \in {"workflow_completed", "workflow_failed"}, final \in Terminal, v \in {Done, Failed} :
        /\ write_terminal_workflow_event(i, type, final, p, v)
        /\ \/ k > Len(OnlyBody[i]) /\ final = "completed" /\ v = Done
           \/ k \in DOMAIN OnlyBody[i] /\ Out(i, k) \in {{}, {Failed}} /\ final = "failed" /\ v = Failed
  <2>1. CASE finish(s) /\ step[s] > Len(OnlyBody[wf[s]])
    BY <1>2, <1>3, <2>1 DEF finish, complete_workflow, Terminal
  <2>2. CASE /\ fail(s) \/ exhaust_retries(s)
             /\ step[s] \in DOMAIN OnlyBody[wf[s]] /\ Out(wf[s], step[s]) \in {{}, {Failed}}
    BY <1>2, <1>3, <2>2 DEF fail, exhaust_retries, fail_workflow, Terminal
  <2> QED
    BY <1>1, <2>1, <2>2
<1>5. /\ \A j \in Ids : events'[j] = IF j = i THEN Append(events[j], Event(type, 0, None, None))
                                     ELSE IF j = p THEN Append(events[j], Event("signal", 0, i, v)) ELSE events[j]
      /\ \A j \in Ids : status'[j] = IF j = i THEN final ELSE IF j = p THEN "running" ELSE status[j]
  BY <1>4 DEF write_terminal_workflow_event
<1> DEFINE e == Event(type, 0, None, None)
           f == Event("signal", 0, i, v)
<1>6. /\ e \in EventRecord /\ e.type \notin {"completed", "child_started", "signal"}
      /\ f \in EventRecord /\ f.type = "signal" /\ f.key = i /\ f.val = v /\ v # Waiting
  BY EventTyped, NoneTyped, DistinctAssumption DEF EventType, Event, Keys, Values
<1> HIDE DEF e, f
\* Nobody but the parent joins i.
<1>7. ASSUME NEW j \in Ids, j # p \/ j = i PROVE Waits(j, "join", i) = {}
  <2>1. status[i] # "absent"
    BY <1>2
  <2> QED
    BY <1>3, <1>7, <2>1, JoinerIsParent DEF Waits
<1>8. ASSUME NEW j \in Ids, NEW m \in DOMAIN OnlyBody[j]
      PROVE  Out(j, m)' = IF m \in Waits(j, "join", i) THEN {v} ELSE Out(j, m)
  <2>1. CASE j = i
    <3>1. \A n \in DOMAIN OnlyBody[i] : ~Tells(e, OnlyBody[i][n], n)
      BY <1>6 DEF Tells, IsReceived
    <3>2. events'[i] = Append(events[i], e)
      BY <1>5 DEF e
    <3>3. Out(i, m)' = Out(i, m)
      BY <1>6, <2>1, <3>1, <3>2, LearnsNothing
    <3> QED
      BY <1>7, <2>1, <3>3
  <2>2. CASE j # i /\ j # p
    <3>1. events'[j] = events[j] /\ elapsed'[j] = elapsed[j]
      BY <1>5, <2>2 DEF Steady
    <3>2. Out(j, m)' = Out(j, m)
      BY <3>1, UnchangedOut
    <3> QED
      BY <1>7, <2>2, <3>2
  <2>3. CASE j # i /\ j = p
    <3>1. events'[j] = Append(events[j], f)
      BY <1>5, <2>3 DEF f
    <3>2. Learns(j, f)
      BY <1>6, <3>1, AppendLearns DEF Steady
    <3>3. Tells(f, OnlyBody[j][m], m) <=> OnlyBody[j][m].op = "join" /\ OnlyBody[j][m].key = i
      BY <1>6, SignalTells
    <3> QED
      BY <1>6, <3>2, <3>3 DEF Learns, Waits, OnlyBody
  <2> QED
    BY <2>1, <2>2, <2>3
<1>9. State(i) = "live" /\ State(i)' = final /\ OnlyState(i)
  <2>1. State(i) = "live"
    BY <1>2 DEF State, Live
  <2>2. State(i)' = final
    BY <1>5 DEF State, Terminal, Live
  <2>3. ASSUME NEW j \in Ids \ {i} PROVE State(j)' = State(j)
    <3>1. CASE j = p
      <4>1. status'[j] = "running"
        BY <1>5, <3>1
      <4>2. Has(j)
        BY <1>2, <1>3, <3>1 DEF Inv, TablesInv, RowsInv, Has
      <4>3. status[j] \in Live
        BY <4>1, <4>2 DEF Has, EndsForGood, Terminal, Live, TypeOK, TablesOK, WorkflowStatus
      <4> QED
        BY <4>1, <4>3 DEF State, Live
    <3>2. CASE j # p
      BY <1>5, <3>2 DEF State
    <3> QED
      BY <3>1, <3>2
  <2> QED
    BY <2>1, <2>2, <2>3 DEF OnlyState
<1>10. D!Ends(i, final, v)
  BY <1>8, <1>9, AbstractEnds
<1> QED
  BY <1>2, <1>4, <1>10, AbstractEnd DEF Live

LEMMA StepDurable ==
  ASSUME Reliable, DurableInv, [Next]_vars, EndsForGood
  PROVE  AbstractStep
<1> ReplayInv /\ Inv /\ TypeOK
  BY DEF DurableInv, ReplayInv, BackedInv, Inv
<1>1. TypeOK'
  BY NextDurable DEF DurableInv, ReplayInv, BackedInv, Inv
<1>2. Grows /\ Unforgotten /\ ElapsedPast
  BY <1>1, NextTable, ElapsedStays DEF TableStep, DurableInv
<1>3. ASSUME NEW i \in Ids, NEW n \in 1..Len(events[i]), Elapse(i, n) PROVE AbstractStep
  BY <1>3, ElapseDurable
<1>4. CASE UNCHANGED elapsed
  <2>1. Steady
    BY <1>1, <1>2, <1>4 DEF Steady
  <2>2. ASSUME UNCHANGED <<status, events>> PROVE AbstractStep
    <3>1. SameStates
      BY <2>2 DEF SameStates, State
    <3>2. SameOutcomes
      BY <1>4, <2>2, UnchangedOut DEF SameOutcomes, OnlyBody
    <3> QED
      BY <3>1, <3>2, AbstractStutter
  <2>3. ASSUME NEW i \in Ids, start_workflow(i) PROVE AbstractStep
    BY <2>1, <2>3, StartDurable
  <2>4. ASSUME NEW q \in Requests, write_signal(q) PROVE AbstractStep
    BY <2>1, <2>4, SignalDurable
  <2>5. ASSUME NEW s \in Slots, Writes(s) PROVE AbstractStep
    BY <2>1, <2>5, WritesDurable
  <2>6. ASSUME NEW s \in Slots, spawn_child(s) PROVE AbstractStep
    BY <2>1, <2>6, SpawnDurable
  <2>7. ASSUME NEW s \in Slots, EndsRun(s) PROVE AbstractStep
    BY <2>1, <2>7, EndsDurable
  <2>8. ASSUME NEW s \in Slots, mark_waiting(s) PROVE AbstractStep
    <3>1. PICK i \in Ids : i = wf[s] /\ status[i] = "running"
      BY <2>8, BeforeRun DEF mark_waiting, Active
    <3>2. SameStates
      BY <2>8, <3>1 DEF mark_waiting, mark_workflow_waiting, SameStates, State, Live, TypeOK, TablesOK
    <3>3. SameOutcomes
      BY <1>4, <2>8, UnchangedOut DEF mark_waiting, mark_workflow_waiting, SameOutcomes, OnlyBody
    <3> QED
      BY <3>2, <3>3, AbstractStutter
  <2> QED
    BY <2>2, <2>3, <2>4, <2>5, <2>6, <2>7, <2>8, StepKind DEF TableKind
<1> QED
  BY <1>3, <1>4, ClockMoves

LEMMA StartsDurable ==
  ASSUME Reliable, Init
  PROVE  D!Init
<1>1. \A i \in Ids : status[i] = "absent" /\ Len(events[i]) = 0 /\ elapsed[i] = {}
  BY DEF Init, TablesInit
<1>2. States = [i \in Ids |-> "absent"]
  BY <1>1 DEF States, State, Live
<1>3. \A i \in Ids : \A k \in DOMAIN OnlyBody[i] : Out(i, k) = {}
  BY <1>1 DEF Out, Outcome, SleepElapsed, find_completed_event, find_child_started_event, find_event, find_signal_event
<1>4. Outcomes = [i \in Ids |-> [k \in DOMAIN OnlyBody[i] |-> {}]]
  BY <1>3 DEF Outcomes
<1> QED
  BY <1>2, <1>4 DEF D!Init, States, State, Outcomes, Out

\* Whatever crashes, stalls apart, and however often a workflow is replayed, it is
\* executed as if by one worker that never fails: each step of the code is decided
\* once, in order, and the parent learns the end of its child (README.md, "Execution
\* Model"; worker/executor.py, worker/runner.py, db/queries.py).
THEOREM DurablyExecuted ==
  ASSUME Reliable
  PROVE  Spec /\ NeverRevived => ExecutesDurably
<1>1. Init => DurableInv /\ D!Init
  BY InitDurable, StartsDurable
<1>2. DurableInv /\ [Next]_vars => DurableInv'
  BY NextDurable
<1>3. DurableInv /\ [Next]_vars /\ [EndsForGood]_vars => [D!Next]_(D!vars)
  <2> SUFFICES ASSUME DurableInv, [Next]_vars, [EndsForGood]_vars PROVE [D!Next]_(D!vars)
    OBVIOUS
  <2>1. EndsForGood
    BY DEF EndsForGood, vars
  <2>2. AbstractStep
    BY <2>1, StepDurable
  <2> QED
    BY <2>2 DEF AbstractStep
<1> QED
  BY <1>1, <1>2, <1>3, PTL DEF Spec, NeverRevived, ExecutesDurably, D!Spec

-----------------------------------------------------------------------------
(***************************************************************************)
(* Programs whose workflows end for good.  What revives a workflow that    *)
(* ended is a signal accepted before the end or a child that ends after    *)
(* it.  Neither exists where a workflow takes its signals and joins its    *)
(* children before any step at which it may end.                           *)
(***************************************************************************)
\* Where a run may end its workflow: past all steps, or at a step that may fail.
MayEnd(i, k) == k \in DOMAIN OnlyBody[i] => OnlyBody[i][k].op \in {"activity", "raise", "join"}

\* Clients send a workflow one signal of a type, and by a step at which the workflow may
\* end it has waited for all of them and joined every child it spawned.
Tidy ==
  /\ \A q, r \in Requests : (SignalTo[q] = SignalTo[r] /\ SignalType[q] = SignalType[r]) => q = r
  /\ \A i \in Ids : \A k \in 1..(Len(OnlyBody[i]) + 1) : MayEnd(i, k) =>
       /\ \A q \in Requests : SignalTo[q] = i =>
            \E m \in 1..(k - 1) : OnlyBody[i][m].op = "signal" /\ OnlyBody[i][m].key = SignalType[q]
       /\ \A m \in 1..(k - 1) : OnlyBody[i][m].op = "spawn" =>
            \E n \in DOMAIN OnlyBody[i] :
              n <= k /\ OnlyBody[i][n].op = "join" /\ OnlyBody[i][n].key = OnlyBody[i][m].key

\* A signal in a log is that of a request that was answered.
SignalsSent ==
  \A i \in Ids, type \in SignalTypes : SignalReceived(i, type) =>
    \E q \in Requests : SignalTo[q] = i /\ SignalType[q] = type /\ request[q] = "sent"

\* A child is spawned when all steps before the spawning one are decided.
SpawnsInOrder ==
  \A i \in Ids : \A n \in 1..Len(events[i]) : IsStarted(events[i][n]) =>
    \A k \in Nat : k = events[i][n].step => Before(i, k)

\* When a workflow has ended, no signal to it is on its way and its children have ended.
Finished ==
  \A i \in Ids : status[i] \in Terminal =>
    /\ \A q \in Requests : SignalTo[q] = i => request[q] # "checked"
    /\ \A j \in Ids : ChildOf(j, i) => status[j] \in Terminal

TidyInv == DurableInv /\ ChildTold /\ SignalsSent /\ SpawnsInOrder /\ Finished

\* A run ends its workflow at a step where it may, all steps before it decided.
LEMMA EndsAt ==
  ASSUME Reliable, DurableInv, NEW s \in Slots, EndsRun(s)
  PROVE  \E k \in 1..(Len(OnlyBody[wf[s]]) + 1) :
           /\ MayEnd(wf[s], k) /\ Before(wf[s], k)
           /\ k \in DOMAIN OnlyBody[wf[s]] =>
                /\ Out(wf[s], k) \in {{}, {Failed}}
                /\ OnlyBody[wf[s]][k].op = "join" => Out(wf[s], k) = {Failed}
<1> ReplayInv /\ Inv /\ TypeOK
  BY DEF DurableInv, ReplayInv, BackedInv, Inv
<1>1. Active(s)
  BY EndsWhere
<1>2. PICK i \in Ids, f \in Nat \ {0} : i = wf[s] /\ f = step[s] /\ Before(i, f) /\ Body(s) = OnlyBody[i]
  BY <1>1, BeforeRun, OneProgram
<1>3. Len(OnlyBody[i]) \in Nat /\ DOMAIN OnlyBody[i] = 1..Len(OnlyBody[i])
  BY OneProgram
<1>4. CASE f > Len(OnlyBody[i])
  <2>1. PICK k \in Nat : k = Len(OnlyBody[i]) + 1
    BY <1>3
  <2>2. k \in 1..(Len(OnlyBody[i]) + 1) /\ k \notin DOMAIN OnlyBody[i] /\ 1..(k - 1) \subseteq 1..(f - 1)
    BY <1>3, <1>4, <2>1
  <2>3. MayEnd(i, k) /\ Before(i, k)
    BY <1>2, <2>2 DEF MayEnd, Before
  <2> QED
    BY <1>2, <2>2, <2>3
<1>5. CASE (fail(s) \/ exhaust_retries(s)) /\ f \in DOMAIN OnlyBody[i] /\ Out(i, f) \in {{}, {Failed}}
  <2>1. f \in 1..(Len(OnlyBody[i]) + 1)
    BY <1>3, <1>5
  <2>2. OnlyBody[i][f].op \in {"activity", "raise"} \/ (OnlyBody[i][f].op = "join" /\ Out(i, f) = {Failed})
    <3>1. CASE fail(s)
      BY <1>2, <3>1 DEF fail, DurableInv, Failing, Current, Out
    <3>2. CASE exhaust_retries(s)
      BY <1>2, <3>2 DEF exhaust_retries, Inv, RunInv, InStep, Current
    <3> QED
      BY <1>5, <3>1, <3>2
  <2>3. MayEnd(i, f)
    BY <2>2 DEF MayEnd
  <2> QED
    BY <1>2, <1>5, <2>1, <2>2, <2>3
<1> QED
  BY <1>2, <1>4, <1>5, EndsWhere

\* What a decided wait waited for has come.
LEMMA WaitDecided ==
  ASSUME NEW i \in Ids, NEW k, OnlyBody[i][k].op \in {"signal", "join"}, Out(i, k) # {}
  PROVE  \E n \in 1..Len(events[i]) : IsReceived(events[i][n], OnlyBody[i][k].key)
<1>1. Out(i, k) = {events[i][n].val : n \in find_signal_event(events[i], OnlyBody[i][k].key)}
  BY DEF Out, Outcome
<1> QED
  BY <1>1 DEF find_signal_event

\* A workflow that ends has taken its signals, and its children have ended.
LEMMA EndsTidy ==
  ASSUME Reliable, Tidy, TidyInv, NEW s \in Slots, EndsRun(s)
  PROVE  /\ \A q \in Requests : SignalTo[q] = wf[s] => request[q] # "checked"
         /\ \A j \in Ids : ChildOf(j, wf[s]) => status[j] \in Terminal
<1> DurableInv /\ ReplayInv /\ Inv /\ TypeOK /\ SpawnInv
  BY DEF TidyInv, DurableInv, ReplayInv, BackedInv, Inv
<1>1. PICK i \in Ids : i = wf[s]
  BY EndsWhere, BeforeRun
<1>2. PICK k \in 1..(Len(OnlyBody[i]) + 1) :
        /\ MayEnd(i, k) /\ Before(i, k)
        /\ k \in DOMAIN OnlyBody[i] =>
             /\ Out(i, k) \in {{}, {Failed}}
             /\ OnlyBody[i][k].op = "join" => Out(i, k) = {Failed}
  BY <1>1, EndsAt
<1>3. Len(OnlyBody[i]) \in Nat /\ DOMAIN OnlyBody[i] = 1..Len(OnlyBody[i]) /\ k \in Nat \ {0}
  BY OneProgram
<1>4. ASSUME NEW m \in 1..(k - 1) PROVE Out(i, m) # {}
  BY <1>2, <1>4 DEF Before, Decided
<1>5. ASSUME NEW q \in Requests, SignalTo[q] = i PROVE request[q] # "checked"
  <2>1. PICK m \in 1..(k - 1) : OnlyBody[i][m].op = "signal" /\ OnlyBody[i][m].key = SignalType[q]
    BY <1>2, <1>5 DEF Tidy
  <2>2. SignalReceived(i, SignalType[q]) /\ SignalType[q] \in SignalTypes
    <3>1. Out(i, m) # {}
      BY <1>4
    <3>2. \E n \in 1..Len(events[i]) : IsReceived(events[i][n], OnlyBody[i][m].key)
      BY <2>1, <3>1, WaitDecided
    <3> QED
      BY <2>1, <3>2, ConstantsAssumption DEF SignalReceived
  <2>3. PICK r \in Requests : SignalTo[r] = i /\ SignalType[r] = SignalType[q] /\ request[r] = "sent"
    BY <2>2 DEF TidyInv, SignalsSent
  <2>4. r = q
    BY <1>5, <2>3 DEF Tidy
  <2> QED
    BY <2>3, <2>4
<1>6. ASSUME NEW j \in Ids, ChildOf(j, i) PROVE status[j] \in Terminal
  <2>1. PICK n \in 1..Len(events[i]) : IsStarted(events[i][n]) /\ events[i][n].key = j
    BY <1>6 DEF SpawnInv
  <2>2. PICK v \in Versions : /\ events[i][n].step \in DOMAIN Program[v][i]
                              /\ Program[v][i][events[i][n].step].op = "spawn"
                              /\ Program[v][i][events[i][n].step].key = j
    BY <2>1 DEF Inv, TablesInv, SitesInv, IsStarted
  <2>3. PICK m \in DOMAIN OnlyBody[i] :
          m = events[i][n].step /\ OnlyBody[i][m].op = "spawn" /\ OnlyBody[i][m].key = j
    BY <2>2, OneProgram
  <2>4. Before(i, m)
    BY <2>1, <2>3, StepAt DEF TidyInv, SpawnsInOrder
  <2>5. m \in 1..(k - 1)
    <3>1. m # k
      BY <1>2, <2>3 DEF MayEnd
    <3>2. ASSUME m > k PROVE FALSE
      <4>1. k \in DOMAIN OnlyBody[i] /\ k \in 1..(m - 1)
        BY <1>3, <2>3, <3>2
      <4> QED
        BY <1>2, <2>4, <4>1 DEF Before, Decided
    <3> QED
      BY <1>3, <2>3, <3>1, <3>2
  <2>6. PICK w \in DOMAIN OnlyBody[i] : w <= k /\ OnlyBody[i][w].op = "join" /\ OnlyBody[i][w].key = j
    <3>1. \A x \in 1..(k - 1) : OnlyBody[i][x].op = "spawn" =>
            \E w \in DOMAIN OnlyBody[i] :
              w <= k /\ OnlyBody[i][w].op = "join" /\ OnlyBody[i][w].key = OnlyBody[i][x].key
      BY <1>2 DEF Tidy
    <3>2. \E w \in DOMAIN OnlyBody[i] :
            w <= k /\ OnlyBody[i][w].op = "join" /\ OnlyBody[i][w].key = OnlyBody[i][m].key
      BY <2>3, <2>5, <3>1
    <3> QED
      BY <2>3, <3>2
  <2>7. Out(i, w) # {}
    <3>1. CASE w = k
      BY <1>2, <2>6, <3>1
    <3>2. CASE w # k
      <4>1. w \in 1..(k - 1)
        BY <1>3, <2>6, <3>2
      <4> QED
        BY <1>4, <4>1
    <3> QED
      BY <3>1, <3>2
  <2>8. PICK r \in 1..Len(events[i]) : IsReceived(events[i][r], j)
    BY <2>6, <2>7, WaitDecided
  <2> QED
    BY <2>8 DEF TidyInv, ChildTold, Terminal
<1> QED
  BY <1>1, <1>5, <1>6

\* How a signal request goes on.
LEMMA RequestMoves ==
  ASSUME TypeOK, [Next]_vars, NEW q \in Requests, request'[q] # request[q]
  PROVE  \/ send_signal(q) /\ request[q] = "new"
         \/ write_signal(q) /\ request[q] = "checked" /\ request'[q] = "sent"
<1>1. ASSUME NEW s \in Slots, RunStep(s) PROVE UNCHANGED request
  BY <1>1 DEF RunStep, RunnerStep, ActivityStep, SleepStep, WaitStep, SpawnStep,
     run_workflow, finish, raise, fail, replay_activity, DivergenceError, schedule, complete_activity, fail_activity,
     retry, exhaust_retries, wake_up, re_suspend, start_sleep, suspend_sleep, replay_wait, write_marker, mark_waiting,
     already_received, reload, replay_spawn, spawn_child, Received, Await, AwaitDeadline, Return, Suspend
<1>2. ASSUME FaultStep PROVE UNCHANGED request
  BY <1>2 DEF FaultStep, stall, LetLapse, restart, database_error, activity_cancelled, notify_error
<1>3. ASSUME \/ \E i \in Ids : start_workflow(i) \/ ClockStep(i)
             \/ \E s \in Slots : heartbeat(s) \/ \E i \in Ids : claim(s, i)
      PROVE  UNCHANGED request
  BY <1>3 DEF start_workflow, heartbeat, claim, ClockStep, lapse, LetLapse, Elapse
<1>4. ASSUME NEW r \in Requests, send_signal(r) \/ write_signal(r)
      PROVE  \/ send_signal(q) /\ request[q] = "new"
             \/ write_signal(q) /\ request[q] = "checked" /\ request'[q] = "sent"
  <2>1. r = q
    BY <1>4 DEF send_signal, write_signal, TypeOK
  <2> QED
    BY <1>4, <2>1 DEF send_signal, write_signal, TypeOK
<1> QED
  BY <1>1, <1>2, <1>3, <1>4 DEF Next, vars

\* Who adds a signal, a child's start or an end to a log.
LEMMA NewArrivals ==
  ASSUME Inv, [Next]_vars, NEW i \in Ids, NEW n \in 1..Len(events'[i]), n > Len(events[i])
  PROVE  LET e == events'[i][n] IN
         /\ (e.type = "signal" /\ e.val # Waiting) =>
              \/ \E q \in Requests : write_signal(q) /\ SignalTo[q] = i /\ SignalType[q] = e.key
              \/ e.key \in Ids
         /\ IsStarted(e) => \E s \in Slots : spawn_child(s) /\ wf[s] = i /\ step[s] = e.step
         /\ e.type \in {"workflow_completed", "workflow_failed"} =>
              n = Len(events[i]) + 1 /\ \E s \in Slots : EndsRun(s) /\ wf[s] = i
<1> TypeOK
  BY DEF Inv
<1> DEFINE e == events'[i][n]
<1>1. events'[i] # events[i] /\ Len(events[i]) \in Nat
  BY DEF TypeOK, TablesOK
<1>2. ASSUME NEW f \in EventRecord, events'[i] = Append(events[i], f) PROVE e = f /\ n = Len(events[i]) + 1
  BY <1>2, NewEvent, Appending
<1> DEFINE Signals(f) == f.type = "signal" /\ f.val # Waiting
           Ends(f) == f.type \in {"workflow_completed", "workflow_failed"}
           Plain(f) == ~Signals(f) /\ ~IsStarted(f) /\ ~Ends(f)
           Told(f) == ~IsStarted(f) /\ ~Ends(f) /\ f.key \in Ids
           Sent(f) == /\ ~IsStarted(f) /\ ~Ends(f)
                      /\ \E q \in Requests : write_signal(q) /\ SignalTo[q] = i /\ SignalType[q] = f.key
           Spawned(f) == /\ ~Signals(f) /\ ~Ends(f)
                         /\ \E s \in Slots : spawn_child(s) /\ wf[s] = i /\ step[s] = f.step
           Ended(f) == /\ ~Signals(f) /\ ~IsStarted(f) /\ n = Len(events[i]) + 1
                       /\ \E s \in Slots : EndsRun(s) /\ wf[s] = i
           Good(f) == Plain(f) \/ Told(f) \/ Sent(f) \/ Spawned(f) \/ Ended(f)
<1> HIDE DEF e
<1>3. ASSUME NEW j \in Ids, start_workflow(j) PROVE Good(e)
  <2> DEFINE f == Event("started", 0, None, None)
  <2>1. f \in EventRecord /\ Plain(f)
    BY EventTyped, NoneTyped DEF EventType, Event, IsStarted
  <2>2. events'[i] = Append(events[i], f)
    BY <1>1, <1>3 DEF start_workflow, create_workflow, Appended, TypeOK, TablesOK
  <2> HIDE DEF f, Plain
  <2> QED
    BY <1>2, <2>1, <2>2
<1>4. ASSUME NEW q \in Requests, write_signal(q) PROVE Good(e)
  <2> DEFINE f == Event("signal", 0, SignalType[q], q)
  <2>1. f \in EventRecord /\ f.key = SignalType[q] /\ ~IsStarted(f) /\ ~Ends(f)
    BY EventTyped, ConstantsAssumption DEF EventType, Event, Keys, Values, IsStarted
  <2>2. events'[i] = Append(events[i], f) /\ SignalTo[q] = i
    BY <1>1, <1>4 DEF write_signal, write_signal_and_wake_workflow, Appended, TypeOK, TablesOK
  <2> HIDE DEF f, Ends
  <2>3. Sent(f)
    BY <1>4, <2>1, <2>2
  <2> HIDE DEF Sent
  <2> QED
    BY <1>2, <2>1, <2>2, <2>3
<1>5. ASSUME NEW s \in Slots, Writes(s) PROVE Good(e)
  <2>1. PICK f \in EventRecord : /\ events' = Appended(wf[s], f)
                                 /\ f.type \in Own \/ (f.type = "signal" /\ f.val = Waiting)
    BY <1>1, <1>5, WritesOne
  <2>2. events'[i] = Append(events[i], f)
    BY <1>1, <2>1 DEF Appended, TypeOK, TablesOK
  <2>3. Plain(f)
    BY <2>1 DEF Own, IsStarted
  <2> QED
    BY <1>2, <2>2, <2>3
<1>6. ASSUME NEW s \in Slots, spawn_child(s) PROVE Good(e)
  <2>1. PICK c \in Ids, p \in Ids, k \in Nat : c = Current(s).key /\ p = wf[s] /\ k = step[s]
    BY <1>6, CurrentTyped, SpawnKey DEF spawn_child, At, TypeOK, RunsOK
  <2> DEFINE f == Event("started", 0, p, None)
             g == Event("child_started", k, c, c)
  <2>2. /\ f \in EventRecord /\ Plain(f)
        /\ g \in EventRecord /\ ~Signals(g) /\ ~Ends(g) /\ g.step = k
    BY EventTyped, NoneTyped DEF EventType, Event, Keys, Values, IsStarted
  <2>3. events'[i] = Append(events[i], f) \/ (events'[i] = Append(events[i], g) /\ i = p)
    BY <1>1, <1>6, <2>1 DEF spawn_child, create_child_workflow, tables
  <2> HIDE DEF f, g, Plain, Signals, Ends
  <2>4. i = p => Spawned(g)
    BY <1>6, <2>1, <2>2
  <2> HIDE DEF Spawned
  <2> QED
    BY <1>2, <2>2, <2>3, <2>4
<1>7. ASSUME NEW s \in Slots, mark_waiting(s) PROVE FALSE
  BY <1>1, <1>7 DEF mark_waiting, mark_workflow_waiting
<1>8. ASSUME NEW s \in Slots, EndsRun(s) PROVE Good(e)
  <2>1. wf[s] \in Ids
    BY <1>8, RunHas DEF EndsRun, finish, fail, exhaust_retries, Active
  <2>2. PICK type \in {"workflow_completed", "workflow_failed"}, final \in Terminal, v \in {Done, Failed}, p \in {parent_info(s)} :
          write_terminal_workflow_event(wf[s], type, final, p, v)
    BY <1>8 DEF EndsRun, finish, fail, exhaust_retries, complete_workflow, fail_workflow, Terminal
  <2> DEFINE f == Event(type, 0, None, None)
             g == Event("signal", 0, wf[s], v)
  <2>3. /\ f \in EventRecord /\ ~Signals(f) /\ ~IsStarted(f)
        /\ g \in EventRecord /\ Told(g)
    BY <2>1, EventTyped, NoneTyped DEF EventType, Event, Keys, IsStarted
  <2>4. (events'[i] = Append(events[i], f) /\ i = wf[s]) \/ events'[i] = Append(events[i], g)
    BY <1>1, <2>2 DEF write_terminal_workflow_event
  <2> HIDE DEF f, g, Told, Signals
  <2>5. (events'[i] = Append(events[i], f) /\ i = wf[s]) => Ended(f)
    BY <1>2, <1>8, <2>3
  <2> HIDE DEF Ended
  <2> QED
    BY <1>2, <2>3, <2>4, <2>5
<1>9. Good(e)
  BY <1>1, <1>3, <1>4, <1>5, <1>6, <1>7, <1>8, StepKind DEF TableKind
<1> QED
  BY <1>9 DEF e, IsStarted

\* Nothing revives a workflow that has taken its signals and joined its children.
LEMMA TidyEndsForGood ==
  ASSUME Reliable, TidyInv, [Next]_vars
  PROVE  EndsForGood
<1> DurableInv /\ ReplayInv /\ Inv /\ TypeOK /\ Running
  BY DEF TidyInv, DurableInv, ReplayInv, BackedInv, Inv
<1> SUFFICES ASSUME NEW i \in Ids, status[i] \in Terminal, status'[i] # status[i] PROVE FALSE
  BY DEF EndsForGood
<1>1. status[i] # "absent" /\ status[i] # "running" /\ status[i] \notin Live
  BY DEF Terminal, Live
<1>2. ASSUME NEW j \in Ids, start_workflow(j) PROVE FALSE
  BY <1>1, <1>2 DEF start_workflow, create_workflow, TypeOK, TablesOK
<1>3. ASSUME NEW q \in Requests, write_signal(q) PROVE FALSE
  <2>1. request[q] = "checked" /\ SignalTo[q] = i
    BY <1>3 DEF write_signal, write_signal_and_wake_workflow, TypeOK, TablesOK
  <2> QED
    BY <2>1 DEF TidyInv, Finished
<1>4. ASSUME NEW s \in Slots, Writes(s) PROVE FALSE
  BY <1>4, WritesOne DEF rows
<1>5. ASSUME NEW s \in Slots, spawn_child(s) PROVE FALSE
  BY <1>1, <1>5 DEF spawn_child, create_child_workflow, tables, TypeOK, TablesOK
<1>6. ASSUME NEW s \in Slots, mark_waiting(s) PROVE FALSE
  <2>1. Active(s) /\ wf[s] = i
    BY <1>6 DEF mark_waiting, mark_workflow_waiting, Active, TypeOK, TablesOK
  <2> QED
    BY <1>1, <2>1 DEF Running
<1>7. ASSUME NEW s \in Slots, EndsRun(s) PROVE FALSE
  <2>1. Active(s) /\ pc[s] # "load" /\ wf[s] \in Ids /\ status[wf[s]] = "running"
    BY <1>7, EndsWhere, BeforeRun
  <2>2. parent_info(s) = events[wf[s]][1].key
    BY <2>1, ParentInfo
  <2>3. wf[s] = i \/ parent_info(s) = i
    BY <1>7 DEF EndsRun, finish, fail, exhaust_retries, complete_workflow, fail_workflow, write_terminal_workflow_event
  <2>4. ChildOf(wf[s], i)
    BY <1>1, <2>1, <2>2, <2>3 DEF ChildOf, Has
  <2>5. status[wf[s]] \in Terminal
    BY <2>1, <2>4 DEF TidyInv, Finished
  <2> QED
    BY <2>1, <2>5 DEF Terminal
<1> QED
  BY <1>2, <1>3, <1>4, <1>5, <1>6, <1>7, StepKind DEF TableKind

LEMMA NextSignalsSent ==
  ASSUME Inv, TypeOK', Grows, SignalsSent, [Next]_vars
  PROVE  SignalsSent'
<1> TypeOK
  BY DEF Inv
<1> SUFFICES ASSUME NEW i \in Ids, NEW type \in SignalTypes, SignalReceived(i, type)'
             PROVE  \E q \in Requests : SignalTo[q] = i /\ SignalType[q] = type /\ request'[q] = "sent"
  BY DEF SignalsSent
<1>1. PICK n \in 1..Len(events'[i]) : IsReceived(events'[i][n], type)
  BY DEF SignalReceived, IsReceived
<1>2. CASE n > Len(events[i])
  <2>1. PICK q \in Requests : write_signal(q) /\ SignalTo[q] = i /\ SignalType[q] = type
    BY <1>1, <1>2, NewArrivals, DistinctAssumption DEF IsReceived
  <2>2. request'[q] = "sent"
    BY <2>1 DEF write_signal, TypeOK
  <2> QED
    BY <2>1, <2>2
<1>3. CASE ~(n > Len(events[i]))
  <2>1. n \in 1..Len(events[i]) /\ events'[i][n] = events[i][n]
    <3>1. Len(events[i]) \in Nat /\ Len(events'[i]) \in Nat
      BY DEF TypeOK, TablesOK
    <3>2. n \in 1..Len(events[i])
      BY <1>3, <3>1
    <3> QED
      BY <3>2 DEF Grows
  <2>2. SignalReceived(i, type)
    BY <1>1, <2>1 DEF SignalReceived
  <2>3. PICK q \in Requests : SignalTo[q] = i /\ SignalType[q] = type /\ request[q] = "sent"
    BY <2>2 DEF SignalsSent
  <2>4. request'[q] = request[q]
    BY <2>3, RequestMoves
  <2> QED
    BY <2>3, <2>4
<1> QED
  BY <1>2, <1>3

LEMMA NextSpawnsInOrder ==
  ASSUME Reliable, DurableInv, TypeOK', Grows, Unforgotten, SpawnsInOrder, [Next]_vars
  PROVE  SpawnsInOrder'
<1> ReplayInv /\ Inv /\ TypeOK
  BY DEF DurableInv, ReplayInv, BackedInv, Inv
<1> SUFFICES ASSUME NEW i \in Ids, NEW n \in 1..Len(events'[i]), IsStarted(events'[i][n]),
                    NEW k \in Nat, k = events'[i][n].step
             PROVE  Before(i, k)'
  BY DEF SpawnsInOrder, IsStarted
<1>1. Before(i, k)
  <2>1. CASE n > Len(events[i])
    <3>1. PICK s \in Slots : spawn_child(s) /\ wf[s] = i /\ step[s] = k
      BY <2>1, NewArrivals
    <3>2. Active(s)
      BY <3>1 DEF spawn_child, At, AtStep, Active
    <3> QED
      BY <3>1, <3>2, BeforeRun
  <2>2. CASE ~(n > Len(events[i]))
    <3>1. Len(events[i]) \in Nat /\ Len(events'[i]) \in Nat
      BY DEF TypeOK, TablesOK
    <3>2. n \in 1..Len(events[i])
      BY <2>2, <3>1
    <3>3. events'[i][n] = events[i][n]
      BY <3>2 DEF Grows
    <3> QED
      BY <3>2, <3>3 DEF SpawnsInOrder
  <2> QED
    BY <2>1, <2>2
<1> QED
  BY <1>1, DecidedStays

\* A workflow that did not exist is started by a client or spawned by a run of its parent.
LEMMA NewChild ==
  ASSUME Inv, [Next]_vars, NEW j \in Ids, ~Has(j), Has(j)', NEW i \in Ids, events'[j][1].key = i
  PROVE  \E s \in Slots : Active(s) /\ wf[s] = i
<1> TypeOK
  BY DEF Inv
<1>1. status[j] = "absent" /\ status'[j] # "absent" /\ events[j] = <<>>
  BY DEF Has, Inv, TablesInv, RowsInv
<1>2. ASSUME NEW k \in Ids, start_workflow(k) PROVE FALSE
  <2>1. k = j
    BY <1>1, <1>2 DEF start_workflow, create_workflow, TypeOK, TablesOK
  <2> DEFINE f == Event("started", 0, None, None)
  <2>2. f \in EventRecord /\ f.key = None
    BY EventTyped, NoneTyped DEF EventType, Event
  <2>3. events'[j] = Append(events[j], f)
    BY <1>2, <2>1 DEF start_workflow, create_workflow, Appended, TypeOK, TablesOK
  <2> HIDE DEF f
  <2>4. events'[j][1] = f
    BY <1>1, <2>2, <2>3
  <2> QED
    BY <2>2, <2>4, DistinctAssumption
<1>3. ASSUME NEW q \in Requests, write_signal(q) PROVE FALSE
  <2>1. SignalTo[q] = j
    BY <1>1, <1>3 DEF write_signal, write_signal_and_wake_workflow, TypeOK, TablesOK
  <2> QED
    BY <1>1, <1>3, <2>1 DEF write_signal, Inv, RequestsInv, Has
<1>4. ASSUME NEW s \in Slots, Writes(s) PROVE FALSE
  BY <1>1, <1>4, WritesOne DEF rows
<1>5. ASSUME NEW s \in Slots, spawn_child(s) PROVE Active(s) /\ wf[s] = i
  <2>1. PICK c \in Ids, p \in Ids, k \in Nat : c = Current(s).key /\ p = wf[s] /\ k = step[s]
    BY <1>5, CurrentTyped, SpawnKey DEF spawn_child, At, TypeOK, RunsOK
  <2>2. create_child_workflow(p, c, k) /\ Active(s)
    BY <1>5, <2>1 DEF spawn_child, At, AtStep, Active
  <2>3. c = j
    BY <1>1, <2>2 DEF create_child_workflow, tables, TypeOK, TablesOK
  <2> DEFINE f == Event("started", 0, p, None)
  <2>4. f \in EventRecord /\ f.key = p
    BY EventTyped, NoneTyped DEF EventType, Event, Keys
  <2>5. events'[j] = Append(events[j], f)
    BY <1>1, <2>2, <2>3 DEF create_child_workflow
  <2> HIDE DEF f
  <2>6. events'[j][1] = f
    BY <1>1, <2>4, <2>5
  <2> QED
    BY <2>1, <2>2, <2>4, <2>6
<1>6. ASSUME NEW s \in Slots, mark_waiting(s) PROVE FALSE
  <2>1. Active(s) /\ wf[s] = j
    BY <1>1, <1>6 DEF mark_waiting, mark_workflow_waiting, Active, TypeOK, TablesOK
  <2> QED
    BY <1>1, <2>1, RunHas DEF Has
<1>7. ASSUME NEW s \in Slots, EndsRun(s) PROVE FALSE
  <2>1. Active(s) /\ pc[s] # "load"
    BY <1>7 DEF EndsRun, finish, fail, exhaust_retries, Active
  <2>2. Has(wf[s]) /\ wf[s] \in Ids /\ parent_info(s) = events[wf[s]][1].key
    BY <2>1, RunHas, ParentInfo
  <2>3. wf[s] = j \/ parent_info(s) = j
    BY <1>1, <1>7 DEF EndsRun, finish, fail, exhaust_retries, complete_workflow, fail_workflow, write_terminal_workflow_event
  <2>4. Has(j)
    BY <2>2, <2>3, ParentOf DEF Inv
  <2> QED
    BY <1>1, <2>4 DEF Has
<1> QED
  BY <1>1, <1>2, <1>3, <1>4, <1>5, <1>6, <1>7, StepKind DEF TableKind

LEMMA NextFinished ==
  ASSUME Reliable, Tidy, TidyInv, TypeOK', Grows, TableStep, EndsForGood, [Next]_vars
  PROVE  Finished'
<1> DurableInv /\ ReplayInv /\ Inv /\ TypeOK /\ Running
  BY DEF TidyInv, DurableInv, ReplayInv, BackedInv, Inv
<1> SUFFICES ASSUME NEW i \in Ids, status'[i] \in Terminal
             PROVE  /\ \A q \in Requests : SignalTo[q] = i => request'[q] # "checked"
                    /\ \A j \in Ids : ChildOf(j, i)' => status'[j] \in Terminal
  BY DEF Finished
<1>1. ASSUME status[i] \notin Terminal
      PROVE  \E s \in Slots : EndsRun(s) /\ wf[s] = i
  <2>1. Has(i) /\ status[i] \in Live
    BY <1>1 DEF TableStep, NewEnds, Has, TypeOK, TablesOK, WorkflowStatus, Terminal, Live
  <2>2. status'[i] \notin Live
    BY DEF Terminal, Live
  <2> QED
    BY <2>1, <2>2, LivesOn
\* Before the step, nothing was outstanding, or the step ends the workflow.
<1>2. /\ \A q \in Requests : SignalTo[q] = i => request[q] # "checked"
      /\ \A j \in Ids : ChildOf(j, i) => status[j] \in Terminal
  <2>1. CASE status[i] \in Terminal
    BY <2>1 DEF TidyInv, Finished
  <2>2. CASE status[i] \notin Terminal
    BY <1>1, <2>2, EndsTidy
  <2> QED
    BY <2>1, <2>2
<1>3. ASSUME NEW q \in Requests, SignalTo[q] = i, request'[q] = "checked" PROVE FALSE
  <2>1. send_signal(q) /\ request'[q] # request[q]
    BY <1>2, <1>3, RequestMoves
  <2>2. status[i] \in Live /\ UNCHANGED status
    BY <1>3, <2>1 DEF send_signal, TypeOK, tables
  <2> QED
    BY <2>2 DEF Live, Terminal
<1>4. ASSUME NEW j \in Ids, ChildOf(j, i)' PROVE status'[j] \in Terminal
  <2>1. CASE Has(j)
    <3>1. events'[j][1] = events[j][1]
      <4>1. Len(events[j]) \in Nat /\ Len(events[j]) >= 1
        BY <2>1 DEF TypeOK, TablesOK, Inv, TablesInv, RowsInv
      <4> QED
        BY <4>1 DEF Grows
    <3>2. ChildOf(j, i)
      BY <1>4, <2>1, <3>1 DEF ChildOf
    <3> QED
      BY <1>2, <3>2 DEF EndsForGood
  <2>2. CASE ~Has(j)
    <3>1. PICK s \in Slots : Active(s) /\ wf[s] = i
      BY <1>4, <2>2, NewChild DEF ChildOf
    <3>2. status[i] = "running" /\ status'[j] # status[j]
      BY <1>4, <2>2, <3>1 DEF Running, ChildOf, Has
    <3>3. PICK t \in Slots : EndsRun(t) /\ wf[t] = i
      BY <1>1, <3>2 DEF Terminal
    <3>4. Active(t) /\ pc[t] # "load"
      BY <3>3 DEF EndsRun, finish, fail, exhaust_retries, Active
    <3>5. parent_info(t) = events[i][1].key /\ Has(i)
      BY <3>3, <3>4, ParentInfo, RunHas
    <3>6. j = i \/ j = events[i][1].key
      BY <3>2, <3>3, <3>5 DEF EndsRun, finish, fail, exhaust_retries, complete_workflow, fail_workflow, write_terminal_workflow_event
    <3>7. Has(j)
      BY <3>5, <3>6, ParentOf DEF Inv
    <3> QED
      BY <2>2, <3>7
  <2> QED
    BY <2>1, <2>2
<1> QED
  BY <1>3, <1>4

LEMMA InitTidy ==
  ASSUME Init
  PROVE  TidyInv
<1>1. DurableInv
  BY InitDurable
<1>2. \A i \in Ids : Len(events[i]) = 0 /\ status[i] = "absent"
  BY DEF Init, TablesInit
<1>3. ChildTold /\ SignalsSent /\ SpawnsInOrder /\ Finished
  BY <1>2 DEF ChildTold, SignalsSent, SignalReceived, SpawnsInOrder, Finished, Terminal
<1> QED
  BY <1>1, <1>3 DEF TidyInv

LEMMA NextTidy ==
  ASSUME Reliable, Tidy, TidyInv, [Next]_vars
  PROVE  TidyInv' /\ EndsForGood
<1> DurableInv /\ ReplayInv /\ Inv /\ TypeOK
  BY DEF TidyInv, DurableInv, ReplayInv, BackedInv, Inv
<1>1. DurableInv' /\ TypeOK'
  BY NextDurable DEF DurableInv, ReplayInv, BackedInv, Inv
<1>2. TableStep /\ Grows /\ Unforgotten
  BY <1>1, NextTable, ElapsedStays DEF TableStep
<1>3. EndsForGood
  BY TidyEndsForGood
<1>4. ChildTold'
  BY <1>1, <1>2, <1>3, NextChildTold DEF TidyInv
<1>5. SignalsSent'
  BY <1>1, <1>2, NextSignalsSent DEF TidyInv
<1>6. SpawnsInOrder'
  BY <1>1, <1>2, NextSpawnsInOrder DEF TidyInv
<1>7. Finished'
  BY <1>1, <1>2, <1>3, NextFinished
<1> QED
  BY <1>1, <1>3, <1>4, <1>5, <1>6, <1>7 DEF TidyInv

\* On a tidy instance, clients have had their answers and children have ended by the
\* time a workflow ends (_write_terminal_workflow_event in db/queries.py).
THEOREM TidyInvariant ==
  ASSUME Reliable, Tidy
  PROVE  Spec => []TidyInv
<1>1. Init => TidyInv
  BY InitTidy
<1>2. TidyInv /\ [Next]_vars => TidyInv'
  BY NextTidy
<1> QED
  BY <1>1, <1>2, PTL DEF Spec

\* A workflow that takes its signals and joins its children before it may end is
\* never revived (write_signal_and_wake_workflow, _write_terminal_workflow_event).
THEOREM EndsAreFinal ==
  ASSUME Reliable, Tidy
  PROVE  Spec => NeverRevived
<1>1. TidyInv /\ [Next]_vars => [EndsForGood]_vars
  BY NextTidy
<1> QED
  BY <1>1, TidyInvariant, PTL DEF Spec, NeverRevived

\* The engine implements Durable on every tidy instance: no hypothesis on the
\* behaviour is left.
THEOREM TidyIsDurable ==
  ASSUME Reliable, Tidy
  PROVE  Spec => ExecutesDurably
BY EndsAreFinal, DurablyExecuted, PTL

\* On such an instance parents are told the truth, retries are limited ...
THEOREM TidyTellsTheTruth ==
  ASSUME Reliable, Tidy
  PROVE  Spec => []ChildOutcomeTrue
BY EndsAreFinal, ParentsAreToldTheTruth, PTL

\* ... an activity fails once more than it may be retried, at most (executor.py), ...
THEOREM TidyRetries ==
  ASSUME Reliable, Tidy
  PROVE  Spec => []RetriesBounded
<1>1. Spec /\ NeverRevived => []RetriesBounded
  BY RetriesAreBounded DEF Reliable
<1> QED
  BY <1>1, EndsAreFinal, PTL

\* ... and what PLAN.md says of a workflow that exhausted its retries is true: "no
\* further scheduling".
THEOREM TidyFailsForGood ==
  ASSUME Reliable, Tidy
  PROVE  Spec => NotScheduledAgain
<1>1. [EndsForGood]_vars => [\A i \in Ids : status[i] = "failed" => status'[i] # "running"]_vars
  BY DEF EndsForGood, Terminal
<1> QED
  BY <1>1, EndsAreFinal, PTL DEF NeverRevived, NotScheduledAgain

\* The terminal event of a log is the only one, and its workflow has ended.
Final(e) == e.type \in {"workflow_completed", "workflow_failed"}

EndedOnce ==
  \A i \in Ids : \A n \in 1..Len(events[i]) : Final(events[i][n]) =>
    /\ status[i] \in Terminal
    /\ \A m \in 1..Len(events[i]) : Final(events[i][m]) => m = n

LEMMA NextEndedOnce ==
  ASSUME Inv, Running, TypeOK', Grows, EndsForGood, EndedOnce, [Next]_vars
  PROVE  EndedOnce'
<1> TypeOK
  BY DEF Inv
<1> SUFFICES ASSUME NEW i \in Ids, NEW n \in 1..Len(events'[i]), Final(events'[i][n])
             PROVE  /\ status'[i] \in Terminal
                    /\ \A m \in 1..Len(events'[i]) : Final(events'[i][m]) => m = n
  BY DEF EndedOnce, Final
<1>1. \A m \in 1..Len(events'[i]) : m > Len(events[i]) \/ (m \in 1..Len(events[i]) /\ events'[i][m] = events[i][m])
  BY DEF TypeOK, TablesOK, Grows
\* Only a run ends its workflow, which is running until then.
<1>2. ASSUME NEW m \in 1..Len(events'[i]), m > Len(events[i]), Final(events'[i][m])
      PROVE  m = Len(events[i]) + 1 /\ status[i] = "running" /\ status'[i] \in Terminal
  <2>1. PICK s \in Slots : EndsRun(s) /\ wf[s] = i
    BY <1>2, NewArrivals DEF Final
  <2>2. m = Len(events[i]) + 1
    BY <1>2, NewArrivals DEF Final
  <2>3. status[i] = "running"
    BY <2>1 DEF Running, EndsRun, finish, fail, exhaust_retries, Active
  <2>4. status'[i] \in Terminal
    BY <2>1 DEF EndsRun, finish, fail, exhaust_retries, complete_workflow, fail_workflow, write_terminal_workflow_event, Terminal
  <2> QED
    BY <2>2, <2>3, <2>4
<1>3. CASE n > Len(events[i])
  <2>1. n = Len(events[i]) + 1 /\ status[i] = "running" /\ status'[i] \in Terminal
    BY <1>2, <1>3
  <2>2. ASSUME NEW m \in 1..Len(events'[i]), Final(events'[i][m]) PROVE m = n
    <3>1. ~(m \in 1..Len(events[i]) /\ events'[i][m] = events[i][m])
      BY <2>1, <2>2 DEF EndedOnce, Terminal
    <3> QED
      BY <1>1, <1>2, <2>1, <2>2, <3>1
  <2> QED
    BY <2>1, <2>2
<1>4. CASE n \in 1..Len(events[i]) /\ events'[i][n] = events[i][n]
  <2>1. /\ status[i] \in Terminal
        /\ \A m \in 1..Len(events[i]) : Final(events[i][m]) => m = n
    BY <1>4 DEF EndedOnce
  <2>2. status'[i] \in Terminal
    BY <2>1 DEF EndsForGood
  <2>3. ASSUME NEW m \in 1..Len(events'[i]), Final(events'[i][m]) PROVE m = n
    <3>1. ~(m > Len(events[i]))
      BY <1>2, <2>1, <2>3 DEF Terminal
    <3> QED
      BY <1>1, <2>1, <2>3, <3>1
  <2> QED
    BY <2>2, <2>3
<1> QED
  BY <1>1, <1>3, <1>4

\* On a tidy instance no log has two terminal events, as tests/test_stress.py asserts.
THEOREM TidyEndsOnce ==
  ASSUME Reliable, Tidy
  PROVE  Spec => []OneTerminalEvent
<1>1. Init => EndedOnce
  <2>1. Init => \A i \in Ids : Len(events[i]) = 0
    BY DEF Init, TablesInit
  <2> QED
    BY <2>1 DEF EndedOnce
<1>2. TidyInv /\ EndedOnce /\ [Next]_vars => EndedOnce'
  <2> SUFFICES ASSUME TidyInv, EndedOnce, [Next]_vars PROVE EndedOnce'
    OBVIOUS
  <2>1. Inv /\ Running
    BY DEF TidyInv, DurableInv, ReplayInv, BackedInv
  <2>2. TypeOK' /\ EndsForGood
    BY NextTidy DEF TidyInv, DurableInv, ReplayInv, BackedInv, Inv
  <2>3. Grows
    BY <2>1, <2>2, NextTable DEF TableStep
  <2> QED
    BY <2>1, <2>2, <2>3, NextEndedOnce
<1>3. Spec => []EndedOnce
  BY <1>1, <1>2, TidyInvariant, PTL DEF Spec
<1>4. TidyInv /\ EndedOnce => OneTerminalEvent
  <2> SUFFICES ASSUME EndedOnce, NEW i \in Ids
               PROVE  Cardinality({n \in 1..Len(events[i]) :
                        events[i][n].type \in {"workflow_completed", "workflow_failed"}}) <= 1
    BY DEF OneTerminalEvent
  <2> DEFINE E == {n \in 1..Len(events[i]) : events[i][n].type \in {"workflow_completed", "workflow_failed"}}
  <2>1. E = {} \/ \E n : E = {n}
    <3>1. \A m, n \in E : m = n
      BY DEF EndedOnce, Final
    <3> HIDE DEF E
    <3> QED
      BY <3>1
  <2> HIDE DEF E
  <2>2. Cardinality(E) = 0 \/ Cardinality(E) = 1
    <3>1. E = {} => Cardinality(E) = 0
      BY FS_EmptySet
    <3>2. ASSUME NEW n, E = {n} PROVE Cardinality(E) = 1
      BY <3>2, FS_Singleton
    <3> QED
      BY <2>1, <3>1, <3>2
  <2>3. Cardinality(E) <= 1
    BY <2>2
  <2> QED
    BY <2>3 DEF E
<1> QED
  BY <1>3, <1>4, TidyInvariant, PTL
=============================================================================
