---------------------------- MODULE EngineReplay ----------------------------
(***************************************************************************)
(* What the log of a workflow keeps, whatever happens, and what it says    *)
(* of the run that executes it when no other run is at work on it, for     *)
(* every value of the constants: no step is lost, recorded twice,          *)
(* answered differently or executed other than scheduled.                  *)
(***************************************************************************)
EXTENDS EngineProof, FiniteSetTheorems

-----------------------------------------------------------------------------
(***************************************************************************)
(* What holds of the log of a workflow whatever happens, stalls included,  *)
(* for every value of the constants: what is recorded of a step stays, a   *)
(* step starts one child, a run is past a step and a workflow is completed *)
(* only with its outcome in the log.                                       *)
(***************************************************************************)

-----------------------------------------------------------------------------
(***************************************************************************)
(* Look-ups in a history, as it grows.                                     *)
(***************************************************************************)
\* The set of segments 1..n is well founded, hence so are the numbers.
LEMMA LeastNumber ==
  ASSUME NEW S, S \subseteq Nat, S # {}
  PROVE  \E n \in S : \A m \in S : n <= m
<1> DEFINE R == StrictSubsetOrdering(Nat)
           segments == {1..n : n \in S}
<1>1. IsWellFoundedOn(R, FiniteSubsetsOf(Nat))
  BY FS_StrictSubsetOrderingWellFounded
<1>2. \A n \in S : IsFiniteSet(1..n) /\ 1..n \in SUBSET Nat
  BY FS_Interval
<1>3. segments \subseteq FiniteSubsetsOf(Nat) /\ segments # {}
  BY <1>2 DEF FiniteSubsetsOf
<1>4. PICK t \in segments : \A u \in segments : <<u, t>> \notin R
  <2> HIDE DEF R, segments
  <2> QED
    BY <1>1, <1>3, WFMin
<1>5. PICK n \in S : t = 1..n
  OBVIOUS
<1>6. ASSUME NEW m \in S, m < n PROVE FALSE
  <2>1. 1..m \in segments /\ 1..m \subseteq 1..n /\ n \in 1..n /\ n \notin 1..m
    BY <1>6
  <2>2. <<1..m, 1..n>> \in R
    BY <2>1 DEF StrictSubsetOrdering
  <2> QED
    BY <1>4, <1>5, <2>1, <2>2
<1> QED
  BY <1>6

\* The positions in h of the events of this type at step k; find_event is the first.
Found(h, k, type) == {n \in 1..Len(h) : h[n].step = k /\ h[n].type = type}
Got(h, key) == {n \in 1..Len(h) : IsReceived(h[n], key)}

LEMMA FirstFound ==
  ASSUME NEW h, Len(h) \in Nat, NEW k, NEW type, NEW key
  PROVE  /\ find_event(h, k, type) = {n \in Found(h, k, type) : \A m \in Found(h, k, type) : n <= m}
         /\ find_signal_event(h, key) = {n \in Got(h, key) : \A m \in Got(h, key) : n <= m}
<1>1. \A n \in 1..Len(h) : \A m \in 1..Len(h) : m \in 1..(n - 1) <=> ~(n <= m)
  OBVIOUS
<1>2. \A n \in 1..Len(h) : 1..(n - 1) \subseteq 1..Len(h)
  OBVIOUS
<1> QED
  BY <1>1, <1>2 DEF find_event, find_signal_event, Found, Got

\* A look-up finds something exactly if there is something to find.
LEMMA FindsAny ==
  ASSUME NEW h, Len(h) \in Nat, NEW k, NEW type, NEW key
  PROVE  /\ find_event(h, k, type) = {} <=> Found(h, k, type) = {}
         /\ find_signal_event(h, key) = {} <=> Got(h, key) = {}
<1> DEFINE F == Found(h, k, type)
           G == Got(h, key)
<1>1. F \subseteq Nat /\ G \subseteq Nat
  BY DEF Found, Got
<1>2. /\ find_event(h, k, type) = {n \in F : \A m \in F : n <= m}
      /\ find_signal_event(h, key) = {n \in G : \A m \in G : n <= m}
  BY FirstFound
<1>3. \A S \in SUBSET Nat : {n \in S : \A m \in S : n <= m} = {} <=> S = {}
  <2> SUFFICES ASSUME NEW S \in SUBSET Nat, S # {}
               PROVE  {n \in S : \A m \in S : n <= m} # {}
    OBVIOUS
  <2>1. PICK n \in S : \A m \in S : n <= m
    BY LeastNumber
  <2> QED
    BY <2>1
<1> HIDE DEF F, G
<1> QED
  BY <1>1, <1>2, <1>3 DEF F, G

LEMMA FindsOne ==
  ASSUME NEW h, Len(h) \in Nat, NEW k, NEW type, NEW key
  PROVE  /\ \A m, n \in find_event(h, k, type) : m = n
         /\ \A m, n \in find_signal_event(h, key) : m = n
<1>1. Found(h, k, type) \subseteq Nat /\ Got(h, key) \subseteq Nat
  BY DEF Found, Got
<1>2. \A S \in SUBSET Nat : \A m, n \in {l \in S : \A j \in S : l <= j} : m = n
  OBVIOUS
<1>3. find_event(h, k, type) = {n \in Found(h, k, type) : \A m \in Found(h, k, type) : n <= m}
  BY FirstFound
<1>4. find_signal_event(h, key) = {n \in Got(h, key) : \A m \in Got(h, key) : n <= m}
  BY FirstFound
<1>5. \A m, n \in find_event(h, k, type) : m = n
  BY <1>1, <1>2, <1>3
<1>6. \A m, n \in find_signal_event(h, key) : m = n
  BY <1>1, <1>2, <1>4
<1> QED
  BY <1>5, <1>6

\* The log g is h, or goes on after it.
Continues(g, h) ==
  /\ Len(g) \in Nat /\ Len(h) \in Nat /\ Len(h) <= Len(g)
  /\ \A n \in 1..Len(h) : g[n] = h[n]

\* What a look-up has found it finds for ever.
LEMMA FindsSame ==
  ASSUME NEW g, NEW h, Continues(g, h), NEW k, NEW type, NEW key
  PROVE  /\ find_event(h, k, type) # {} => find_event(g, k, type) = find_event(h, k, type)
         /\ find_signal_event(h, key) # {} => find_signal_event(g, key) = find_signal_event(h, key)
<1>1. /\ Found(h, k, type) = {n \in Found(g, k, type) : n <= Len(h)}
      /\ Got(h, key) = {n \in Got(g, key) : n <= Len(h)}
  <2>1. \A n \in 1..Len(g) : n <= Len(h) <=> n \in 1..Len(h)
    BY DEF Continues
  <2>2. 1..Len(h) \subseteq 1..Len(g)
    BY DEF Continues
  <2> QED
    BY <2>1, <2>2 DEF Continues, Found, Got
<1>2. Found(g, k, type) \subseteq Nat /\ Got(g, key) \subseteq Nat /\ Len(h) \in Nat /\ Len(g) \in Nat
  BY DEF Found, Got, Continues
<1> DEFINE F == Found(g, k, type)
           G == Got(g, key)
<1>3. ASSUME NEW S \in SUBSET Nat, NEW b \in Nat, {n \in S : n <= b} # {}
      PROVE  {n \in {r \in S : r <= b} : \A m \in {r \in S : r <= b} : n <= m} = {n \in S : \A m \in S : n <= m}
  <2> DEFINE T == {r \in S : r <= b}
  <2>1. PICK j \in S : j <= b
    BY <1>3
  <2>2. ASSUME NEW n \in T, \A m \in T : n <= m, NEW m \in S PROVE n <= m
    <3>1. n \in Nat /\ m \in Nat /\ n <= b
      OBVIOUS
    <3>2. CASE m <= b
      BY <2>2, <3>2
    <3>3. CASE ~(m <= b)
      BY <3>1, <3>3
    <3> QED
      BY <3>2, <3>3
  <2>3. ASSUME NEW n \in S, \A m \in S : n <= m PROVE n \in T
    <3>1. n <= j /\ n \in Nat /\ j \in Nat
      BY <2>3
    <3> QED
      BY <2>1, <3>1
  <2> QED
    BY <2>2, <2>3
<1>4. find_event(h, k, type) # {} => {n \in F : n <= Len(h)} # {}
  BY <1>1, <1>2, FindsAny
<1>5. find_signal_event(h, key) # {} => {n \in G : n <= Len(h)} # {}
  BY <1>1, <1>2, FindsAny
<1>6. /\ find_event(g, k, type) = {n \in F : \A m \in F : n <= m}
      /\ find_signal_event(g, key) = {n \in G : \A m \in G : n <= m}
  BY <1>2, FirstFound
<1>7. /\ find_event(h, k, type) = {n \in {r \in F : r <= Len(h)} : \A m \in {r \in F : r <= Len(h)} : n <= m}
      /\ find_signal_event(h, key) = {n \in {r \in G : r <= Len(h)} : \A m \in {r \in G : r <= Len(h)} : n <= m}
  BY <1>1, <1>2, FirstFound
<1> QED
  BY <1>2, <1>3, <1>4, <1>5, <1>6, <1>7

\* The first event of its kind is found where it was appended.
LEMMA FindsNew ==
  ASSUME NEW h \in Seq(EventRecord), NEW e \in EventRecord
  PROVE  /\ Found(h, e.step, e.type) = {} => find_event(Append(h, e), e.step, e.type) = {Len(h) + 1}
         /\ \A key : (IsReceived(e, key) /\ Got(h, key) = {}) =>
              find_signal_event(Append(h, e), key) = {Len(h) + 1}
<1> DEFINE g == Append(h, e)
<1>1. /\ Len(h) \in Nat /\ Len(g) = Len(h) + 1 /\ g[Len(h) + 1] = e
      /\ \A n \in 1..Len(h) : g[n] = h[n]
  OBVIOUS
<1>2. \A n : n \in 1..(Len(h) + 1) <=> (n \in 1..Len(h) \/ n = Len(h) + 1)
  BY <1>1
<1> HIDE DEF g
<1>3. Found(h, e.step, e.type) = {} => Found(g, e.step, e.type) = {Len(h) + 1}
  BY <1>1, <1>2 DEF Found
<1>4. \A key : (IsReceived(e, key) /\ Got(h, key) = {}) => Got(g, key) = {Len(h) + 1}
  BY <1>1, <1>2 DEF Got
<1>5. /\ find_event(g, e.step, e.type) = {n \in Found(g, e.step, e.type) : \A m \in Found(g, e.step, e.type) : n <= m}
      /\ \A key : find_signal_event(g, key) = {n \in Got(g, key) : \A m \in Got(g, key) : n <= m}
  BY <1>1, FirstFound
<1>6. \A n \in Nat : {r \in {n} : \A m \in {n} : r <= m} = {n}
  OBVIOUS
<1>7. Len(h) + 1 \in Nat
  BY <1>1
<1>8. Found(h, e.step, e.type) = {} => find_event(g, e.step, e.type) = {Len(h) + 1}
  BY <1>3, <1>5, <1>6, <1>7
<1>9. \A key : (IsReceived(e, key) /\ Got(h, key) = {}) => find_signal_event(g, key) = {Len(h) + 1}
  BY <1>4, <1>5, <1>6, <1>7
<1> QED
  BY <1>8, <1>9 DEF g

-----------------------------------------------------------------------------
(***************************************************************************)
(* What a step writes.                                                     *)
(***************************************************************************)
\* The steps of a run that write an event of its own to the log.
Writes(s) ==
  \/ schedule(s) \/ fail_activity(s) \/ start_sleep(s) \/ write_marker(s)
  \/ \E r \in Results : complete_activity(s, r) \/ notify_error(s, r)

EndsRun(s) == finish(s) \/ fail(s) \/ exhaust_retries(s)

TableKind ==
  \/ UNCHANGED <<status, events>>
  \/ \E i \in Ids : start_workflow(i)
  \/ \E q \in Requests : write_signal(q)
  \/ \E s \in Slots : Writes(s) \/ spawn_child(s) \/ mark_waiting(s) \/ EndsRun(s)

LEMMA RunStepKind ==
  ASSUME NEW s \in Slots, RunStep(s)
  PROVE  UNCHANGED <<status, events>> \/ Writes(s) \/ spawn_child(s) \/ mark_waiting(s) \/ EndsRun(s)
<1>1. CASE RunnerStep(s)
  BY <1>1 DEF RunnerStep, run_workflow, raise, EndsRun, tables
<1>2. CASE ActivityStep(s)
  BY <1>2 DEF ActivityStep, replay_activity, DivergenceError, retry, update_workflow_run_at, EndsRun, Writes, tables
<1>3. CASE SleepStep(s)
  BY <1>3 DEF SleepStep, wake_up, re_suspend, suspend_sleep, update_workflow_run_at, Writes, tables
<1>4. CASE WaitStep(s)
  BY <1>4 DEF WaitStep, replay_wait, already_received, reload, Writes, tables
<1>5. CASE SpawnStep(s)
  BY <1>5 DEF SpawnStep, replay_spawn, tables
<1> QED
  BY <1>1, <1>2, <1>3, <1>4, <1>5 DEF RunStep

LEMMA FaultKind ==
  ASSUME FaultStep
  PROVE  UNCHANGED <<status, events>> \/ \E s \in Slots : Writes(s)
BY DEF FaultStep, stall, LetLapse, restart, database_error, activity_cancelled, Writes, tables

LEMMA StepKind ==
  ASSUME [Next]_vars
  PROVE  TableKind
<1>1. CASE UNCHANGED vars
  BY <1>1 DEF vars, TableKind
<1>2. CASE Next
  <2>1. ASSUME NEW i \in Ids, ClockStep(i) PROVE UNCHANGED <<status, events>>
    BY <2>1 DEF ClockStep, lapse, LetLapse, Elapse, tables
  <2>2. ASSUME NEW q \in Requests, send_signal(q) PROVE UNCHANGED <<status, events>>
    BY <2>2 DEF send_signal, tables
  <2>3. ASSUME NEW s \in Slots, heartbeat(s) PROVE UNCHANGED <<status, events>>
    BY <2>3 DEF heartbeat, extend_workflow_lock
  <2>4. ASSUME NEW s \in Slots, NEW i \in Ids, claim(s, i) PROVE UNCHANGED <<status, events>>
    BY <2>4 DEF claim, claim_next_workflow
  <2> QED
    BY <1>2, <2>1, <2>2, <2>3, <2>4, RunStepKind, FaultKind DEF Next, TableKind
<1> QED
  BY <1>1, <1>2

\* A run's own event belongs to the step it is at; a marker to no step.
Own == {"scheduled", "completed", "failed", "sleep"}

LEMMA WritesOne ==
  ASSUME Inv, NEW s \in Slots, Writes(s)
  PROVE  /\ Active(s) /\ wf[s] \in Ids /\ UNCHANGED <<rows, elapsed, code>>
         /\ \/ UNCHANGED events
            \/ \E e \in EventRecord :
                 /\ events' = Appended(wf[s], e)
                 /\ \/ e.type \in Own /\ e.step = step[s]
                    \/ e.type = "signal" /\ e.val = Waiting
<1>1. ASSUME AtStep(s) PROVE Active(s)
  BY <1>1 DEF AtStep, Active
<1>2. Active(s) /\ UNCHANGED <<rows, elapsed, code>>
  BY <1>1 DEF Writes, schedule, fail_activity, start_sleep, write_marker, complete_activity, notify_error,
     NotReplayed, AtWait, At, Active, write_event, Await, AwaitDeadline, Return, rows, tables
<1>3. wf[s] \in Ids /\ step[s] \in Nat
  BY <1>2, RunHas
<1>4. ASSUME NEW type \in Own, NEW key \in Keys, NEW val \in Values,
             write_event(wf[s], Event(type, step[s], key, val))
      PROVE  \E e \in EventRecord : events' = Appended(wf[s], e) /\ e.type \in Own /\ e.step = step[s]
  <2>1. Event(type, step[s], key, val) \in EventRecord
    BY <1>3, EventTyped DEF Own, EventType
  <2> QED
    BY <1>4, <2>1 DEF write_event, Event
<1>5. CASE schedule(s)
  <2>1. Current(s).key \in Keys
    BY <1>5, CurrentTyped DEF schedule, NotReplayed, At, Inv, StepRecord
  <2> QED
    BY <1>2, <1>3, <1>4, <1>5, <2>1, NoneTyped DEF schedule, tables, Own
<1>6. CASE write_marker(s)
  <2>1. Current(s).key \in Keys
    BY <1>6, CurrentTyped DEF write_marker, AtWait, Inv, StepRecord
  <2>2. Event("signal", 0, Current(s).key, Waiting) \in EventRecord
    BY <2>1, NoneTyped, EventTyped DEF EventType
  <2> QED
    BY <1>2, <1>3, <1>6, <2>2 DEF write_marker, write_event, tables, Event
<1>7. CASE fail_activity(s) \/ start_sleep(s)
  BY <1>2, <1>3, <1>4, <1>7, NoneTyped DEF fail_activity, start_sleep, Own
<1>8. CASE \E r \in Results : complete_activity(s, r) \/ notify_error(s, r)
  BY <1>2, <1>3, <1>4, <1>8, NoneTyped DEF complete_activity, notify_error, Own, Values
<1> QED
  BY <1>5, <1>6, <1>7, <1>8 DEF Writes

LEMMA WritesQuiet ==
  ASSUME Inv, NEW s \in Slots, Writes(s)
  PROVE  Quiet
<1>1. Has(wf[s]) /\ wf[s] \in Ids /\ UNCHANGED status
  BY WritesOne, RunHas DEF rows
<1>2. \A e \in EventRecord : e.type \in Own => Silent(e)
  BY DEF Own, Silent
<1>3. \A e \in EventRecord : (e.type = "signal" /\ e.val = Waiting) => Silent(e)
  BY DEF Silent
<1> QED
  BY <1>1, <1>2, <1>3, WritesOne DEF Quiet

\* Every step of the system grows the logs as EngineProof has it.
LEMMA NextTable ==
  ASSUME Inv, TypeOK', [Next]_vars
  PROVE  TableStep
<1> TypeOK /\ TablesInv /\ RowsInv
  BY DEF Inv, TablesInv
<1>1. CASE UNCHANGED <<status, events>>
  BY <1>1, QuietStep DEF Quiet
<1>2. ASSUME NEW i \in Ids, start_workflow(i) PROVE TableStep
  BY <1>2, StartStep DEF start_workflow, Has
<1>3. ASSUME NEW q \in Requests, write_signal(q) PROVE TableStep
  <2>1. SignalTo[q] \in Ids /\ SignalType[q] \in SignalTypes /\ Has(SignalTo[q])
    BY <1>3, ConstantsAssumption DEF write_signal, Inv, RequestsInv
  <2> QED
    BY <1>3, <2>1, SignalStep DEF write_signal
<1>4. ASSUME NEW s \in Slots, Writes(s) PROVE TableStep
  BY <1>4, WritesQuiet, QuietStep
<1>5. ASSUME NEW s \in Slots, spawn_child(s) \/ mark_waiting(s) \/ EndsRun(s) PROVE TableStep
  <2>1. RunStep(s)
    BY <1>5 DEF EndsRun, RunStep, SpawnStep, WaitStep, RunnerStep, ActivityStep
  <2> QED
    BY <2>1, RunWake DEF Advance
<1> QED
  BY <1>1, <1>2, <1>3, <1>4, <1>5, StepKind DEF TableKind

-----------------------------------------------------------------------------
(***************************************************************************)
(* What the log records is recorded for good.                              *)
(***************************************************************************)
Unforgotten == \A i \in Ids : elapsed[i] \subseteq elapsed'[i]

LEMMA OutcomeStays ==
  ASSUME TypeOK, TypeOK', Grows, Unforgotten, NEW i \in Ids, NEW c, NEW k, Outcome(i, c, k) # {}
  PROVE  Outcome(i, c, k)' = Outcome(i, c, k)
<1> DEFINE h == events[i]
           g == events'[i]
<1>1. Continues(g, h)
  BY DEF TypeOK, TablesOK, Grows, Continues
<1> HIDE DEF g, h
<1>2. \A type : find_event(h, k, type) # {} => find_event(g, k, type) = find_event(h, k, type)
  BY <1>1, FindsSame
<1>3. \A key : find_signal_event(h, key) # {} => find_signal_event(g, key) = find_signal_event(h, key)
  BY <1>1, FindsSame
<1>4. /\ \A n, type : n \in find_event(h, k, type) => g[n] = h[n]
      /\ \A n, key : n \in find_signal_event(h, key) => g[n] = h[n]
  BY <1>1 DEF Continues, find_event, find_signal_event
<1>5. CASE c.op = "activity"
  <2>1. find_event(h, k, "completed") # {}
    BY <1>5 DEF Outcome, find_completed_event, h
  <2>2. /\ find_event(g, k, "completed") = find_event(h, k, "completed")
        /\ \A n \in find_event(h, k, "completed") : g[n] = h[n]
    BY <1>2, <1>4, <2>1
  <2>3. {g[n].val : n \in find_event(g, k, "completed")} = {h[n].val : n \in find_event(h, k, "completed")}
    BY <2>2
  <2> QED
    BY <1>5, <2>3 DEF Outcome, find_completed_event, g, h
<1>6. CASE c.op \in {"signal", "join"}
  <2>1. find_signal_event(h, c.key) # {}
    BY <1>6 DEF Outcome, h
  <2>2. /\ find_signal_event(g, c.key) = find_signal_event(h, c.key)
        /\ \A n \in find_signal_event(h, c.key) : g[n] = h[n]
    BY <1>3, <1>4, <2>1
  <2>3. {g[n].val : n \in find_signal_event(g, c.key)} = {h[n].val : n \in find_signal_event(h, c.key)}
    BY <2>2
  <2> QED
    BY <1>6, <2>3 DEF Outcome, g, h
<1>7. CASE c.op = "spawn"
  <2>1. find_event(h, k, "child_started") # {}
    BY <1>7 DEF Outcome, find_child_started_event, h
  <2>2. /\ find_event(g, k, "child_started") = find_event(h, k, "child_started")
        /\ \A n \in find_event(h, k, "child_started") : g[n] = h[n]
    BY <1>2, <1>4, <2>1
  <2>3. {g[n].val : n \in find_event(g, k, "child_started")} = {h[n].val : n \in find_event(h, k, "child_started")}
    BY <2>2
  <2> QED
    BY <1>7, <2>3 DEF Outcome, find_child_started_event, g, h
<1>8. CASE c.op = "sleep"
  <2>1. PICK n \in find_event(h, k, "sleep") : n \in elapsed[i]
    BY <1>8 DEF Outcome, SleepElapsed, h
  <2>2. n \in find_event(g, k, "sleep") /\ n \in elapsed'[i]
    BY <1>2, <2>1 DEF Unforgotten
  <2> QED
    BY <1>8, <2>1, <2>2 DEF Outcome, SleepElapsed, g, h
<1> QED
  BY <1>5, <1>6, <1>7, <1>8 DEF Outcome

\* A step has at most one outcome.
LEMMA OneOutcome ==
  ASSUME TypeOK, NEW i \in Ids, NEW c, NEW k, NEW u \in Outcome(i, c, k), NEW v \in Outcome(i, c, k)
  PROVE  u = v
<1> DEFINE h == events[i]
<1>1. Len(h) \in Nat
  BY DEF TypeOK, TablesOK
<1> HIDE DEF h
<1>2. /\ \A type : \A m, n \in find_event(h, k, type) : m = n
      /\ \A key : \A m, n \in find_signal_event(h, key) : m = n
  BY <1>1, FindsOne
<1> QED
  BY <1>2 DEF Outcome, find_completed_event, find_child_started_event, h

\* What a run finds in its history is what is in the log.
LEMMA HistoryFinds ==
  ASSUME Inv, NEW s \in Slots, Active(s), pc[s] # "load", NEW k, NEW type, NEW key
  PROVE  /\ find_event(history[s], k, type) \subseteq find_event(events[wf[s]], k, type)
         /\ find_signal_event(history[s], key) \subseteq find_signal_event(events[wf[s]], key)
         /\ \A n \in find_event(history[s], k, type) \cup find_signal_event(history[s], key) :
              events[wf[s]][n] = history[s][n]
<1>1. Continues(events[wf[s]], history[s])
  BY DEF Inv, RunInv, Prefix, TypeOK, TablesOK, RunsOK, Active, Continues
<1>2. /\ find_event(history[s], k, type) # {} =>
           find_event(events[wf[s]], k, type) = find_event(history[s], k, type)
      /\ find_signal_event(history[s], key) # {} =>
           find_signal_event(events[wf[s]], key) = find_signal_event(history[s], key)
  BY <1>1, FindsSame
<1>3. \A n \in 1..Len(history[s]) : events[wf[s]][n] = history[s][n]
  BY <1>1 DEF Continues
<1> QED
  BY <1>2, <1>3 DEF find_event, find_signal_event

LEMMA ElapsedStays ==
  ASSUME TypeOK, [Next]_vars
  PROVE  Unforgotten
<1>1. ASSUME UNCHANGED elapsed PROVE Unforgotten
  BY <1>1 DEF Unforgotten
<1>2. ASSUME NEW s \in Slots, RunStep(s) PROVE UNCHANGED elapsed
  BY <1>2 DEF RunStep, RunnerStep, ActivityStep, SleepStep, WaitStep, SpawnStep,
     run_workflow, finish, raise, fail, replay_activity, DivergenceError, schedule, complete_activity, fail_activity,
     retry, exhaust_retries, wake_up, re_suspend, start_sleep, suspend_sleep, replay_wait, write_marker, mark_waiting,
     already_received, reload, replay_spawn, spawn_child, Received, Await, AwaitDeadline, Return, Suspend
<1>3. ASSUME FaultStep PROVE UNCHANGED elapsed
  BY <1>3 DEF FaultStep, stall, LetLapse, restart, database_error, activity_cancelled, notify_error
<1>4. ASSUME NEW i \in Ids, ClockStep(i) PROVE Unforgotten
  <2>1. CASE lapse(i)
    BY <1>1, <2>1 DEF lapse, LetLapse
  <2>2. CASE \E n \in 1..Len(events[i]) : Elapse(i, n)
    BY <2>2 DEF Elapse, Unforgotten, TypeOK, TablesOK
  <2> QED
    BY <1>4, <2>1, <2>2 DEF ClockStep
<1>5. ASSUME \/ \E i \in Ids : start_workflow(i)
             \/ \E q \in Requests : send_signal(q) \/ write_signal(q)
             \/ \E s \in Slots : heartbeat(s) \/ \E i \in Ids : claim(s, i)
      PROVE  UNCHANGED elapsed
  BY <1>5 DEF start_workflow, send_signal, write_signal, heartbeat, claim, others
<1>6. CASE UNCHANGED vars
  BY <1>1, <1>6 DEF vars
<1> QED
  BY <1>1, <1>2, <1>3, <1>4, <1>5, <1>6 DEF Next

-----------------------------------------------------------------------------
(***************************************************************************)
(* Children: a step spawns one, and its event says which.                  *)
(***************************************************************************)
IsStarted(e) == e.type = "child_started"

\* A CHILD_STARTED event has its child as payload, is the only one of the child,
\* and is there if the child is.
SpawnInv ==
  \A p \in Ids :
    /\ \A n \in 1..Len(events[p]) : IsStarted(events[p][n]) => events[p][n].val = events[p][n].key
    /\ \A m, n \in 1..Len(events[p]) :
         (IsStarted(events[p][m]) /\ IsStarted(events[p][n]) /\ events[p][m].key = events[p][n].key) => m = n
    /\ \A c \in Ids : ChildOf(c, p) => \E n \in 1..Len(events[p]) : IsStarted(events[p][n]) /\ events[p][n].key = c

\* The event of a child is at the step that spawns the child.
LEMMA StartedAt ==
  ASSUME Inv, NEW p \in Ids, NEW v \in Versions, NEW k \in DOMAIN Program[v][p], Program[v][p][k].op = "spawn",
         NEW n \in 1..Len(events[p]), IsStarted(events[p][n])
  PROVE  events[p][n].step = k <=> events[p][n].key = Program[v][p][k].key
<1>1. PICK w \in Versions : /\ events[p][n].step \in DOMAIN Program[w][p]
                            /\ Program[w][p][events[p][n].step].op = "spawn"
                            /\ Program[w][p][events[p][n].step].key = events[p][n].key
  BY DEF Inv, TablesInv, SitesInv, IsStarted
<1> QED
  BY <1>1, ChildIdAssumption

\* The outcome of a step that spawned its child is that child.
LEMMA SpawnOutcome ==
  ASSUME Inv, SpawnInv, NEW p \in Ids, NEW v \in Versions, NEW k \in DOMAIN Program[v][p], Program[v][p][k].op = "spawn"
  PROVE  /\ Outcome(p, Program[v][p][k], k) \subseteq {Program[v][p][k].key}
         /\ ChildOf(Program[v][p][k].key, p) => Outcome(p, Program[v][p][k], k) = {Program[v][p][k].key}
<1> DEFINE c == Program[v][p][k].key
<1>1. Outcome(p, Program[v][p][k], k) = {events[p][n].val : n \in find_event(events[p], k, "child_started")}
  BY DEF Outcome, find_child_started_event
<1>2. ASSUME NEW n \in find_event(events[p], k, "child_started") PROVE events[p][n].val = c
  <2>1. n \in 1..Len(events[p]) /\ IsStarted(events[p][n]) /\ events[p][n].step = k
    BY <1>2 DEF find_event, IsStarted
  <2>2. events[p][n].key = c
    BY <2>1, StartedAt
  <2> QED
    BY <2>1, <2>2 DEF SpawnInv
<1>3. ASSUME ChildOf(c, p) PROVE find_event(events[p], k, "child_started") # {}
  <2>1. c \in Ids
    BY ChildIdAssumption
  <2>2. PICK n \in 1..Len(events[p]) : IsStarted(events[p][n]) /\ events[p][n].key = c
    BY <1>3, <2>1 DEF SpawnInv
  <2>3. events[p][n].step = k
    BY <2>2, StartedAt
  <2>4. n \in Found(events[p], k, "child_started") /\ Len(events[p]) \in Nat
    BY <2>2, <2>3 DEF Found, IsStarted, Inv, TypeOK, TablesOK
  <2> QED
    BY <2>4, FindsAny
<1> HIDE DEF c
<1>4. {events[p][n].val : n \in find_event(events[p], k, "child_started")} \subseteq {c}
  BY <1>2
<1>5. ChildOf(c, p) => {events[p][n].val : n \in find_event(events[p], k, "child_started")} = {c}
  BY <1>2, <1>3
<1> QED
  BY <1>1, <1>4, <1>5 DEF c

\* A step that starts no child.
NoSpawn ==
  /\ \A p \in Ids : \A n \in 1..Len(events'[p]) : n > Len(events[p]) => ~IsStarted(events'[p][n])
  /\ \A c \in Ids : (~Has(c) /\ Has(c)') => events'[c][1].key \notin Ids

LEMMA NoSpawnKeeps ==
  ASSUME Inv, Inv', SpawnInv, Grows, NoSpawn
  PROVE  SpawnInv'
<1> SUFFICES ASSUME NEW p \in Ids
             PROVE  /\ \A n \in 1..Len(events'[p]) : IsStarted(events'[p][n]) => events'[p][n].val = events'[p][n].key
                    /\ \A m, n \in 1..Len(events'[p]) :
                         (IsStarted(events'[p][m]) /\ IsStarted(events'[p][n]) /\ events'[p][m].key = events'[p][n].key)
                            => m = n
                    /\ \A c \in Ids : ChildOf(c, p)' =>
                         \E n \in 1..Len(events'[p]) : IsStarted(events'[p][n]) /\ events'[p][n].key = c
  BY DEF SpawnInv, IsStarted
<1>1. /\ Len(events[p]) \in Nat /\ Len(events'[p]) \in Nat /\ Len(events[p]) <= Len(events'[p])
      /\ \A n \in 1..Len(events[p]) : events'[p][n] = events[p][n]
  BY DEF Inv, TypeOK, TablesOK, Grows
<1>2. \A n \in 1..Len(events'[p]) : IsStarted(events'[p][n]) => n \in 1..Len(events[p]) /\ events'[p][n] = events[p][n]
  BY <1>1 DEF NoSpawn
<1>3. ASSUME NEW c \in Ids, ChildOf(c, p)' PROVE ChildOf(c, p)
  <2>1. Has(c)
    BY <1>3 DEF NoSpawn, ChildOf
  <2>2. events'[c][1] = events[c][1]
    <3>1. Len(events[c]) \in Nat /\ Len(events[c]) >= 1
      BY <2>1 DEF Inv, TypeOK, TablesOK, TablesInv, RowsInv
    <3> QED
      BY <3>1 DEF Grows
  <2> QED
    BY <1>3, <2>1, <2>2 DEF ChildOf
<1>4. \A n \in 1..Len(events[p]) : n \in 1..Len(events'[p])
  BY <1>1
<1>5. /\ \A n \in 1..Len(events[p]) : IsStarted(events[p][n]) => events[p][n].val = events[p][n].key
      /\ \A m, n \in 1..Len(events[p]) :
           (IsStarted(events[p][m]) /\ IsStarted(events[p][n]) /\ events[p][m].key = events[p][n].key) => m = n
      /\ \A c \in Ids : ChildOf(c, p) => \E n \in 1..Len(events[p]) : IsStarted(events[p][n]) /\ events[p][n].key = c
  BY DEF SpawnInv
<1> HIDE DEF IsStarted, SpawnInv
<1>6. ASSUME NEW m \in 1..Len(events'[p]), NEW n \in 1..Len(events'[p]), IsStarted(events'[p][m]), IsStarted(events'[p][n]),
             events'[p][m].key = events'[p][n].key
      PROVE  m = n
  BY <1>2, <1>5, <1>6
<1>7. ASSUME NEW c \in Ids, ChildOf(c, p)'
      PROVE  \E n \in 1..Len(events'[p]) : IsStarted(events'[p][n]) /\ events'[p][n].key = c
  <2>1. PICK n \in 1..Len(events[p]) : IsStarted(events[p][n]) /\ events[p][n].key = c
    BY <1>3, <1>5, <1>7
  <2> QED
    BY <1>1, <1>4, <2>1
<1> QED
  BY <1>2, <1>5, <1>6, <1>7

\* Where each log is the same or longer by one event that starts no child.
LEMMA PlainEvents ==
  ASSUME TypeOK, \A i \in Ids : \/ events'[i] = events[i]
                                \/ \E e \in EventRecord : ~IsStarted(e) /\ events'[i] = Append(events[i], e),
         \A c \in Ids : (~Has(c) /\ Has(c)') => events'[c][1].key \notin Ids
  PROVE  NoSpawn
<1> SUFFICES ASSUME NEW p \in Ids, NEW n \in 1..Len(events'[p]), n > Len(events[p])
             PROVE  ~IsStarted(events'[p][n])
  BY DEF NoSpawn
<1>1. CASE events'[p] = events[p]
  <2>1. Len(events[p]) \in Nat
    BY DEF TypeOK, TablesOK
  <2> QED
    BY <1>1, <2>1
<1>2. ASSUME NEW e \in EventRecord, ~IsStarted(e), events'[p] = Append(events[p], e) PROVE ~IsStarted(events'[p][n])
  BY <1>2, NewEvent
<1> QED
  BY <1>1, <1>2

LEMMA SpawnInvStarts ==
  ASSUME Inv, Inv', SpawnInv, TableStep, NEW s \in Slots, spawn_child(s)
  PROVE  SpawnInv'
<1> TypeOK /\ TablesInv
  BY DEF Inv
<1>1. PICK c \in Ids, p \in Ids, k \in Nat : c = Current(s).key /\ p = wf[s] /\ k = step[s]
  BY CurrentTyped, SpawnKey DEF spawn_child, At, TypeOK, RunsOK
<1>2. c # p /\ create_child_workflow(p, c, k)
  BY <1>1, SpawnKey DEF spawn_child
<1>3. CASE Has(c)
  <2>1. UNCHANGED <<status, events>>
    BY <1>2, <1>3 DEF create_child_workflow, tables, Has
  <2> QED
    BY <2>1 DEF SpawnInv, ChildOf, Has
<1>4. CASE ~Has(c)
  <2> DEFINE e == Event("started", 0, p, None)
             f == Event("child_started", k, c, c)
  <2>1. /\ e \in EventRecord /\ e.type = "started" /\ e.key = p
        /\ f \in EventRecord /\ IsStarted(f) /\ f.key = c /\ f.val = c
    BY EventTyped, NoneTyped DEF EventType, Event, Keys, Values, IsStarted
  <2>2. \A j \in Ids : /\ events'[j] = IF j = c THEN Append(events[j], e)
                                       ELSE IF j = p THEN Append(events[j], f) ELSE events[j]
                       /\ status'[j] = IF j = c THEN "running" ELSE status[j]
    BY <1>2, <1>4 DEF create_child_workflow, TypeOK, TablesOK, Has
  <2> HIDE DEF e, f
  <2>0. events'[c] = Append(events[c], e)
    BY <2>2
  <2>3. \A j \in Ids \ {c} : Has(j)' => Has(j)
    BY <2>2 DEF Has
  <2>4. \A n \in 1..Len(events[c]) : FALSE
    <3>1. Len(events[c]) = 0
      BY <1>4 DEF TablesInv, RowsInv
    <3> QED
      BY <3>1
  <2> SUFFICES ASSUME NEW r \in Ids
               PROVE  /\ \A n \in 1..Len(events'[r]) : IsStarted(events'[r][n]) => events'[r][n].val = events'[r][n].key
                      /\ \A m, n \in 1..Len(events'[r]) :
                           (IsStarted(events'[r][m]) /\ IsStarted(events'[r][n]) /\ events'[r][m].key = events'[r][n].key)
                              => m = n
                      /\ \A d \in Ids : ChildOf(d, r)' =>
                           \E n \in 1..Len(events'[r]) : IsStarted(events'[r][n]) /\ events'[r][n].key = d
    BY DEF SpawnInv, IsStarted
  <2>5. ASSUME NEW d \in Ids, d # c, ChildOf(d, r)' PROVE ChildOf(d, r)
    <3>1. Has(d)
      BY <2>3, <2>5 DEF ChildOf
    <3>2. events'[d][1] = events[d][1]
      BY <3>1, FirstStays DEF Inv, TablesInv, TableStep
    <3> QED
      BY <2>5, <3>1, <3>2 DEF ChildOf
  <2>6. ASSUME ChildOf(c, r)' PROVE r = p
    <3>1. Len(events[c]) = 0
      BY <1>4 DEF TablesInv, RowsInv
    <3>2. events'[c][1] = e
      BY <2>0, <2>1, <3>1, Appending
    <3> QED
      BY <2>1, <2>6, <3>2 DEF ChildOf
  <2>7. CASE r = p
    <3> DEFINE L == Len(events[p])
    <3>1. /\ L \in Nat /\ Len(events'[r]) = L + 1
          /\ \A n \in 1..L : events'[r][n] = events[r][n]
          /\ events'[r][L + 1] = f
      BY <1>2, <2>1, <2>2, <2>7, Appending
    <3>2. \A n : n \in 1..Len(events'[r]) <=> n \in 1..L \/ n = L + 1
      BY <3>1
    <3>3. \A n \in 1..L : IsStarted(events[p][n]) => events[p][n].key # c
      <4> SUFFICES ASSUME NEW n \in 1..L, IsStarted(events[p][n]), events[p][n].key = c PROVE FALSE
        OBVIOUS
      <4>1. ChildOf(c, p)
        BY DEF TablesInv, SitesInv, IsStarted
      <4> QED
        BY <1>4, <4>1 DEF ChildOf
    <3> HIDE DEF L
    <3>4. L + 1 \notin 1..L
      BY <3>1
    <3>5. \A n \in 1..Len(events'[r]) : IsStarted(events'[r][n]) => events'[r][n].val = events'[r][n].key
      BY <2>1, <2>7, <3>1, <3>2 DEF SpawnInv, L
    <3>6. \A m, n \in 1..L : (IsStarted(events[p][m]) /\ IsStarted(events[p][n]) /\ events[p][m].key = events[p][n].key) => m = n
      BY DEF SpawnInv, L
    <3>7. \A d \in Ids : ChildOf(d, p) => \E n \in 1..L : IsStarted(events[p][n]) /\ events[p][n].key = d
      BY DEF SpawnInv, L
    <3>8. ASSUME NEW m \in 1..Len(events'[r]), NEW n \in 1..Len(events'[r]),
                 IsStarted(events'[r][m]), IsStarted(events'[r][n]), events'[r][m].key = events'[r][n].key
          PROVE  m = n
      BY <2>1, <2>7, <3>1, <3>2, <3>3, <3>6, <3>8
    <3>9. ASSUME NEW d \in Ids, ChildOf(d, r)'
          PROVE  \E n \in 1..Len(events'[r]) : IsStarted(events'[r][n]) /\ events'[r][n].key = d
      <4>1. CASE d = c
        BY <2>1, <3>1, <3>2, <4>1
      <4>2. CASE d # c
        BY <2>5, <2>7, <3>1, <3>2, <3>7, <3>9, <4>2
      <4> QED
        BY <4>1, <4>2
    <3> QED
      BY <3>5, <3>8, <3>9
  <2>8. CASE r = c
    <3>1. Len(events[r]) = 0 /\ events'[r] = Append(events[r], e)
      BY <1>4, <2>0, <2>8 DEF TablesInv, RowsInv
    <3>2. Len(events'[r]) = 1 /\ events'[r][1] = e
      BY <2>1, <3>1, Appending
    <3>3. \A n \in 1..Len(events'[r]) : ~IsStarted(events'[r][n])
      BY <2>1, <3>2 DEF IsStarted
    <3>4. ASSUME NEW d \in Ids, ChildOf(d, r)' PROVE FALSE
      <4>1. ChildOf(d, r)
        BY <1>2, <2>5, <2>6, <2>8, <3>4
      <4> QED
        BY <2>4, <2>8, <4>1 DEF SpawnInv
    <3> QED
      BY <3>3, <3>4
  <2>9. CASE r # p /\ r # c
    <3>1. events'[r] = events[r] /\ \A d \in Ids : ChildOf(d, r)' => ChildOf(d, r)
      BY <2>2, <2>5, <2>6, <2>9
    <3> QED
      BY <3>1 DEF SpawnInv
  <2> QED
    BY <2>7, <2>8, <2>9
<1> QED
  BY <1>3, <1>4

LEMMA NextSpawn ==
  ASSUME Inv, Inv', TableStep, SpawnInv, [Next]_vars
  PROVE  SpawnInv'
<1> TypeOK /\ TypeOK' /\ TablesInv /\ Grows
  BY DEF Inv, TableStep
<1>1. CASE UNCHANGED <<status, events>>
  BY <1>1 DEF SpawnInv, ChildOf, Has
<1>2. ASSUME NEW i \in Ids, start_workflow(i) PROVE SpawnInv'
  <2> DEFINE e == Event("started", 0, None, None)
  <2>1. e \in EventRecord /\ ~IsStarted(e) /\ e.key = None
    BY EventTyped, NoneTyped DEF EventType, Event, IsStarted
  <2>2. /\ events'[i] = Append(events[i], e) /\ \A j \in Ids \ {i} : events'[j] = events[j]
        /\ \A j \in Ids \ {i} : status'[j] = status[j]
    BY <1>2 DEF start_workflow, create_workflow, Appended, TypeOK, TablesOK
  <2> HIDE DEF e
  <2>3. ~Has(i) => events'[i][1].key \notin Ids
    <3> SUFFICES ASSUME ~Has(i) PROVE events'[i][1].key \notin Ids
      OBVIOUS
    <3>1. Len(events[i]) = 0
      BY DEF TablesInv, RowsInv
    <3>2. events'[i][1] = e
      BY <2>1, <2>2, <3>1, Appending
    <3> QED
      BY <2>1, <3>2, DistinctAssumption
  <2>4. NoSpawn
    BY <2>1, <2>2, <2>3, PlainEvents DEF Has
  <2> QED
    BY <2>4, NoSpawnKeeps
<1>3. ASSUME NEW q \in Requests, write_signal(q) PROVE SpawnInv'
  <2>1. SignalTo[q] \in Ids /\ SignalType[q] \in SignalTypes /\ Has(SignalTo[q])
    BY <1>3, ConstantsAssumption DEF write_signal, Inv, RequestsInv
  <2> DEFINE e == Event("signal", 0, SignalType[q], q)
             i == SignalTo[q]
  <2>2. e \in EventRecord /\ ~IsStarted(e)
    BY <2>1, EventTyped DEF EventType, Event, Keys, Values, IsStarted
  <2>3. /\ events'[i] = Append(events[i], e) /\ \A j \in Ids \ {i} : events'[j] = events[j] /\ status'[j] = status[j]
    BY <1>3, <2>1 DEF write_signal, write_signal_and_wake_workflow, Appended, TypeOK, TablesOK
  <2> HIDE DEF e, i
  <2>4. NoSpawn
    BY <2>1, <2>2, <2>3, PlainEvents DEF Has, i
  <2> QED
    BY <2>4, NoSpawnKeeps
<1>4. ASSUME NEW s \in Slots, Writes(s) PROVE SpawnInv'
  <2>1. wf[s] \in Ids /\ UNCHANGED status
    BY <1>4, WritesOne DEF rows
  <2>2. CASE UNCHANGED events
    BY <1>1, <2>1, <2>2
  <2>3. ASSUME NEW e \in EventRecord, events' = Appended(wf[s], e), e.type \in Own \/ e.type = "signal" PROVE SpawnInv'
    <3>1. ~IsStarted(e) /\ events'[wf[s]] = Append(events[wf[s]], e) /\ \A j \in Ids \ {wf[s]} : events'[j] = events[j]
      BY <2>1, <2>3 DEF Appended, TypeOK, TablesOK, IsStarted, Own
    <3>2. NoSpawn
      BY <2>1, <3>1, PlainEvents DEF Has
    <3> QED
      BY <3>2, NoSpawnKeeps
  <2> QED
    BY <1>4, <2>2, <2>3, WritesOne
<1>5. ASSUME NEW s \in Slots, mark_waiting(s) PROVE SpawnInv'
  <2>1. wf[s] \in Ids /\ Has(wf[s]) /\ UNCHANGED events /\ \A j \in Ids \ {wf[s]} : status'[j] = status[j]
    BY <1>5, RunHas DEF mark_waiting, mark_workflow_waiting, Active, TypeOK, TablesOK
  <2>2. NoSpawn
    BY <2>1, PlainEvents DEF Has
  <2> QED
    BY <2>2, NoSpawnKeeps
<1>6. ASSUME NEW s \in Slots, EndsRun(s) PROVE SpawnInv'
  <2>0. wf[s] \in Ids /\ Has(wf[s]) /\ parent_info(s) = events[wf[s]][1].key
    <3>1. Active(s) /\ pc[s] # "load"
      BY <1>6 DEF EndsRun, finish, fail, exhaust_retries, Active
    <3> QED
      BY <3>1, RunHas, ParentInfo
  <2> DEFINE i == wf[s]
             p == events[wf[s]][1].key
  <2>1. PICK type \in {"workflow_completed", "workflow_failed"}, final \in Terminal, v \in {Done, Failed} :
          write_terminal_workflow_event(i, type, final, p, v)
    <3>1. CASE complete_workflow(i, p)
      BY <3>1 DEF complete_workflow, Terminal
    <3>2. CASE fail_workflow(i, p)
      BY <3>2 DEF fail_workflow, Terminal
    <3> QED
      BY <1>6, <2>0, <3>1, <3>2 DEF EndsRun, finish, fail, exhaust_retries
  <2> DEFINE e == Event(type, 0, None, None)
             f == Event("signal", 0, i, v)
  <2>2. e \in EventRecord /\ ~IsStarted(e) /\ f \in EventRecord /\ ~IsStarted(f)
    BY <2>0, EventTyped, NoneTyped DEF EventType, Event, Keys, IsStarted
  <2>3. \A j \in Ids : /\ events'[j] = IF j = i THEN Append(events[j], e) ELSE IF j = p THEN Append(events[j], f) ELSE events[j]
                       /\ status'[j] = IF j = i THEN final ELSE IF j = p THEN "running" ELSE status[j]
    BY <2>1 DEF write_terminal_workflow_event
  <2> HIDE DEF e, f
  <2>4. p \in Ids => Has(p)
    BY <2>0, ParentOf
  <2>5. \A j \in Ids : Has(j)' => Has(j)
    BY <2>0, <2>3, <2>4 DEF Has
  <2>6. NoSpawn
    BY <2>2, <2>3, <2>5, PlainEvents
  <2> QED
    BY <2>6, NoSpawnKeeps
<1> QED
  BY <1>1, <1>2, <1>3, <1>4, <1>5, <1>6, SpawnInvStarts, StepKind DEF TableKind

-----------------------------------------------------------------------------
(***************************************************************************)
(* What a run returns to the workflow function.                            *)
(***************************************************************************)
\* The log records v as the outcome of the step s is at; a child is recorded by
\* the event that SpawnInv speaks of.
Learned(s, v) ==
  \E i \in Ids, c \in StepRecord, k \in Nat :
    /\ i = wf[s] /\ c = Current(s) /\ k = step[s]
    /\ IF c.op = "spawn" THEN v = c.key ELSE v \in Outcome(i, c, k)'

\* A value returned is the outcome in the log, except that of an activity that has
\* just completed, which may come after another (of a run that lost its lease).
LEMMA Returning ==
  ASSUME Inv, SpawnInv, NEW s \in Slots, RunStep(s)
  PROVE  \/ run_workflow(s) \/ Suspend(s)
         \/ \E to \in PC : Await(s, to) \/ AwaitDeadline(s, to)
         \/ \E r \in Results : complete_activity(s, r)
         \/ \E v \in Values : Return(s, v) /\ Learned(s, v)
<1> TypeOK
  BY DEF Inv
<1> USE DEF PC
<1>0. ASSUME AtStep(s)
      PROVE  Active(s) /\ pc[s] # "load" /\ wf[s] \in Ids /\ Current(s) \in StepRecord /\ step[s] \in Nat
  BY <1>0, CurrentTyped DEF AtStep, TypeOK, RunsOK
<1>1. CASE RunnerStep(s)
  BY <1>1 DEF RunnerStep, finish, raise, fail
<1>2. CASE ActivityStep(s)
  <2>1. CASE replay_activity(s)
    <3>1. PICK n \in find_completed_event(history[s], step[s]) : Return(s, history[s][n].val)
      BY <2>1 DEF replay_activity
    <3>2. At(s, "activity") /\ AtStep(s) /\ UNCHANGED <<events, elapsed>>
      BY <2>1, <3>1 DEF replay_activity, At, tables, Return
    <3>3. n \in find_completed_event(events[wf[s]], step[s]) /\ events[wf[s]][n] = history[s][n]
      BY <1>0, <3>1, <3>2, HistoryFinds DEF find_completed_event
    <3>4. history[s][n].val \in Outcome(wf[s], Current(s), step[s])
      BY <3>2, <3>3 DEF Outcome, At
    <3>5. PICK i \in Ids, c \in StepRecord, k \in Nat : i = wf[s] /\ c = Current(s) /\ k = step[s]
      BY <1>0, <3>2
    <3>6. Outcome(i, c, k)' = Outcome(i, c, k)
      BY <3>2 DEF Outcome, SleepElapsed
    <3>7. history[s][n].val \in Values
      BY <3>1, FoundAt DEF find_completed_event, TypeOK, RunsOK
    <3> QED
      BY <3>1, <3>2, <3>4, <3>5, <3>6, <3>7 DEF Learned, At
  <2> QED
    BY <1>2, <2>1 DEF ActivityStep, DivergenceError, schedule, fail_activity, retry, exhaust_retries
<1>3. CASE SleepStep(s)
  <2>1. CASE wake_up(s)
    <3>1. At(s, "sleep") /\ AtStep(s) /\ UNCHANGED <<events, elapsed>> /\ Return(s, None)
      BY <2>1 DEF wake_up, At, tables, Return
    <3>2. PICK n \in find_event(history[s], step[s], "sleep") : n \in elapsed[wf[s]]
      BY <2>1 DEF wake_up, SleepElapsed
    <3>3. n \in find_event(events[wf[s]], step[s], "sleep")
      BY <1>0, <3>1, <3>2, HistoryFinds
    <3>4. None \in Outcome(wf[s], Current(s), step[s])
      BY <3>1, <3>2, <3>3 DEF Outcome, SleepElapsed, At
    <3>5. PICK i \in Ids, c \in StepRecord, k \in Nat : i = wf[s] /\ c = Current(s) /\ k = step[s]
      BY <1>0, <3>1
    <3>6. Outcome(i, c, k)' = Outcome(i, c, k)
      BY <3>1 DEF Outcome, SleepElapsed
    <3> QED
      BY <3>1, <3>4, <3>5, <3>6, NoneTyped DEF Learned, At
  <2> QED
    BY <1>3, <2>1 DEF SleepStep, re_suspend, start_sleep, suspend_sleep
<1>4. CASE WaitStep(s)
  <2>1. ASSUME Current(s).op \in {"signal", "join"}, UNCHANGED tables,
               wf[s] \in Ids, Current(s) \in StepRecord, step[s] \in Nat,
               NEW n \in find_signal_event(events[wf[s]], Current(s).key), Received(s, events[wf[s]][n].val)
        PROVE  \/ \E to \in PC : Await(s, to)
               \/ \E v \in Values : Return(s, v) /\ Learned(s, v)
    <3> DEFINE v == events[wf[s]][n].val
    <3>1. Await(s, "fail") \/ Return(s, v)
      BY <2>1 DEF Received
    <3>2. v \in Values
      BY <2>1, FoundAt DEF TypeOK, TablesOK
    <3>3. v \in Outcome(wf[s], Current(s), step[s])
      BY <2>1 DEF Outcome
    <3>4. PICK i \in Ids, c \in StepRecord, k \in Nat : i = wf[s] /\ c = Current(s) /\ k = step[s]
      BY <2>1
    <3>5. ASSUME Return(s, v) PROVE Outcome(i, c, k)' = Outcome(i, c, k)
      BY <2>1, <3>5 DEF Outcome, SleepElapsed, tables, Return
    <3> HIDE DEF v
    <3> QED
      BY <2>1, <3>1, <3>2, <3>3, <3>4, <3>5 DEF Learned
  <2>2. CASE replay_wait(s)
    <3>1. PICK n \in find_signal_event(history[s], Current(s).key) : Received(s, history[s][n].val)
      BY <2>2 DEF replay_wait
    <3>2. AtStep(s) /\ Current(s).op \in {"signal", "join"} /\ UNCHANGED tables
      BY <2>2 DEF replay_wait, AtWait
    <3>3. n \in find_signal_event(events[wf[s]], Current(s).key) /\ events[wf[s]][n] = history[s][n]
      BY <1>0, <3>1, <3>2, HistoryFinds
    <3> QED
      BY <1>0, <2>1, <3>1, <3>2, <3>3
  <2>3. CASE reload(s)
    <3>1. Active(s) /\ pc[s] = "reload"
      BY <2>3 DEF reload, Active
    <3>2. Current(s).op \in {"signal", "join"} /\ step[s] \in DOMAIN Body(s)
      BY <3>1 DEF Inv, RunInv, InStep
    <3>3. wf[s] \in Ids /\ Current(s) \in StepRecord /\ step[s] \in Nat
      BY <3>1, <3>2, BodyTyped, RunHas DEF Current
    <3> QED
      BY <2>1, <2>3, <3>2, <3>3 DEF reload
  <2> QED
    BY <1>4, <2>2, <2>3 DEF WaitStep, write_marker, mark_waiting, already_received
<1>5. CASE SpawnStep(s)
  <2>1. At(s, "spawn") /\ AtStep(s)
    BY <1>5 DEF SpawnStep, replay_spawn, spawn_child, At
  <2>2. PICK i \in Ids, c \in StepRecord, d \in Nat : i = wf[s] /\ c = Current(s) /\ d = step[s]
    BY <1>0, <2>1
  <2>3. c.op = "spawn" /\ c.key \in Ids
    BY <2>1, <2>2, SpawnKey DEF At
  <2>4. c.key \in Values
    BY <2>3 DEF Values
  <2>5. CASE replay_spawn(s)
    <3>1. PICK n \in find_child_started_event(history[s], step[s]) : Return(s, history[s][n].val)
      BY <2>5 DEF replay_spawn
    <3>2. n \in find_child_started_event(events[i], d) /\ events[i][n] = history[s][n]
      <4>1. Active(s) /\ pc[s] # "load"
        BY <1>0, <2>1
      <4>2. n \in find_event(history[s], step[s], "child_started")
        BY <3>1 DEF find_child_started_event
      <4>3. n \in find_event(events[wf[s]], step[s], "child_started") /\ events[wf[s]][n] = history[s][n]
        <5>1. ASSUME NEW type PROVE find_event(history[s], step[s], type) \subseteq find_event(events[wf[s]], step[s], type)
          BY <4>1, HistoryFinds
        <5>2. ASSUME NEW type, NEW m \in find_event(history[s], step[s], type) PROVE events[wf[s]][m] = history[s][m]
          BY <4>1, HistoryFinds
        <5> QED
          BY <4>2, <5>1, <5>2
      <4> QED
        BY <2>2, <4>3 DEF find_child_started_event
    <3>3. history[s][n].val \in Outcome(i, c, d)
      BY <2>3, <3>2 DEF Outcome
    <3>4. PICK v \in Versions : d \in DOMAIN Program[v][i] /\ c = Program[v][i][d]
      BY <2>1, <2>2, CurrentTyped, BodyTyped DEF Body, Current
    <3>5. history[s][n].val = c.key
      <4>1. Outcome(i, Program[v][i][d], d) \subseteq {Program[v][i][d].key}
        BY <2>3, <3>4, SpawnOutcome
      <4> QED
        BY <3>3, <3>4, <4>1
    <3> QED
      BY <2>2, <2>3, <2>4, <3>1, <3>5 DEF Learned
  <2>6. CASE spawn_child(s)
    BY <2>2, <2>3, <2>4, <2>6 DEF spawn_child, Learned
  <2> QED
    BY <1>5, <2>5, <2>6 DEF SpawnStep
<1> QED
  BY <1>1, <1>2, <1>3, <1>4, <1>5 DEF RunStep

-----------------------------------------------------------------------------
(***************************************************************************)
(* Steps of the system as the runs see them.                               *)
(***************************************************************************)
\* The runs of the slots in S are gone; other workers run the code they ran.
LosesRuns(S) ==
  /\ Over(S) /\ UNCHANGED <<tables, elapsed>>
  /\ \A t \in Slots \ S : code'[WorkerOf[t]] = code[WorkerOf[t]]

\* A database call raised in the workflow function.
Breaks(s) ==
  /\ Active(s) /\ pc[s] # "load" /\ Fault("error")
  /\ pc' = [pc EXCEPT ![s] = "fail"]
  /\ UNCHANGED <<tables, elapsed, wf, history, step, values, wake, code>>

RunKind ==
  \/ UNCHANGED <<run, code>>
  \/ \E s \in Slots : \/ RunStep(s) \/ Breaks(s)
                      \/ \E i \in Ids : claim(s, i)
                      \/ \E r \in Results : notify_error(s, r)
  \/ \E S \in SUBSET Slots : LosesRuns(S)

LEMMA NextRuns ==
  ASSUME TypeOK, [Next]_vars
  PROVE  RunKind
<1>1. ASSUME UNCHANGED <<run, code>> PROVE RunKind
  BY <1>1 DEF RunKind
<1>2. ASSUME \/ UNCHANGED vars
             \/ \E i \in Ids : start_workflow(i) \/ ClockStep(i) \/ stall(i)
             \/ \E q \in Requests : send_signal(q) \/ write_signal(q)
             \/ \E s \in Slots : heartbeat(s)
      PROVE  RunKind
  BY <1>1, <1>2 DEF vars, run, others, start_workflow, ClockStep, lapse, LetLapse, Elapse, send_signal, write_signal,
     heartbeat, stall
<1>3. ASSUME NEW w \in Workers, NEW v \in Versions, restart(w, v) PROVE RunKind
  <2> DEFINE S == {s \in Slots : WorkerOf[s] = w}
  <2>1. \A t \in Slots \ S : code'[WorkerOf[t]] = code[WorkerOf[t]]
    BY <1>3, ConstantsAssumption DEF restart, TypeOK
  <2>2. LosesRuns(S) /\ S \in SUBSET Slots
    BY <1>3, <2>1 DEF LosesRuns, restart
  <2> QED
    BY <2>2 DEF RunKind
<1>4. ASSUME NEW s \in Slots, activity_cancelled(s) PROVE RunKind
  <2>1. LosesRuns({s})
    BY <1>4 DEF activity_cancelled, LosesRuns
  <2> QED
    BY <2>1 DEF RunKind
<1>5. ASSUME NEW s \in Slots, database_error(s) PROVE RunKind
  <2>1. CASE InRunner(s)
    <3>1. LosesRuns({s})
      BY <1>5, <2>1 DEF database_error, LosesRuns
    <3> QED
      BY <3>1 DEF RunKind
  <2>2. CASE ~InRunner(s)
    BY <1>5, <2>2 DEF database_error, InRunner, Breaks, RunKind
  <2> QED
    BY <2>1, <2>2
<1> QED
  BY <1>2, <1>3, <1>4, <1>5 DEF RunKind, Next, FaultStep

-----------------------------------------------------------------------------
(***************************************************************************)
(* Every step a run is past, and every step of a completed workflow, has   *)
(* its outcome in the log.                                                 *)
(***************************************************************************)
\* Spawning steps are the matter of SpawnInv (SpawnOutcome).
Backed(s) ==
  Active(s) => \A k \in DOMAIN Body(s) :
    (k < step[s] /\ Body(s)[k].op # "spawn") => Outcome(wf[s], Body(s)[k], k) # {}

BackedInv == Inv /\ SpawnInv /\ CompletedIsBacked /\ \A s \in Slots : Backed(s)

LEMMA BackedStays ==
  ASSUME Inv, TypeOK', Grows, Unforgotten, NEW t \in Slots, Active(t), Backed(t),
         wf'[t] = wf[t], code'[WorkerOf[t]] = code[WorkerOf[t]],
         \/ step'[t] = step[t]
         \/ step'[t] = step[t] + 1 /\ \E i \in Ids, c \in StepRecord, k \in Nat :
              /\ i = wf[t] /\ c = Current(t) /\ k = step[t]
              /\ c.op # "spawn" => Outcome(i, c, k)' # {}
  PROVE  Backed(t)'
<1>1. Body(t)' = Body(t) /\ Body(t) \in Seq(StepRecord) /\ wf[t] \in Ids
  BY SameBody, BodyTyped DEF Inv
<1>2. PICK i \in Ids, b \in Seq(StepRecord) : i = wf[t] /\ b = Body(t)
  BY <1>1
<1>3. ASSUME NEW k \in DOMAIN b, k < step[t], b[k].op # "spawn" PROVE Outcome(i, b[k], k)' # {}
  <2>1. Outcome(i, b[k], k) # {}
    BY <1>2, <1>3 DEF Backed
  <2> QED
    BY <2>1, OutcomeStays DEF Inv
<1>4. ASSUME step'[t] = step[t] + 1, NEW k \in DOMAIN b, k = step[t], b[k].op # "spawn"
      PROVE  Outcome(i, b[k], k)' # {}
  <2>1. b[k] = Current(t) /\ step'[t] # step[t]
    BY <1>2, <1>4 DEF Current, Inv, TypeOK, RunsOK
  <2> QED
    BY <1>2, <1>4, <2>1
<1>5. \A k \in DOMAIN b : k \in Nat /\ step[t] \in Nat
  BY DEF Inv, TypeOK, RunsOK
<1>6. ASSUME NEW k \in DOMAIN b, k < step'[t], b[k].op # "spawn" PROVE Outcome(i, b[k], k)' # {}
  <2>1. k < step[t] \/ (step'[t] = step[t] + 1 /\ k = step[t])
    <3>1. step'[t] = step[t] \/ step'[t] = step[t] + 1
      OBVIOUS
    <3>2. k \in Nat /\ step[t] \in Nat
      BY <1>5
    <3>3. CASE step'[t] = step[t]
      BY <1>6, <3>3
    <3>4. CASE step'[t] = step[t] + 1
      <4>1. k < step[t] + 1
        BY <1>6, <3>4
      <4> QED
        BY <3>2, <3>4, <4>1
    <3> QED
      BY <3>1, <3>3, <3>4
  <2> QED
    BY <1>3, <1>4, <1>6, <2>1
<1> QED
  BY <1>1, <1>2, <1>6 DEF Backed

LEMMA BackedFresh ==
  ASSUME TypeOK', NEW t \in Slots, pc'[t] = "idle" \/ step'[t] = 1
  PROVE  Backed(t)'
<1>1. CASE Active(t)'
  <2>1. Body(t)' \in Seq(StepRecord) /\ step'[t] = 1
    BY <1>1, ConstantsAssumption DEF TypeOK, RunsOK, Active, Body
  <2>2. \A k \in DOMAIN Body(t)' : ~(k < 1)
    BY <2>1
  <2> QED
    BY <2>1, <2>2 DEF Backed
<1>2. CASE ~Active(t)'
  BY <1>2 DEF Backed
<1> QED
  BY <1>1, <1>2

LEMMA BackedSame ==
  ASSUME Inv, TypeOK', Grows, Unforgotten, NEW t \in Slots, Same(t), Backed(t)
  PROVE  Backed(t)'
<1>1. CASE Active(t)
  BY <1>1, BackedStays DEF Same
<1>2. CASE ~Active(t)
  BY <1>2, BackedFresh DEF Same, Active
<1> QED
  BY <1>1, <1>2

\* A COMPLETED event decides the step, whether it is the first or not.
LEMMA CompletedDecides ==
  ASSUME Inv, TypeOK', NEW s \in Slots, pc[s] = "exec", NEW r \in Results,
         write_event(wf[s], Event("completed", step[s], None, r))
  PROVE  \E i \in Ids, c \in StepRecord, k \in Nat :
           i = wf[s] /\ c = Current(s) /\ c.op = "activity" /\ k = step[s] /\ Outcome(i, c, k)' # {}
<1>1. Active(s) /\ wf[s] \in Ids /\ step[s] \in Nat /\ Current(s).op = "activity" /\ step[s] \in DOMAIN Body(s)
  BY RunHas DEF Active, Inv, RunInv, InStep
<1>2. Current(s) \in StepRecord
  BY <1>1, BodyTyped DEF Current, Inv
<1>3. PICK i \in Ids, c \in StepRecord, k \in Nat : i = wf[s] /\ c = Current(s) /\ k = step[s]
  BY <1>1, <1>2
<1> DEFINE e == Event("completed", k, None, r)
<1>4. e \in EventRecord /\ e.type = "completed" /\ e.step = k
  BY EventTyped, NoneTyped DEF EventType, Event, Values
<1>5. events'[i] = Append(events[i], e)
  BY <1>3 DEF write_event, Appended, Inv, TypeOK, TablesOK
<1> HIDE DEF e
<1>6. Len(events[i]) + 1 \in 1..Len(events'[i]) /\ events'[i][Len(events[i]) + 1] = e /\ Len(events'[i]) \in Nat
  BY <1>4, <1>5, Appending DEF Inv
<1>7. Found(events'[i], k, "completed") # {}
  BY <1>4, <1>6 DEF Found
<1>8. find_event(events'[i], k, "completed") # {}
  BY <1>6, <1>7, FindsAny
<1>9. Outcome(i, c, k)' = {events'[i][n].val : n \in find_event(events'[i], k, "completed")}
  BY <1>1, <1>3 DEF Outcome, find_completed_event
<1>10. Outcome(i, c, k)' # {}
  BY <1>8, <1>9
<1> QED
  BY <1>1, <1>3, <1>10

LEMMA RunBacked ==
  ASSUME BackedInv, TypeOK', Grows, Unforgotten, NEW s \in Slots, RunStep(s)
  PROVE  Backed(s)'
<1> Inv /\ TypeOK /\ SpawnInv /\ Backed(s)
  BY DEF BackedInv, Inv
<1>0. Active(s) /\ step[s] \in Nat
  <2>1. RunStep(s) => pc[s] # "idle"
    BY DEF RunStep, RunnerStep, ActivityStep, SleepStep, WaitStep, SpawnStep,
       run_workflow, finish, raise, fail, replay_activity, DivergenceError, NotReplayed, schedule, complete_activity,
       fail_activity, retry, exhaust_retries, wake_up, re_suspend, start_sleep, suspend_sleep, replay_wait, write_marker,
       mark_waiting, already_received, reload, replay_spawn, spawn_child, At, AtWait, AtStep
  <2> QED
    BY <2>1 DEF Active, TypeOK, RunsOK
<1>1. CASE run_workflow(s)
  BY <1>0, <1>1, BackedStays DEF run_workflow
<1>2. CASE Suspend(s)
  BY <1>2, BackedFresh DEF Suspend, Over
<1>3. ASSUME NEW to \in PC, Await(s, to) \/ AwaitDeadline(s, to) PROVE Backed(s)'
  BY <1>0, <1>3, BackedStays DEF Await, AwaitDeadline
<1>4. ASSUME NEW v, Return(s, v) PROVE step'[s] = step[s] + 1 /\ wf'[s] = wf[s] /\ code'[WorkerOf[s]] = code[WorkerOf[s]]
  BY <1>4 DEF Return, TypeOK, RunsOK
<1>5. ASSUME NEW r \in Results, complete_activity(s, r) PROVE Backed(s)'
  <2>1. pc[s] = "exec" /\ Return(s, r) /\ write_event(wf[s], Event("completed", step[s], None, r))
    BY <1>5 DEF complete_activity
  <2>2. \E i \in Ids, c \in StepRecord, k \in Nat :
           i = wf[s] /\ c = Current(s) /\ c.op = "activity" /\ k = step[s] /\ Outcome(i, c, k)' # {}
    BY <2>1, CompletedDecides
  <2> QED
    BY <1>0, <1>4, <2>1, <2>2, BackedStays
<1>6. ASSUME NEW v \in Values, Return(s, v), Learned(s, v) PROVE Backed(s)'
  <2>1. \E i \in Ids, c \in StepRecord, k \in Nat :
          i = wf[s] /\ c = Current(s) /\ k = step[s] /\ (c.op # "spawn" => Outcome(i, c, k)' # {})
    BY <1>6 DEF Learned
  <2> QED
    BY <1>0, <1>4, <1>6, <2>1, BackedStays
<1> QED
  BY <1>1, <1>2, <1>3, <1>5, <1>6, Returning

LEMMA NextRunsBacked ==
  ASSUME BackedInv, TypeOK', Grows, Unforgotten, [Next]_vars, NEW t \in Slots
  PROVE  Backed(t)'
<1> Inv /\ TypeOK /\ SpawnInv /\ Backed(t)
  BY DEF BackedInv, Inv
<1>1. CASE UNCHANGED <<run, code>>
  BY <1>1, BackedSame DEF Same, run
<1>2. ASSUME NEW s \in Slots, RunStep(s) PROVE Backed(t)'
  BY <1>2, RunBacked, RunWake, BackedSame DEF Advance, OthersStay
<1>3. ASSUME NEW s \in Slots, Breaks(s) PROVE Backed(t)'
  <2>1. CASE t = s
    BY <1>3, <2>1, BackedStays DEF Breaks
  <2>2. CASE t # s
    BY <1>3, <2>2, BackedSame DEF Breaks, Same, TypeOK, RunsOK
  <2> QED
    BY <2>1, <2>2
<1>4. ASSUME NEW s \in Slots, NEW i \in Ids, claim(s, i) PROVE Backed(t)'
  <2>1. CASE t = s
    <3>1. step'[s] = 1
      BY <1>4 DEF claim, Inv, RunInv, Prefix
    <3> QED
      BY <2>1, <3>1, BackedFresh
  <2>2. CASE t # s
    BY <1>4, <2>2, BackedSame DEF claim, Same, TypeOK, RunsOK
  <2> QED
    BY <2>1, <2>2
<1>5. ASSUME NEW s \in Slots, NEW r \in Results, notify_error(s, r) PROVE Backed(t)'
  <2>1. CASE t = s
    BY <1>5, <2>1, BackedStays DEF notify_error, Active
  <2>2. CASE t # s
    BY <1>5, <2>2, BackedSame DEF notify_error, Same, TypeOK, RunsOK
  <2> QED
    BY <2>1, <2>2
<1>6. ASSUME NEW S \in SUBSET Slots, LosesRuns(S) PROVE Backed(t)'
  <2>1. CASE t \in S
    BY <1>6, <2>1, BackedFresh DEF LosesRuns, Over
  <2>2. CASE t \notin S
    BY <1>6, <2>2, BackedSame DEF LosesRuns, Over, Same
  <2> QED
    BY <2>1, <2>2
<1> QED
  BY <1>1, <1>2, <1>3, <1>4, <1>5, <1>6, NextRuns DEF RunKind

\* Only a run that returned from its workflow function completes the workflow.
LEMMA OnlyFinishCompletes ==
  ASSUME Inv, [Next]_vars, NEW i \in Ids, status'[i] = "completed", status[i] # "completed"
  PROVE  \E s \in Slots : finish(s) /\ wf[s] = i
<1> TypeOK
  BY DEF Inv
<1>1. ASSUME NEW j \in Ids, start_workflow(j) PROVE FALSE
  BY <1>1 DEF start_workflow, create_workflow, TypeOK, TablesOK
<1>2. ASSUME NEW q \in Requests, write_signal(q) PROVE FALSE
  BY <1>2 DEF write_signal, write_signal_and_wake_workflow, TypeOK, TablesOK
<1>3. ASSUME NEW s \in Slots, Writes(s) \/ spawn_child(s) \/ mark_waiting(s) PROVE FALSE
  <2>1. ASSUME Writes(s) PROVE FALSE
    BY <2>1, WritesOne DEF rows
  <2>2. ASSUME spawn_child(s) PROVE FALSE
    BY <2>2 DEF spawn_child, create_child_workflow, tables, TypeOK, TablesOK
  <2>3. ASSUME mark_waiting(s) PROVE FALSE
    BY <2>3 DEF mark_waiting, mark_workflow_waiting, TypeOK, TablesOK
  <2> QED
    BY <1>3, <2>1, <2>2, <2>3
<1>4. ASSUME NEW s \in Slots, fail_workflow(wf[s], parent_info(s)) PROVE FALSE
  BY <1>4 DEF fail_workflow, write_terminal_workflow_event
<1>5. ASSUME NEW s \in Slots, EndsRun(s) PROVE finish(s) /\ wf[s] = i
  <2>1. finish(s)
    BY <1>4, <1>5 DEF EndsRun, fail, exhaust_retries
  <2> QED
    BY <2>1 DEF finish, complete_workflow, write_terminal_workflow_event
<1> QED
  BY <1>1, <1>2, <1>3, <1>5, StepKind DEF TableKind

LEMMA NextBacked ==
  ASSUME BackedInv, [Next]_vars
  PROVE  BackedInv'
<1> Inv /\ TypeOK /\ SpawnInv
  BY DEF BackedInv, Inv
<1>1. Inv' /\ TypeOK'
  BY NextWake DEF Inv
<1>2. TableStep /\ Grows /\ Unforgotten
  BY <1>1, NextTable, ElapsedStays DEF TableStep
<1>3. SpawnInv'
  BY <1>1, <1>2, NextSpawn
<1>4. \A t \in Slots : Backed(t)'
  BY <1>1, <1>2, NextRunsBacked
<1>5. CompletedIsBacked'
  <2> SUFFICES ASSUME NEW i \in Ids, status'[i] = "completed"
               PROVE  \E v \in Versions : \A k \in 1..Len(Program[v][i]) : Outcome(i, Program[v][i][k], k)' # {}
    BY DEF CompletedIsBacked
  <2>1. PICK v \in Versions : \A k \in 1..Len(Program[v][i]) : Outcome(i, Program[v][i][k], k) # {}
    <3>1. CASE status[i] = "completed"
      BY <3>1 DEF BackedInv, CompletedIsBacked
    <3>2. CASE status[i] # "completed"
      <4>1. PICK s \in Slots : finish(s) /\ wf[s] = i
        BY <3>2, OnlyFinishCompletes
      <4>2. Active(s) /\ step[s] > Len(Body(s)) /\ step[s] \in Nat
        BY <4>1 DEF finish, Active, TypeOK, RunsOK
      <4>3. PICK v \in Versions : v = code[WorkerOf[s]] /\ Body(s) = Program[v][i] /\ Program[v][i] \in Seq(StepRecord)
        BY <4>1, <4>2, BodyTyped DEF Body
      <4>4. ASSUME NEW k \in 1..Len(Program[v][i]) PROVE Outcome(i, Program[v][i][k], k) # {}
        <5>1. k \in DOMAIN Body(s) /\ k < step[s] /\ k \in DOMAIN Program[v][i]
          BY <4>2, <4>3
        <5>2. CASE Program[v][i][k].op = "spawn"
          <6>1. ChildOf(Program[v][i][k].key, i)
            BY <4>1, <4>2, <4>3, <5>1, <5>2 DEF Inv, RunInv, Passed
          <6>2. ASSUME NEW d \in DOMAIN Program[v][i], Program[v][i][d].op = "spawn", ChildOf(Program[v][i][d].key, i)
                PROVE  Outcome(i, Program[v][i][d], d) = {Program[v][i][d].key}
            BY <6>2, SpawnOutcome
          <6> QED
            BY <5>1, <5>2, <6>1, <6>2
        <5>3. CASE Program[v][i][k].op # "spawn"
          BY <4>1, <4>2, <4>3, <5>1, <5>3 DEF BackedInv, Backed
        <5> QED
          BY <5>2, <5>3
      <4> QED
        BY <4>4
    <3> QED
      BY <3>1, <3>2
  <2>2. \A k \in 1..Len(Program[v][i]) : Outcome(i, Program[v][i][k], k)' # {}
    BY <1>1, <1>2, <2>1, OutcomeStays
  <2> QED
    BY <2>2
<1> QED
  BY <1>1, <1>3, <1>4, <1>5 DEF BackedInv

LEMMA InitBacked == Init => BackedInv
<1> SUFFICES ASSUME Init PROVE BackedInv
  OBVIOUS
<1>1. Inv
  BY InitWake
<1>2. \A i \in Ids : Len(events[i]) = 0 /\ status[i] = "absent"
  BY DEF Init, TablesInit
<1>3. SpawnInv /\ CompletedIsBacked
  BY <1>2 DEF SpawnInv, CompletedIsBacked, ChildOf, Has
<1>4. \A s \in Slots : Backed(s)
  BY DEF Init, Backed, Active
<1> QED
  BY <1>1, <1>3, <1>4 DEF BackedInv

\* The invariant of this section holds of the engine, stalls included.
THEOREM BackedInvariant == Spec => []BackedInv
BY InitBacked, NextBacked, PTL DEF Spec

\* A workflow is completed only when every step of its code is in the log.
THEOREM CompletedBacked == Spec => []CompletedIsBacked
<1>1. BackedInv => CompletedIsBacked
  BY DEF BackedInv
<1> QED
  BY <1>1, BackedInvariant, PTL

\* The two sides of SpawnedOnce: the log of p names c, and the row of c names p.
Named(p, c) == \E n \in 1..Len(events[p]) : events[p][n].type = "child_started" /\ events[p][n].key = c
StartedBy(c, p) == status[c] # "absent" /\ \E n \in find_event(events[c], 0, "started") : events[c][n].key = p

LEMMA FirstStarted ==
  ASSUME TypeOK, RowsInv, NEW c \in Ids, NEW p \in Ids
  PROVE  StartedBy(c, p) <=> ChildOf(c, p)
<1> SUFFICES ASSUME Has(c)
             PROVE  (\E n \in find_event(events[c], 0, "started") : events[c][n].key = p) <=> events[c][1].key = p
  BY DEF StartedBy, ChildOf, Has
<1>1. Len(events[c]) \in Nat \ {0} /\ events[c][1].type = "started" /\ events[c][1].step = 0
  BY DEF TypeOK, TablesOK, RowsInv
<1>2. 1 \in find_event(events[c], 0, "started")
  BY <1>1 DEF find_event
<1>3. ASSUME NEW n \in find_event(events[c], 0, "started") PROVE n = 1
  <2>1. n \in 1..Len(events[c]) /\ \A m \in 1..(n - 1) : ~(events[c][m].step = 0 /\ events[c][m].type = "started")
    BY <1>3 DEF find_event
  <2>2. n > 1 => 1 \in 1..(n - 1)
    BY <1>1, <2>1
  <2> QED
    BY <1>1, <2>1, <2>2
<1> QED
  BY <1>2, <1>3

\* A step starts at most one child, and a child's row exists exactly when its parent's
\* log names it (create_child_workflow).
THEOREM SpawnsOnce == Spec => []SpawnedOnce
<1>1. BackedInv => SpawnedOnce
  <2> SUFFICES ASSUME BackedInv, NEW p \in Ids
               PROVE  /\ \A k \in 1..Len(events[p]) : EventCount(p, k, "child_started") <= 1
                      /\ \A c \in Ids : Named(p, c) <=> StartedBy(c, p)
    BY DEF SpawnedOnce, Named, StartedBy
  <2>1. Inv /\ SpawnInv /\ TablesInv /\ TypeOK
    BY DEF BackedInv, Inv
  <2>2. ASSUME NEW c \in Ids PROVE Named(p, c) <=> StartedBy(c, p)
    <3>1. StartedBy(c, p) <=> ChildOf(c, p)
      BY <2>1, FirstStarted DEF TablesInv
    <3>2. Named(p, c) => ChildOf(c, p)
      BY <2>1 DEF Named, TablesInv, SitesInv
    <3>3. ChildOf(c, p) => Named(p, c)
      BY <2>1 DEF Named, SpawnInv, IsStarted
    <3> QED
      BY <3>1, <3>2, <3>3
  <2>3. ASSUME NEW k \in 1..Len(events[p]) PROVE EventCount(p, k, "child_started") <= 1
    <3> DEFINE A == {n \in 1..Len(events[p]) : events[p][n].step = k /\ events[p][n].type = "child_started"}
    <3>1. ASSUME NEW m \in A, NEW n \in A PROVE m = n
      <4>1. PICK v \in Versions, w \in Versions :
              /\ k \in DOMAIN Program[v][p] /\ Program[v][p][k].op = "spawn" /\ Program[v][p][k].key = events[p][m].key
              /\ k \in DOMAIN Program[w][p] /\ Program[w][p][k].op = "spawn" /\ Program[w][p][k].key = events[p][n].key
        BY <2>1 DEF TablesInv, SitesInv
      <4>2. events[p][m].key = events[p][n].key
        BY <4>1, SameSite
      <4> QED
        BY <2>1, <4>2 DEF SpawnInv, IsStarted
    <3>0. EventCount(p, k, "child_started") = Cardinality(A)
      BY DEF EventCount
    <3> HIDE DEF A
    <3>2. CASE A = {}
      BY <3>0, <3>2, FS_EmptySet
    <3>3. CASE A # {}
      <4>1. PICK n \in A : TRUE
        BY <3>3
      <4>2. A = {n}
        BY <3>1, <4>1
      <4>3. Cardinality({n}) = 1
        BY FS_Singleton
      <4> QED
        BY <3>0, <4>2, <4>3
    <3> QED
      BY <3>2, <3>3
  <2> QED
    BY <2>2, <2>3
<1> QED
  BY <1>1, BackedInvariant, PTL

-----------------------------------------------------------------------------
(***************************************************************************)
(* What the log of a workflow says of the run that executes it, for every  *)
(* value of the constants that allows no stall, so that no other run is at *)
(* work on the same log: a replay returns what was returned before, a step *)
(* is recorded once, an activity executes as scheduled and not before its  *)
(* retry is due.                                                           *)
(***************************************************************************)

-----------------------------------------------------------------------------
(***************************************************************************)
(* The inductive invariant.                                                *)
(***************************************************************************)
\* The types of events that a run at pc = to may have written for the step it is
\* at since it loaded its history.
Late(to) ==
  CASE to = "exec"     -> {"scheduled"}
    [] to = "failed"   -> {"scheduled", "failed"}
    [] to = "sleeping" -> {"sleep"}
    [] to = "fail"     -> Own
    [] OTHER           -> {}

\* Apart from those, what is new in the log since then belongs to earlier steps.
Ahead(s) ==
  pc[s] \notin {"idle", "load"} =>
    \A n \in 1..Len(events[wf[s]]) :
      (n > Len(history[s]) /\ events[wf[s]][n].type \in Own) =>
        \/ events[wf[s]][n].step < step[s]
        \/ events[wf[s]][n].step = step[s] /\ events[wf[s]][n].type \in Late(pc[s])

\* An activity is executed only if the history does not say that it completed.
Undone(s) == pc[s] \in {"exec", "failed"} => Found(history[s], step[s], "completed") = {}

\* What the passed steps returned is in the log as their outcome (a child is
\* recorded by the event that SpawnInv speaks of).
Valued(s) ==
  /\ Len(values[s]) = step[s] - 1
  /\ Active(s) => \A k \in 1..Len(values[s]) :
       /\ k \in DOMAIN Body(s)
       /\ IF Body(s)[k].op = "spawn" THEN values[s][k] = Body(s)[k].key
                                     ELSE values[s][k] \in Outcome(wf[s], Body(s)[k], k)

\* The attempts counted include all in the log.
Attempts(s) == pc[s] = "failed" => EventCount(wf[s], step[s], "failed") = attempts_used(s)

\* The call executed is the one the log has for the step.
Scheduled(s) ==
  pc[s] = "exec" =>
    \E n \in find_scheduled_event(events[wf[s]], step[s]) : events[wf[s]][n].key = Current(s).key

RunLog(s) == Ahead(s) /\ Undone(s) /\ Valued(s) /\ Attempts(s) /\ Scheduled(s)

Single == {"scheduled", "completed", "sleep"}
OnceIn(h) ==
  \A m, n \in 1..Len(h) : (h[m].type \in Single /\ h[m].type = h[n].type /\ h[m].step = h[n].step) => m = n
Once == \A i \in Ids : OnceIn(events[i])

\* A workflow somebody runs is running.
Running == \A s \in Slots : Active(s) => status[wf[s]] = "running"

ReplayInv == BackedInv /\ LeaseHeld /\ Once /\ Running /\ \A s \in Slots : RunLog(s)

-----------------------------------------------------------------------------
(***************************************************************************)
(* Who writes what.                                                        *)
(***************************************************************************)
LEMMA WritesMoves ==
  ASSUME TypeOK, NEW s \in Slots, Writes(s)
  PROVE  pc'[s] # pc[s]
BY DEF Writes, schedule, fail_activity, start_sleep, write_marker, complete_activity, notify_error, NotReplayed, AtWait,
   At, AtStep, Await, AwaitDeadline, Return, TypeOK, RunsOK

\* Only the run of a workflow writes events of its steps.
LEMMA NewOwn ==
  ASSUME Inv, [Next]_vars, NEW i \in Ids, NEW n \in 1..Len(events'[i]), n > Len(events[i]), events'[i][n].type \in Own
  PROVE  \E s \in Slots : Writes(s) /\ wf[s] = i /\ events'[i][n].step = step[s]
<1> TypeOK
  BY DEF Inv
<1>1. ASSUME NEW e \in EventRecord, events'[i] = Append(events[i], e), e.type \notin Own PROVE FALSE
  BY <1>1, NewEvent
<1>2. events'[i] # events[i]
  BY DEF TypeOK, TablesOK
<1>3. ASSUME NEW j \in Ids, start_workflow(j) PROVE FALSE
  <2>1. Event("started", 0, None, None) \in EventRecord /\ Event("started", 0, None, None).type \notin Own
    BY EventTyped, NoneTyped DEF EventType, Event, Own
  <2> QED
    BY <1>1, <1>2, <1>3, <2>1 DEF start_workflow, create_workflow, Appended, TypeOK, TablesOK
<1>4. ASSUME NEW q \in Requests, write_signal(q) PROVE FALSE
  <2>1. /\ Event("signal", 0, SignalType[q], q) \in EventRecord
        /\ Event("signal", 0, SignalType[q], q).type \notin Own
    BY EventTyped, ConstantsAssumption DEF EventType, Event, Own, Keys, Values
  <2> QED
    BY <1>1, <1>2, <1>4, <2>1 DEF write_signal, write_signal_and_wake_workflow, Appended, TypeOK, TablesOK
<1>5. ASSUME NEW s \in Slots, Writes(s) PROVE wf[s] = i /\ events'[i][n].step = step[s]
  <2>1. PICK e \in EventRecord : events' = Appended(wf[s], e) /\ (e.type \in Own => e.step = step[s])
    BY <1>2, <1>5, WritesOne DEF Own
  <2>2. wf[s] = i
    BY <1>2, <2>1 DEF Appended, TypeOK, TablesOK
  <2>3. events'[i] = Append(events[i], e)
    BY <2>1, <2>2 DEF Appended, TypeOK, TablesOK
  <2> QED
    BY <2>1, <2>2, <2>3, NewEvent
<1>6. ASSUME NEW s \in Slots, spawn_child(s) PROVE FALSE
  <2>1. PICK c \in Ids, p \in Ids, k \in Nat : c = Current(s).key /\ p = wf[s] /\ k = step[s]
    BY <1>6, CurrentTyped, SpawnKey DEF spawn_child, At, TypeOK, RunsOK
  <2>2. /\ Event("started", 0, p, None) \in EventRecord /\ Event("started", 0, p, None).type \notin Own
        /\ Event("child_started", k, c, c) \in EventRecord /\ Event("child_started", k, c, c).type \notin Own
    BY EventTyped, NoneTyped DEF EventType, Event, Keys, Values, Own
  <2>3. \/ events'[i] = events[i]
        \/ events'[i] = Append(events[i], Event("started", 0, p, None))
        \/ events'[i] = Append(events[i], Event("child_started", k, c, c))
    BY <1>6, <2>1 DEF spawn_child, create_child_workflow, tables
  <2> QED
    BY <1>1, <1>2, <2>2, <2>3
<1>7. ASSUME NEW s \in Slots, mark_waiting(s) PROVE FALSE
  BY <1>2, <1>7 DEF mark_waiting, mark_workflow_waiting
<1>8. ASSUME NEW s \in Slots, EndsRun(s) PROVE FALSE
  <2>1. wf[s] \in Ids
    BY <1>8, RunHas DEF EndsRun, finish, fail, exhaust_retries, Active
  <2>2. ASSUME NEW type \in {"workflow_completed", "workflow_failed"}, NEW final \in Terminal, NEW p,
               NEW v \in {Done, Failed}, write_terminal_workflow_event(wf[s], type, final, p, v)
        PROVE  FALSE
    <3>1. /\ Event(type, 0, None, None) \in EventRecord /\ Event(type, 0, None, None).type \notin Own
          /\ Event("signal", 0, wf[s], v) \in EventRecord /\ Event("signal", 0, wf[s], v).type \notin Own
      BY <2>1, EventTyped, NoneTyped DEF EventType, Event, Keys, Own
    <3>2. \/ events'[i] = events[i]
          \/ events'[i] = Append(events[i], Event(type, 0, None, None))
          \/ events'[i] = Append(events[i], Event("signal", 0, wf[s], v))
      BY <2>2 DEF write_terminal_workflow_event
    <3> QED
      BY <1>1, <1>2, <3>1, <3>2
  <2> QED
    BY <1>8, <2>2 DEF EndsRun, finish, fail, exhaust_retries, complete_workflow, fail_workflow, Terminal
<1> QED
  BY <1>2, <1>3, <1>4, <1>5, <1>6, <1>7, <1>8, StepKind DEF TableKind

\* A log nobody moves on gets no events of steps.
LEMMA NoOwn ==
  ASSUME Inv, LeaseHeld, [Next]_vars, NEW t \in Slots, Active(t), pc'[t] = pc[t],
         NEW n \in 1..Len(events'[wf[t]]), n > Len(events[wf[t]])
  PROVE  events'[wf[t]][n].type \notin Own
<1> SUFFICES ASSUME events'[wf[t]][n].type \in Own PROVE FALSE
  OBVIOUS
<1>1. PICK i \in Ids : i = wf[t]
  BY RunHas
<1>2. PICK s \in Slots : Writes(s) /\ wf[s] = i
  BY <1>1, NewOwn
<1>3. Active(s)
  BY <1>2, WritesOne
<1>4. s = t
  BY <1>1, <1>2, <1>3 DEF LeaseHeld
<1> QED
  BY <1>2, <1>4, WritesMoves DEF Inv

\* A run ends when its workflow stops running.
LEMMA StopsRunning ==
  ASSUME Inv, [Next]_vars, NEW i \in Ids, status[i] = "running", status'[i] # "running"
  PROVE  \E s \in Slots : Active(s) /\ wf[s] = i /\ pc'[s] = "idle"
<1> TypeOK
  BY DEF Inv
<1>1. ASSUME NEW j \in Ids, start_workflow(j) PROVE FALSE
  BY <1>1 DEF start_workflow, create_workflow, TypeOK, TablesOK
<1>2. ASSUME NEW q \in Requests, write_signal(q) PROVE FALSE
  BY <1>2 DEF write_signal, write_signal_and_wake_workflow, TypeOK, TablesOK
<1>3. ASSUME NEW s \in Slots, Writes(s) \/ spawn_child(s) PROVE FALSE
  <2>1. ASSUME Writes(s) PROVE FALSE
    BY <2>1, WritesOne DEF rows
  <2>2. ASSUME spawn_child(s) PROVE FALSE
    BY <2>2 DEF spawn_child, create_child_workflow, tables, TypeOK, TablesOK
  <2> QED
    BY <1>3, <2>1, <2>2
<1>4. ASSUME NEW s \in Slots, mark_waiting(s) PROVE Active(s) /\ wf[s] = i /\ pc'[s] = "idle"
  BY <1>4 DEF mark_waiting, mark_workflow_waiting, Suspend, Over, Active, TypeOK, TablesOK
<1>5. ASSUME NEW s \in Slots, EndsRun(s) PROVE Active(s) /\ wf[s] = i /\ pc'[s] = "idle"
  BY <1>5 DEF EndsRun, finish, fail, exhaust_retries, complete_workflow, fail_workflow, write_terminal_workflow_event,
     Suspend, Over, Active
<1> QED
  BY <1>1, <1>2, <1>3, <1>4, <1>5, StepKind DEF TableKind

-----------------------------------------------------------------------------
(***************************************************************************)
(* What each step leaves of a run's view of the log.                       *)
(***************************************************************************)
\* An event a run writes is one its next await accounts for, unless it returns.
LEMMA WritesLate ==
  ASSUME Inv, NEW s \in Slots, Writes(s), NEW i \in Ids, i = wf[s],
         NEW n \in 1..Len(events'[i]), n > Len(events[i]), events'[i][n].type \in Own
  PROVE  events'[i][n].type \in Late(pc'[s]) \/ step'[s] = step[s] + 1
<1> TypeOK
  BY DEF Inv
<1>1. ASSUME NEW type \in EventType, NEW k \in Nat, NEW key \in Keys, NEW val \in Values,
             write_event(i, Event(type, k, key, val))
      PROVE  events'[i][n].type = type
  <2> DEFINE e == Event(type, k, key, val)
  <2>1. e \in EventRecord /\ e.type = type
    BY EventTyped DEF Event
  <2>2. events'[i] = Append(events[i], e)
    BY <1>1 DEF write_event, Appended, TypeOK, TablesOK
  <2> HIDE DEF e
  <2> QED
    BY <2>1, <2>2, NewEvent
<1>2. UNCHANGED tables => FALSE
  BY DEF tables, TypeOK, TablesOK
<1>3. step[s] \in Nat
  BY DEF TypeOK, RunsOK
<1>4. CASE schedule(s)
  <2>1. Current(s).key \in Keys
    BY <1>4, CurrentTyped DEF schedule, NotReplayed, At, StepRecord
  <2>2. write_event(i, Event("scheduled", step[s], Current(s).key, None)) /\ pc'[s] = "exec"
    BY <1>2, <1>4 DEF schedule, Await, TypeOK, RunsOK
  <2> QED
    BY <1>1, <1>3, <2>1, <2>2, NoneTyped DEF EventType, Late
<1>5. CASE fail_activity(s)
  <2>1. write_event(i, Event("failed", step[s], None, None)) /\ pc'[s] = "failed"
    BY <1>5 DEF fail_activity, AwaitDeadline, TypeOK, RunsOK
  <2> QED
    BY <1>1, <1>3, <2>1, NoneTyped DEF EventType, Late
<1>6. CASE start_sleep(s)
  <2>1. write_event(i, Event("sleep", step[s], None, None)) /\ pc'[s] = "sleeping"
    BY <1>6 DEF start_sleep, AwaitDeadline, TypeOK, RunsOK
  <2> QED
    BY <1>1, <1>3, <2>1, NoneTyped DEF EventType, Late
<1>7. CASE write_marker(s)
  <2>1. Current(s).key \in Keys
    BY <1>7, CurrentTyped DEF write_marker, AtWait, StepRecord
  <2>2. write_event(i, Event("signal", 0, Current(s).key, Waiting))
    BY <1>2, <1>7 DEF write_marker
  <2> QED
    BY <1>1, <2>1, <2>2, NoneTyped DEF EventType, Own
<1>8. CASE \E r \in Results : complete_activity(s, r)
  BY <1>8 DEF complete_activity, Return, TypeOK, RunsOK
<1>9. CASE \E r \in Results : notify_error(s, r)
  <2>1. pc'[s] = "fail"
    BY <1>9 DEF notify_error, TypeOK, RunsOK
  <2> QED
    BY <2>1 DEF Late
<1> QED
  BY <1>4, <1>5, <1>6, <1>7, <1>8, <1>9 DEF Writes

LEMMA AheadMoves ==
  ASSUME ReplayInv, TypeOK', Grows, [Next]_vars, NEW s \in Slots, Active(s), pc[s] # "load",
         wf'[s] = wf[s], history'[s] = history[s],
         \/ step'[s] = step[s] /\ Late(pc[s]) \subseteq Late(pc'[s])
         \/ step'[s] = step[s] + 1
  PROVE  Ahead(s)'
<1> Inv /\ TypeOK /\ LeaseHeld /\ Ahead(s)
  BY DEF ReplayInv, BackedInv, Inv, RunLog
<1>1. PICK i \in Ids : i = wf[s]
  BY RunHas
<1>2. step[s] \in Nat /\ step'[s] \in Nat
  BY DEF TypeOK, RunsOK
<1> SUFFICES ASSUME NEW n \in 1..Len(events'[i]), n > Len(history[s]), events'[i][n].type \in Own
             PROVE  \/ events'[i][n].step < step'[s]
                    \/ events'[i][n].step = step'[s] /\ events'[i][n].type \in Late(pc'[s])
  BY <1>1 DEF Ahead
<1>3. Len(events[i]) \in Nat /\ Len(events'[i]) \in Nat
  BY DEF TypeOK, TablesOK
<1>4. CASE n <= Len(events[i])
  <2>1. n \in 1..Len(events[i]) /\ events'[i][n] = events[i][n]
    BY <1>3, <1>4 DEF Grows
  <2>2. \/ events[i][n].step < step[s]
        \/ events[i][n].step = step[s] /\ events[i][n].type \in Late(pc[s])
    BY <1>1, <2>1 DEF Ahead, Active
  <2>3. events[i][n].step \in Nat
    BY <2>1, EventAt DEF TypeOK, TablesOK
  <2>4. CASE step'[s] = step[s] + 1
    BY <1>2, <2>1, <2>2, <2>3, <2>4
  <2>5. CASE step'[s] = step[s] /\ Late(pc[s]) \subseteq Late(pc'[s])
    BY <2>1, <2>2, <2>5
  <2> QED
    BY <2>4, <2>5
<1>5. CASE n > Len(events[i])
  <2>1. PICK t \in Slots : Writes(t) /\ wf[t] = i /\ events'[i][n].step = step[t]
    BY <1>5, NewOwn
  <2>2. t = s
    BY <1>1, <2>1, WritesOne DEF LeaseHeld
  <2>3. events'[i][n].type \in Late(pc'[s]) \/ step'[s] = step[s] + 1
    BY <1>1, <1>5, <2>1, <2>2, WritesLate
  <2> QED
    BY <1>2, <2>1, <2>2, <2>3
<1> QED
  BY <1>3, <1>4, <1>5

\* The values of a run whose program stays are still backed.
LEMMA ValuedStays ==
  ASSUME Inv, TypeOK', Grows, Unforgotten, NEW t \in Slots, Valued(t),
         wf'[t] = wf[t], code'[WorkerOf[t]] = code[WorkerOf[t]], step'[t] = step[t], values'[t] = values[t],
         Active(t)' => Active(t)
  PROVE  Valued(t)'
<1>1. CASE ~Active(t)'
  BY <1>1 DEF Valued
<1>2. CASE Active(t)'
  <2>1. PICK i \in Ids, b \in Seq(StepRecord) : i = wf[t] /\ b = Body(t)
    BY <1>2, BodyTyped DEF Inv
  <2>2. Body(t)' = b
    BY <2>1, SameBody
  <2>3. ASSUME NEW k \in 1..Len(values[t])
        PROVE  k \in DOMAIN b /\ IF b[k].op = "spawn" THEN values[t][k] = b[k].key
                                                      ELSE values[t][k] \in Outcome(i, b[k], k)
    BY <1>2, <2>1 DEF Valued
  <2>4. ASSUME NEW k \in 1..Len(values[t]), b[k].op # "spawn" PROVE values[t][k] \in Outcome(i, b[k], k)'
    <3>1. Outcome(i, b[k], k)' = Outcome(i, b[k], k)
      BY <2>3, <2>4, OutcomeStays DEF Inv
    <3> QED
      BY <2>3, <2>4, <3>1
  <2>5. \A k \in 1..Len(values'[t]) :
          k \in DOMAIN b /\ IF b[k].op = "spawn" THEN values'[t][k] = b[k].key
                                                 ELSE values'[t][k] \in Outcome(i, b[k], k)'
    BY <2>3, <2>4
  <2>6. Len(values'[t]) = step'[t] - 1
    BY DEF Valued
  <2> QED
    BY <2>1, <2>2, <2>5, <2>6 DEF Valued
<1> QED
  BY <1>1, <1>2

LEMMA ValuedReturns ==
  ASSUME Inv, TypeOK', Grows, Unforgotten, NEW s \in Slots, Active(s), Valued(s), NEW v \in Values,
         Return(s, v), Learned(s, v), step[s] \in DOMAIN Body(s)
  PROVE  Valued(s)'
<1>1. PICK i \in Ids, b \in Seq(StepRecord) : i = wf[s] /\ b = Body(s)
  BY BodyTyped DEF Inv
<1>2. /\ step'[s] = step[s] + 1 /\ values'[s] = Append(values[s], v) /\ wf'[s] = wf[s]
      /\ code'[WorkerOf[s]] = code[WorkerOf[s]] /\ step[s] \in Nat /\ values[s] \in Seq(Values)
  BY DEF Return, Inv, TypeOK, RunsOK
<1>3. Body(s)' = b
  BY <1>1, <1>2, SameBody
<1>4. Len(values[s]) = step[s] - 1
  BY DEF Valued
<1>5. /\ Len(values'[s]) = step[s] /\ values'[s][step[s]] = v
      /\ \A k \in 1..(step[s] - 1) : values'[s][k] = values[s][k]
  BY <1>2, <1>4
<1>6. ASSUME NEW k \in 1..(step[s] - 1)
      PROVE  k \in DOMAIN b /\ IF b[k].op = "spawn" THEN values[s][k] = b[k].key
                                                    ELSE values[s][k] \in Outcome(i, b[k], k)
  BY <1>1, <1>4 DEF Valued
<1>7. ASSUME NEW k \in 1..(step[s] - 1), b[k].op # "spawn" PROVE values[s][k] \in Outcome(i, b[k], k)'
  <2>1. Outcome(i, b[k], k)' = Outcome(i, b[k], k)
    BY <1>6, <1>7, OutcomeStays DEF Inv
  <2> QED
    BY <1>6, <1>7, <2>1
<1>8. PICK k \in Nat : k = step[s] /\ k \in DOMAIN b /\ IF b[k].op = "spawn" THEN v = b[k].key ELSE v \in Outcome(i, b[k], k)'
  <2>1. PICK j \in Ids, c \in StepRecord, k \in Nat :
          /\ j = wf[s] /\ c = Current(s) /\ k = step[s]
          /\ IF c.op = "spawn" THEN v = c.key ELSE v \in Outcome(j, c, k)'
    BY DEF Learned
  <2>2. j = i /\ c = b[k] /\ k \in DOMAIN b
    BY <1>1, <2>1 DEF Current
  <2> QED
    BY <2>1, <2>2
<1>9. \A m \in 1..Len(values'[s]) : m \in 1..(step[s] - 1) \/ m = k
  BY <1>2, <1>5, <1>8
<1>10. \A m \in 1..Len(values'[s]) :
         m \in DOMAIN b /\ IF b[m].op = "spawn" THEN values'[s][m] = b[m].key
                                                ELSE values'[s][m] \in Outcome(i, b[m], m)'
  BY <1>5, <1>6, <1>7, <1>8, <1>9
<1>11. Len(values'[s]) = step'[s] - 1
  BY <1>2, <1>5
<1> QED
  BY <1>1, <1>2, <1>3, <1>10, <1>11 DEF Valued

LEMMA LogContinues ==
  ASSUME Inv, NEW s \in Slots, Active(s), pc[s] # "load"
  PROVE  Continues(events[wf[s]], history[s])
BY DEF Inv, RunInv, Prefix, TypeOK, TablesOK, RunsOK, Active, Continues

\* Of what it may not have written, a run finds in the log what its history has.
LEMMA NothingNew ==
  ASSUME Inv, NEW s \in Slots, Active(s), pc[s] # "load", Ahead(s), NEW type \in Own \ Late(pc[s])
  PROVE  Found(events[wf[s]], step[s], type) = Found(history[s], step[s], type)
<1>1. PICK i \in Ids, k \in Nat : i = wf[s] /\ k = step[s]
  BY RunHas
<1>2. /\ Len(history[s]) \in Nat /\ Len(events[i]) \in Nat /\ Len(history[s]) <= Len(events[i])
      /\ \A n \in 1..Len(history[s]) : history[s][n] = events[i][n]
  BY <1>1 DEF Inv, TypeOK, TablesOK, RunsOK, RunInv, Prefix, Active
<1>3. ASSUME NEW n \in 1..Len(events[i]), n > Len(history[s]), events[i][n].type = type PROVE events[i][n].step # k
  <2>1. \/ events[i][n].step < k
        \/ events[i][n].step = k /\ events[i][n].type \in Late(pc[s])
    BY <1>1, <1>3 DEF Ahead, Active
  <2>2. events[i][n].step < k
    BY <1>3, <2>1
  <2> QED
    BY <1>1, <2>2
<1>4. \A n : n \in 1..Len(events[i]) <=> n \in 1..Len(history[s]) \/ (n \in 1..Len(events[i]) /\ n > Len(history[s]))
  BY <1>2
<1> QED
  BY <1>1, <1>2, <1>3, <1>4 DEF Found

LEMMA SameRunLog ==
  ASSUME ReplayInv, TypeOK', Grows, Unforgotten, [Next]_vars, NEW t \in Slots, Same(t), values'[t] = values[t]
  PROVE  RunLog(t)'
<1> Inv /\ TypeOK /\ LeaseHeld /\ RunLog(t)
  BY DEF ReplayInv, BackedInv, Inv
<1>1. Valued(t)'
  BY ValuedStays DEF RunLog, Same, Active
<1>2. Undone(t)'
  BY DEF RunLog, Undone, Same
<1>3. CASE ~Active(t)
  BY <1>1, <1>2, <1>3 DEF Same, Active, RunLog, Ahead, Attempts, Scheduled
<1>4. CASE Active(t)
  <2>1. Ahead(t)'
    <3>1. CASE pc[t] = "load"
      BY <3>1 DEF Ahead, Same
    <3>2. CASE pc[t] # "load"
      BY <1>4, <3>2, AheadMoves DEF Same
    <3> QED
      BY <3>1, <3>2
  <2>2. PICK i \in Ids, k \in Nat : i = wf[t] /\ k = step[t]
    BY <1>4, RunHas
  <2>3. /\ Len(events[i]) \in Nat /\ Len(events'[i]) \in Nat /\ Len(events[i]) <= Len(events'[i])
        /\ \A n \in 1..Len(events[i]) : events'[i][n] = events[i][n]
    BY DEF TypeOK, TablesOK, Grows
  <2>4. \A n \in 1..Len(events'[i]) : n > Len(events[i]) => events'[i][n].type \notin Own
    BY <1>4, <2>2, NoOwn DEF Same
  <2>5. Attempts(t)'
    <3>1. {n \in 1..Len(events'[i]) : events'[i][n].step = k /\ events'[i][n].type = "failed"}
            = {n \in 1..Len(events[i]) : events[i][n].step = k /\ events[i][n].type = "failed"}
      <4>1. \A n : n \in 1..Len(events'[i]) <=> n \in 1..Len(events[i]) \/ (n \in 1..Len(events'[i]) /\ n > Len(events[i]))
        BY <2>3
      <4>2. \A n \in 1..Len(events'[i]) : n > Len(events[i]) => events'[i][n].type # "failed"
        BY <2>4 DEF Own
      <4> QED
        BY <2>3, <4>1, <4>2
    <3>2. EventCount(i, k, "failed")' = EventCount(i, k, "failed")
      BY <3>1 DEF EventCount
    <3>3. attempts_used(t)' = attempts_used(t)
      BY DEF attempts_used, Same
    <3> QED
      BY <2>2, <3>2, <3>3 DEF Attempts, RunLog, Same
  <2>6. Scheduled(t)'
    <3> SUFFICES ASSUME pc[t] = "exec"
                 PROVE  \E n \in find_scheduled_event(events'[i], k) : events'[i][n].key = Current(t).key
      <4>1. Current(t)' = Current(t)
        BY SameBody DEF Same
      <4> QED
        BY <2>2, <4>1 DEF Scheduled, Same
    <3>1. PICK n \in find_event(events[i], k, "scheduled") : events[i][n].key = Current(t).key
      BY <2>2 DEF RunLog, Scheduled, find_scheduled_event
    <3>2. Continues(events'[i], events[i])
      BY <2>3 DEF Continues
    <3>3. find_event(events'[i], k, "scheduled") = find_event(events[i], k, "scheduled")
      BY <3>1, <3>2, FindsSame
    <3>4. n \in 1..Len(events[i])
      BY <3>1 DEF find_event
    <3> QED
      BY <2>3, <3>1, <3>3, <3>4 DEF find_scheduled_event
  <2> QED
    BY <1>1, <1>2, <2>1, <2>5, <2>6 DEF RunLog
<1> QED
  BY <1>3, <1>4

\* A run that executes no activity next.
LEMMA ElsewhereLog ==
  ASSUME NEW s \in Slots, pc'[s] \notin {"exec", "failed"}, Ahead(s)', Valued(s)'
  PROVE  RunLog(s)'
BY DEF RunLog, Undone, Attempts, Scheduled

\* The run of s is over, or has not begun.
LEMMA FreshLog ==
  ASSUME NEW s \in Slots, pc'[s] = "idle", step'[s] = 1, values'[s] = <<>>
  PROVE  RunLog(s)'
BY DEF RunLog, Undone, Attempts, Scheduled, Ahead, Valued, Active

LEMMA ScheduleLog ==
  ASSUME ReplayInv, TypeOK', Grows, Unforgotten, [Next]_vars, NEW s \in Slots, schedule(s)
  PROVE  RunLog(s)'
<1> Inv /\ TypeOK /\ RunLog(s)
  BY DEF ReplayInv, BackedInv, Inv
<1>1. /\ AtStep(s) /\ Current(s).op = "activity" /\ find_completed_event(history[s], step[s]) = {}
      /\ \A n \in find_scheduled_event(history[s], step[s]) : history[s][n].key = Current(s).key
      /\ Active(s) /\ pc[s] = "step" /\ Current(s) \in StepRecord
  BY CurrentTyped DEF schedule, NotReplayed, At, AtStep, Diverges
<1>2. PICK i \in Ids, k \in Nat, c \in StepRecord : i = wf[s] /\ k = step[s] /\ c = Current(s)
  BY <1>1, RunHas
<1>3. /\ pc'[s] = "exec" /\ wf'[s] = wf[s] /\ history'[s] = history[s] /\ step'[s] = step[s] /\ values'[s] = values[s]
      /\ code'[WorkerOf[s]] = code[WorkerOf[s]]
  BY DEF schedule, Await, TypeOK, RunsOK
<1>4. Ahead(s)'
  <2>1. Late(pc[s]) = {}
    BY <1>1 DEF Late
  <2> QED
    BY <1>1, <1>3, <2>1, AheadMoves
<1>5. Valued(s)'
  BY <1>1, <1>3, ValuedStays DEF RunLog
<1>6. Undone(s)'
  <2>1. Len(history[s]) \in Nat /\ find_event(history[s], k, "completed") = {}
    BY <1>1, <1>2 DEF find_completed_event, TypeOK, RunsOK
  <2>2. Found(history[s], k, "completed") = {}
    BY <2>1, FindsAny
  <2> QED
    BY <1>2, <1>3, <2>2 DEF Undone
<1>7. Attempts(s)'
  BY <1>3 DEF Attempts
<1>8. \E n \in find_event(events'[i], k, "scheduled") : events'[i][n].key = c.key
  <2>0. Continues(events[i], history[s])
    BY <1>1, <1>2, LogContinues
  <2>1. /\ Len(history[s]) \in Nat /\ Len(events[i]) \in Nat /\ Continues(events[i], history[s])
        /\ \A n \in 1..Len(history[s]) : history[s][n] = events[i][n]
    BY <2>0 DEF Continues
  <2>2. CASE find_scheduled_event(history[s], k) # {}
    <3>1. UNCHANGED events
      BY <1>2, <2>2 DEF schedule, tables
    <3>2. PICK n \in find_event(history[s], k, "scheduled") : history[s][n].key = c.key
      BY <1>1, <1>2, <2>2 DEF find_scheduled_event
    <3>3. find_event(events[i], k, "scheduled") = find_event(history[s], k, "scheduled")
      BY <2>1, <3>2, FindsSame
    <3>4. n \in 1..Len(history[s])
      BY <3>2 DEF find_event
    <3> QED
      BY <2>1, <3>1, <3>2, <3>3, <3>4
  <2>3. CASE find_scheduled_event(history[s], k) = {}
    <3> DEFINE e == Event("scheduled", k, c.key, None)
    <3>1. e \in EventRecord /\ e.type = "scheduled" /\ e.step = k /\ e.key = c.key
      BY EventTyped, NoneTyped DEF EventType, Event, StepRecord
    <3>2. events'[i] = Append(events[i], e)
      BY <1>2, <2>3 DEF schedule, write_event, Appended, TypeOK, TablesOK
    <3> HIDE DEF e
    <3>3. Found(events[i], k, "scheduled") = {}
      <4>1. Found(history[s], k, "scheduled") = {}
        BY <2>1, <2>3, FindsAny DEF find_scheduled_event
      <4>2. "scheduled" \in Own \ Late(pc[s])
        BY <1>1 DEF Own, Late
      <4> QED
        BY <1>1, <1>2, <4>1, <4>2, NothingNew DEF RunLog
    <3>4. find_event(events'[i], k, "scheduled") = {Len(events[i]) + 1}
      BY <3>1, <3>2, <3>3, FindsNew DEF TypeOK, TablesOK
    <3>5. events'[i][Len(events[i]) + 1] = e
      BY <3>1, <3>2, Appending
    <3> QED
      BY <3>1, <3>4, <3>5
  <2> QED
    BY <2>2, <2>3
<1>9. Scheduled(s)'
  <2>1. Current(s)' = Current(s)
    BY <1>3, SameBody
  <2> QED
    BY <1>2, <1>3, <1>8, <2>1 DEF Scheduled, find_scheduled_event
<1> QED
  BY <1>4, <1>5, <1>6, <1>7, <1>9 DEF RunLog

\* The count of a kind of event goes up by the event appended.
LEMMA CountedOne ==
  ASSUME TypeOK, NEW i \in Ids, NEW e \in EventRecord, events'[i] = Append(events[i], e)
  PROVE  /\ EventCount(i, e.step, e.type) \in Nat
         /\ EventCount(i, e.step, e.type)' = EventCount(i, e.step, e.type) + 1
<1> DEFINE L == Len(events[i])
           A == {n \in 1..L : events[i][n].step = e.step /\ events[i][n].type = e.type}
           B == {n \in 1..Len(events'[i]) : events'[i][n].step = e.step /\ events'[i][n].type = e.type}
<1>1. EventCount(i, e.step, e.type) = Cardinality(A) /\ EventCount(i, e.step, e.type)' = Cardinality(B)
  BY DEF EventCount
<1>2. /\ L \in Nat /\ Len(events'[i]) = L + 1 /\ events'[i][L + 1] = e
      /\ \A n \in 1..L : events'[i][n] = events[i][n]
  BY Appending
<1>3. \A n : n \in 1..Len(events'[i]) <=> n \in 1..L \/ n = L + 1
  BY <1>2
<1>4. L + 1 \notin A
  BY <1>2
<1>5. B = A \cup {L + 1}
  BY <1>2, <1>3
<1>6. IsFiniteSet(A)
  <2>1. IsFiniteSet(1..L)
    BY <1>2, FS_Interval
  <2>2. A \subseteq 1..L
    OBVIOUS
  <2> HIDE DEF A
  <2> QED
    BY <2>1, <2>2, FS_Subset
<1> HIDE DEF A, B
<1> QED
  BY <1>1, <1>4, <1>5, <1>6, FS_AddElement, FS_CardinalityType

LEMMA FailLog ==
  ASSUME ReplayInv, TypeOK', Grows, Unforgotten, [Next]_vars, NEW s \in Slots, fail_activity(s)
  PROVE  RunLog(s)'
<1> Inv /\ TypeOK /\ RunLog(s)
  BY DEF ReplayInv, BackedInv, Inv
<1>1. Active(s) /\ pc[s] = "exec"
  BY DEF fail_activity, Active
<1>2. PICK i \in Ids, k \in Nat : i = wf[s] /\ k = step[s]
  BY <1>1, RunHas
<1>3. /\ pc'[s] = "failed" /\ wf'[s] = wf[s] /\ history'[s] = history[s] /\ step'[s] = step[s] /\ values'[s] = values[s]
      /\ code'[WorkerOf[s]] = code[WorkerOf[s]]
  BY DEF fail_activity, AwaitDeadline, TypeOK, RunsOK
<1>4. Ahead(s)'
  <2>1. Late(pc[s]) \subseteq Late(pc'[s])
    BY <1>1, <1>3 DEF Late
  <2> QED
    BY <1>1, <1>3, <2>1, AheadMoves
<1>5. Valued(s)'
  BY <1>1, <1>3, ValuedStays DEF RunLog
<1>6. Undone(s)'
  BY <1>1, <1>3 DEF RunLog, Undone
<1>7. Scheduled(s)'
  BY <1>3 DEF Scheduled
<1>8. EventCount(i, k, "failed") = count_failed_events(history[s], k)
  <2>1. "failed" \in Own \ Late(pc[s])
    BY <1>1 DEF Own, Late
  <2>2. Found(events[i], k, "failed") = Found(history[s], k, "failed")
    BY <1>1, <1>2, <2>1, NothingNew DEF RunLog
  <2> QED
    BY <2>2 DEF Found, EventCount, count_failed_events
<1>9. EventCount(i, k, "failed")' = EventCount(i, k, "failed") + 1
  <2> DEFINE e == Event("failed", k, None, None)
  <2>1. e \in EventRecord /\ e.type = "failed" /\ e.step = k
    BY EventTyped, NoneTyped DEF EventType, Event
  <2>2. events'[i] = Append(events[i], e)
    BY <1>2 DEF fail_activity, write_event, Appended, TypeOK, TablesOK
  <2> HIDE DEF e
  <2>3. EventCount(i, e.step, e.type)' = EventCount(i, e.step, e.type) + 1
    BY <2>1, <2>2, CountedOne
  <2> QED
    BY <2>1, <2>3
<1>10. Attempts(s)'
  BY <1>2, <1>3, <1>8, <1>9 DEF Attempts, attempts_used
<1> QED
  BY <1>4, <1>5, <1>6, <1>7, <1>10 DEF RunLog

LEMMA CompleteLog ==
  ASSUME ReplayInv, TypeOK', Grows, Unforgotten, [Next]_vars, NEW s \in Slots, NEW r \in Results, complete_activity(s, r)
  PROVE  RunLog(s)'
<1> Inv /\ TypeOK /\ RunLog(s)
  BY DEF ReplayInv, BackedInv, Inv
<1>1. /\ Active(s) /\ pc[s] = "exec" /\ Current(s).op = "activity" /\ step[s] \in DOMAIN Body(s)
      /\ Return(s, r) /\ Current(s) \in StepRecord
  BY BodyTyped DEF complete_activity, Active, Inv, RunInv, InStep, Current
<1>2. PICK i \in Ids, k \in Nat, c \in StepRecord : i = wf[s] /\ k = step[s] /\ c = Current(s)
  BY <1>1, RunHas
<1>3. pc'[s] = "step" /\ wf'[s] = wf[s] /\ history'[s] = history[s] /\ step'[s] = step[s] + 1
  BY <1>1 DEF Return, TypeOK, RunsOK
<1>4. Ahead(s)'
  BY <1>1, <1>3, AheadMoves
<1>5. r \in Outcome(i, c, k)'
  <2> DEFINE e == Event("completed", k, None, r)
  <2>1. e \in EventRecord /\ e.type = "completed" /\ e.step = k /\ e.val = r
    BY EventTyped, NoneTyped DEF EventType, Event, Values
  <2>2. events'[i] = Append(events[i], e)
    BY <1>2 DEF complete_activity, write_event, Appended, TypeOK, TablesOK
  <2> HIDE DEF e
  <2>3. Found(events[i], k, "completed") = {}
    <3>1. "completed" \in Own \ Late(pc[s])
      BY <1>1 DEF Own, Late
    <3> QED
      BY <1>1, <1>2, <3>1, NothingNew DEF RunLog, Undone
  <2>4. find_event(events'[i], k, "completed") = {Len(events[i]) + 1}
    BY <2>1, <2>2, <2>3, FindsNew DEF TypeOK, TablesOK
  <2>5. events'[i][Len(events[i]) + 1] = e
    BY <2>1, <2>2, Appending
  <2>6. Outcome(i, c, k)' = {events'[i][n].val : n \in find_event(events'[i], k, "completed")}
    BY <1>1, <1>2 DEF Outcome, find_completed_event
  <2> QED
    BY <2>1, <2>4, <2>5, <2>6
<1>6. Learned(s, r)
  BY <1>1, <1>2, <1>5 DEF Learned
<1>7. Valued(s)'
  BY <1>1, <1>6, ValuedReturns DEF RunLog, Values
<1> QED
  BY <1>3, <1>4, <1>7, ElsewhereLog

\* Awaiting something else than an activity and its retry.
LEMMA MovesLog ==
  ASSUME ReplayInv, TypeOK', Grows, Unforgotten, [Next]_vars, NEW s \in Slots, Active(s), pc[s] # "load",
         pc'[s] \notin {"exec", "failed"}, Late(pc[s]) \subseteq Late(pc'[s]),
         wf'[s] = wf[s], history'[s] = history[s], step'[s] = step[s], values'[s] = values[s],
         code'[WorkerOf[s]] = code[WorkerOf[s]]
  PROVE  RunLog(s)'
<1>1. Ahead(s)'
  BY AheadMoves
<1>2. Valued(s)'
  BY ValuedStays DEF ReplayInv, BackedInv, RunLog
<1> QED
  BY <1>1, <1>2, ElsewhereLog

LEMMA LateGrows ==
  /\ \A to \in {"step", "marking", "reload"} : Late(to) = {}
  /\ \A to : Late(to) \subseteq Late("fail")
BY DEF Late, Own

LEMMA Awaiting ==
  ASSUME Inv, NEW s \in Slots, RunStep(s), NEW to \in PC, Await(s, to) \/ AwaitDeadline(s, to)
  PROVE  \/ run_workflow(s) \/ Suspend(s) \/ schedule(s) \/ fail_activity(s)
         \/ \E r \in Results : complete_activity(s, r)
         \/ \E v \in Values : Return(s, v)
         \/ /\ pc[s] \notin {"idle", "load"} /\ pc'[s] \notin {"exec", "failed"}
            /\ Late(pc[s]) \subseteq Late(pc'[s])
<1> TypeOK
  BY DEF Inv
<1>1. ASSUME pc[s] \in {"step", "marking", "reload"}, NEW go \in {"fail", "sleeping", "marking", "reload"}, pc'[s] = go
      PROVE  /\ pc[s] \notin {"idle", "load"} /\ pc'[s] \notin {"exec", "failed"}
             /\ Late(pc[s]) \subseteq Late(pc'[s])
  BY <1>1, LateGrows
<1>2. ASSUME NEW go \in {"fail", "sleeping", "marking", "reload"}, Await(s, go) \/ AwaitDeadline(s, go)
      PROVE  pc'[s] = go
  BY <1>2 DEF Await, AwaitDeadline, TypeOK, RunsOK
<1>3. CASE RunnerStep(s)
  BY <1>1, <1>2, <1>3 DEF RunnerStep, finish, fail, raise, At, AtStep
<1>4. CASE ActivityStep(s)
  <2>1. CASE replay_activity(s) \/ retry(s) \/ exhaust_retries(s)
    <3>1. CASE replay_activity(s)
      <4>1. PICK n \in find_completed_event(history[s], step[s]) : Return(s, history[s][n].val)
        BY <3>1 DEF replay_activity
      <4>2. history[s][n].val \in Values
        BY <4>1, FoundAt DEF find_completed_event, TypeOK, RunsOK
      <4> QED
        BY <4>1, <4>2
    <3> QED
      BY <2>1, <3>1 DEF retry, exhaust_retries
  <2>2. CASE DivergenceError(s)
    BY <1>1, <1>2, <2>2 DEF DivergenceError, NotReplayed, At, AtStep
  <2> QED
    BY <1>4, <2>1, <2>2 DEF ActivityStep
<1>5. CASE SleepStep(s)
  BY <1>1, <1>2, <1>5, NoneTyped DEF SleepStep, wake_up, re_suspend, suspend_sleep, start_sleep, At, AtStep
<1>6. CASE WaitStep(s)
  <2>1. ASSUME NEW h, NEW n, h \in Seq(EventRecord), n \in find_signal_event(h, Current(s).key), Received(s, h[n].val),
               pc[s] \in {"step", "reload"}
        PROVE  \/ \E v \in Values : Return(s, v)
               \/ /\ pc[s] \notin {"idle", "load"} /\ pc'[s] \notin {"exec", "failed"}
                  /\ Late(pc[s]) \subseteq Late(pc'[s])
    <3>1. h[n].val \in Values
      BY <2>1, FoundAt
    <3> QED
      BY <1>1, <1>2, <2>1, <3>1 DEF Received
  <2>2. history[s] \in Seq(EventRecord)
    BY DEF TypeOK, RunsOK
  <2>3. CASE replay_wait(s)
    BY <2>1, <2>2, <2>3 DEF replay_wait, AtWait, AtStep
  <2>4. CASE reload(s)
    <3>1. events[wf[s]] \in Seq(EventRecord)
      BY <2>4, RunHas DEF reload, Active, TypeOK, TablesOK
    <3> QED
      BY <2>1, <2>4, <3>1 DEF reload
  <2>5. CASE write_marker(s)
    BY <1>1, <1>2, <2>5 DEF write_marker, AtWait, AtStep
  <2>6. CASE mark_waiting(s) \/ already_received(s)
    BY <1>1, <1>2, <2>6 DEF mark_waiting, already_received
  <2> QED
    BY <1>6, <2>3, <2>4, <2>5, <2>6 DEF WaitStep
<1>7. CASE SpawnStep(s)
  <2>1. ASSUME spawn_child(s) PROVE \E v \in Values : Return(s, v)
    BY <2>1, SpawnKey DEF spawn_child, Values
  <2>2. ASSUME replay_spawn(s) PROVE \E v \in Values : Return(s, v)
    <3>1. PICK n \in find_child_started_event(history[s], step[s]) : Return(s, history[s][n].val)
      BY <2>2 DEF replay_spawn
    <3>2. history[s][n].val \in Values
      BY <3>1, FoundAt DEF find_child_started_event, TypeOK, RunsOK
    <3> QED
      BY <3>1, <3>2
  <2> QED
    BY <1>7, <2>1, <2>2 DEF SpawnStep
<1> QED
  BY <1>3, <1>4, <1>5, <1>6, <1>7 DEF RunStep

\* A step returns to the workflow function from where it is called, after an
\* activity, or after a look at the fresh history; or the run is over.
LEMMA Returners ==
  ASSUME NEW s \in Slots, RunStep(s), step'[s] # step[s]
  PROVE  AtStep(s) \/ pc[s] \in {"exec", "reload"} \/ Suspend(s)
<1>1. ASSUME NEW to, Await(s, to) \/ AwaitDeadline(s, to) PROVE FALSE
  BY <1>1 DEF Await, AwaitDeadline
<1>2. CASE RunnerStep(s)
  BY <1>1, <1>2 DEF RunnerStep, run_workflow, finish, raise, fail
<1>3. CASE ActivityStep(s)
  BY <1>1, <1>3 DEF ActivityStep, replay_activity, DivergenceError, schedule, complete_activity, fail_activity,
     retry, exhaust_retries, At
<1>4. CASE SleepStep(s)
  BY <1>1, <1>4 DEF SleepStep, wake_up, re_suspend, start_sleep, suspend_sleep, At
<1>5. CASE WaitStep(s)
  BY <1>1, <1>5 DEF WaitStep, replay_wait, write_marker, mark_waiting, already_received, reload, AtWait
<1>6. CASE SpawnStep(s)
  BY <1>6 DEF SpawnStep, replay_spawn, spawn_child, At
<1> QED
  BY <1>2, <1>3, <1>4, <1>5, <1>6 DEF RunStep

LEMMA RunStepLog ==
  ASSUME ReplayInv, TypeOK', Grows, Unforgotten, [Next]_vars, NEW s \in Slots, RunStep(s)
  PROVE  RunLog(s)' /\ \A t \in Slots \ {s} : values'[t] = values[t]
<1> Inv /\ TypeOK /\ SpawnInv /\ RunLog(s)
  BY DEF ReplayInv, BackedInv, Inv
<1>1. CASE run_workflow(s)
  <2>1. /\ pc[s] = "load" /\ history'[s] = events[wf[s]] /\ pc'[s] \in {"step", "fail"}
        /\ events' = events /\ wf'[s] = wf[s] /\ step' = step /\ values' = values /\ code' = code
    BY <1>1 DEF run_workflow, tables, TypeOK, RunsOK
  <2>2. Valued(s)'
    BY <2>1, ValuedStays DEF RunLog, Active
  <2>3. Ahead(s)'
    BY <2>1 DEF Ahead
  <2> QED
    BY <2>1, <2>2, <2>3, ElsewhereLog
<1>2. CASE Suspend(s)
  <2>1. /\ pc'[s] = "idle" /\ step'[s] = 1 /\ values'[s] = <<>>
        /\ \A t \in Slots \ {s} : values'[t] = values[t]
    BY <1>2 DEF Suspend, Over
  <2> QED
    BY <2>1, FreshLog
<1>3. ASSUME NEW v \in Values, Return(s, v), Learned(s, v)
      PROVE  RunLog(s)' /\ \A t \in Slots \ {s} : values'[t] = values[t]
  <2>1. /\ pc'[s] = "step" /\ wf'[s] = wf[s] /\ history'[s] = history[s] /\ step'[s] = step[s] + 1
        /\ \A t \in Slots \ {s} : values'[t] = values[t]
    BY <1>3 DEF Return, TypeOK, RunsOK
  <2>2. Active(s) /\ pc[s] # "load" /\ step[s] \in DOMAIN Body(s)
    <3>1. step'[s] # step[s]
      BY <2>1 DEF TypeOK, RunsOK
    <3>2. AtStep(s) \/ pc[s] \in {"exec", "reload"}
      <4>1. Suspend(s) => pc'[s] = "idle"
        BY DEF Suspend, Over
      <4> QED
        BY <2>1, <3>1, <4>1, Returners
    <3>3. CASE AtStep(s)
      BY <3>3, CurrentTyped DEF AtStep
    <3>4. CASE pc[s] \in {"exec", "reload"}
      BY <3>4 DEF Inv, RunInv, InStep, Active
    <3> QED
      BY <3>2, <3>3, <3>4
  <2>3. Ahead(s)'
    BY <2>1, <2>2, AheadMoves
  <2>4. Valued(s)'
    BY <1>3, <2>2, ValuedReturns DEF RunLog
  <2> QED
    BY <2>1, <2>3, <2>4, ElsewhereLog
<1>4. ASSUME NEW r \in Results, complete_activity(s, r)
      PROVE  RunLog(s)' /\ \A t \in Slots \ {s} : values'[t] = values[t]
  BY <1>4, CompleteLog DEF complete_activity, Return, TypeOK, RunsOK
<1>5. ASSUME NEW to \in PC, Await(s, to) \/ AwaitDeadline(s, to)
      PROVE  RunLog(s)' /\ \A t \in Slots \ {s} : values'[t] = values[t]
  <2>1. /\ wf' = wf /\ history' = history /\ step' = step /\ values' = values /\ code' = code
    BY <1>5 DEF Await, AwaitDeadline
  <2>2. ASSUME NEW v \in Values, Return(s, v) PROVE FALSE
    BY <2>1, <2>2 DEF Return, TypeOK, RunsOK
  <2>3. ASSUME pc[s] \notin {"idle", "load"}, pc'[s] \notin {"exec", "failed"}, Late(pc[s]) \subseteq Late(pc'[s])
        PROVE  RunLog(s)'
    BY <2>1, <2>3, MovesLog DEF Active
  <2>4. ASSUME NEW r \in Results, complete_activity(s, r) PROVE FALSE
    BY <2>2, <2>4 DEF complete_activity, Values
  <2> QED
    BY <1>1, <1>2, <1>5, <2>1, <2>2, <2>3, <2>4, Awaiting, ScheduleLog, FailLog
<1> QED
  BY <1>1, <1>2, <1>3, <1>4, <1>5, Returning

LEMMA NextRunLog ==
  ASSUME ReplayInv, TypeOK', Grows, Unforgotten, [Next]_vars, NEW t \in Slots
  PROVE  RunLog(t)'
<1> Inv /\ TypeOK /\ RunLog(t)
  BY DEF ReplayInv, BackedInv, Inv
<1>1. CASE UNCHANGED <<run, code>>
  BY <1>1, SameRunLog DEF Same, run
<1>2. ASSUME NEW s \in Slots, RunStep(s) PROVE RunLog(t)'
  BY <1>2, RunStepLog, RunWake, SameRunLog DEF Advance, OthersStay
<1>3. ASSUME NEW s \in Slots, Active(s), pc[s] # "load", pc' = [pc EXCEPT ![s] = "fail"],
             UNCHANGED <<wf, history, step, values, code>>
      PROVE  RunLog(t)'
  <2>1. CASE t = s
    <3>1. pc'[s] = "fail"
      BY <1>3 DEF TypeOK, RunsOK
    <3> QED
      BY <1>3, <2>1, <3>1, LateGrows, MovesLog
  <2>2. CASE t # s
    BY <1>3, <2>2, SameRunLog DEF Same, TypeOK, RunsOK
  <2> QED
    BY <2>1, <2>2
<1>4. ASSUME NEW s \in Slots, NEW i \in Ids, claim(s, i) PROVE RunLog(t)'
  <2>1. CASE t = s
    <3>1. /\ pc'[s] = "load" /\ step' = step /\ values' = values
          /\ pc[s] = "idle" /\ step[s] = 1
      BY <1>4 DEF claim, Inv, RunInv, Prefix, TypeOK, RunsOK
    <3>2. Len(values'[s]) = 0 /\ Len(values'[s]) = step'[s] - 1
      BY <2>1, <3>1 DEF RunLog, Valued
    <3>3. Ahead(s)'
      BY <3>1 DEF Ahead
    <3>4. Valued(s)'
      <4>1. \A k \in 1..Len(values'[s]) : FALSE
        BY <3>2
      <4> QED
        BY <3>2, <4>1 DEF Valued
    <3> QED
      BY <2>1, <3>1, <3>3, <3>4, ElsewhereLog
  <2>2. CASE t # s
    BY <1>4, <2>2, SameRunLog DEF claim, Same, TypeOK, RunsOK
  <2> QED
    BY <2>1, <2>2
<1>5. ASSUME NEW S \in SUBSET Slots, LosesRuns(S) PROVE RunLog(t)'
  <2>1. CASE t \in S
    BY <1>5, <2>1, FreshLog DEF LosesRuns, Over
  <2>2. CASE t \notin S
    BY <1>5, <2>2, SameRunLog DEF LosesRuns, Over, Same
  <2> QED
    BY <2>1, <2>2
<1>6. ASSUME NEW s \in Slots, Breaks(s) PROVE RunLog(t)'
  BY <1>3, <1>6 DEF Breaks
<1>7. ASSUME NEW s \in Slots, NEW r \in Results, notify_error(s, r) PROVE RunLog(t)'
  BY <1>3, <1>7 DEF notify_error, Active
<1> QED
  BY <1>1, <1>2, <1>4, <1>5, <1>6, <1>7, NextRuns DEF RunKind

-----------------------------------------------------------------------------
(***************************************************************************)
(* Nothing is recorded twice.                                              *)
(***************************************************************************)
LEMMA WritesNew ==
  ASSUME Inv, NEW s \in Slots, RunLog(s), Writes(s), NEW i \in Ids, i = wf[s],
         NEW n \in 1..Len(events'[i]), n > Len(events[i]), events'[i][n].type \in Single
  PROVE  Found(events[i], step[s], events'[i][n].type) = {}
<1> TypeOK
  BY DEF Inv
<1>1. Active(s) /\ step[s] \in Nat
  BY WritesOne DEF TypeOK, RunsOK
<1>2. ASSUME NEW type \in EventType, NEW k \in Nat, NEW key \in Keys, NEW val \in Values,
             write_event(i, Event(type, k, key, val))
      PROVE  events'[i][n].type = type
  <2> DEFINE e == Event(type, k, key, val)
  <2>1. e \in EventRecord /\ e.type = type
    BY EventTyped DEF Event
  <2>2. events'[i] = Append(events[i], e)
    BY <1>2 DEF write_event, Appended, TypeOK, TablesOK
  <2> HIDE DEF e
  <2> QED
    BY <2>1, <2>2, NewEvent
<1>3. UNCHANGED tables => FALSE
  BY DEF tables, TypeOK, TablesOK
<1>4. ASSUME NEW type \in Single, type \notin Late(pc[s]), pc[s] # "load", find_event(history[s], step[s], type) = {}
      PROVE  Found(events[i], step[s], type) = {}
  <2>1. Len(history[s]) \in Nat
    BY DEF TypeOK, RunsOK
  <2>2. Found(history[s], step[s], type) = {}
    BY <1>4, <2>1, FindsAny
  <2>3. type \in Own \ Late(pc[s])
    BY <1>4 DEF Own, Single
  <2> QED
    BY <1>1, <1>4, <2>2, <2>3, NothingNew DEF RunLog
<1>5. CASE schedule(s)
  <2>1. Current(s).key \in Keys /\ pc[s] = "step"
    BY <1>5, CurrentTyped DEF schedule, NotReplayed, At, AtStep, StepRecord
  <2>2. /\ write_event(i, Event("scheduled", step[s], Current(s).key, None))
        /\ find_event(history[s], step[s], "scheduled") = {}
    BY <1>3, <1>5 DEF schedule, find_scheduled_event
  <2>3. events'[i][n].type = "scheduled"
    BY <1>1, <1>2, <2>1, <2>2, NoneTyped DEF EventType
  <2>4. "scheduled" \in Single /\ "scheduled" \notin Late(pc[s])
    BY <2>1, LateGrows DEF Single
  <2> QED
    BY <1>4, <2>1, <2>2, <2>3, <2>4
<1>6. CASE fail_activity(s)
  <2>1. events'[i][n].type = "failed"
    BY <1>1, <1>2, <1>6, NoneTyped DEF fail_activity, EventType
  <2> QED
    BY <2>1 DEF Single
<1>7. CASE start_sleep(s)
  <2>1. events'[i][n].type = "sleep" /\ pc[s] = "step" /\ find_event(history[s], step[s], "sleep") = {}
    BY <1>1, <1>2, <1>7, NoneTyped DEF start_sleep, EventType, At, AtStep
  <2>2. "sleep" \in Single /\ "sleep" \notin Late(pc[s])
    BY <2>1, LateGrows DEF Single
  <2> QED
    BY <1>4, <2>1, <2>2
<1>8. CASE write_marker(s)
  <2>1. Current(s).key \in Keys
    BY <1>8, CurrentTyped DEF write_marker, AtWait, StepRecord
  <2>2. write_event(i, Event("signal", 0, Current(s).key, Waiting))
    BY <1>3, <1>8 DEF write_marker
  <2>3. events'[i][n].type = "signal"
    BY <1>2, <2>1, <2>2, NoneTyped DEF EventType
  <2> QED
    BY <2>3 DEF Single
<1>9. ASSUME NEW r \in Results, write_event(i, Event("completed", step[s], None, r)), pc[s] = "exec"
      PROVE  Found(events[i], step[s], events'[i][n].type) = {}
  <2>1. events'[i][n].type = "completed"
    BY <1>1, <1>2, <1>9, NoneTyped DEF EventType, Values
  <2>2. "completed" \in Own \ Late(pc[s])
    BY <1>9 DEF Own, Late
  <2> QED
    BY <1>1, <1>9, <2>1, <2>2, NothingNew DEF RunLog, Undone
<1> QED
  BY <1>5, <1>6, <1>7, <1>8, <1>9 DEF Writes, complete_activity, notify_error

LEMMA NextOnce ==
  ASSUME ReplayInv, TypeOK', Grows, [Next]_vars
  PROVE  Once'
<1> Inv /\ TypeOK /\ LeaseHeld /\ Once
  BY DEF ReplayInv, BackedInv, Inv
<1> SUFFICES ASSUME NEW i \in Ids, NEW m \in 1..Len(events'[i]), NEW n \in 1..Len(events'[i]), m <= n,
                    events'[i][m].type \in Single, events'[i][m].type = events'[i][n].type,
                    events'[i][m].step = events'[i][n].step
             PROVE  m = n
  BY DEF Once, OnceIn, TypeOK, TablesOK
<1>1. /\ Len(events[i]) \in Nat /\ Len(events'[i]) \in Nat /\ Len(events[i]) <= Len(events'[i])
      /\ \A r \in 1..Len(events[i]) : events'[i][r] = events[i][r]
  BY DEF TypeOK, TablesOK, Grows
<1>2. CASE n <= Len(events[i])
  <2>1. m \in 1..Len(events[i]) /\ n \in 1..Len(events[i])
    BY <1>1, <1>2
  <2> QED
    BY <1>1, <2>1 DEF Once, OnceIn
<1>3. CASE n > Len(events[i])
  <2>1. events'[i][n].type \in Own
    BY DEF Single, Own
  <2>2. PICK s \in Slots : Writes(s) /\ wf[s] = i /\ events'[i][n].step = step[s]
    BY <1>3, <2>1, NewOwn
  <2>3. Found(events[i], step[s], events'[i][n].type) = {}
    BY <1>3, <2>2, WritesNew DEF ReplayInv
  <2>4. ASSUME m <= Len(events[i]) PROVE FALSE
    <3>1. m \in 1..Len(events[i]) /\ events[i][m] = events'[i][m]
      BY <1>1, <2>4
    <3>2. m \in Found(events[i], step[s], events'[i][n].type)
      BY <2>2, <3>1 DEF Found
    <3> QED
      BY <2>3, <3>2
  <2>5. PICK e \in EventRecord : events' = Appended(wf[s], e)
    BY <1>1, <1>3, <2>2, WritesOne
  <2>6. Len(events'[i]) = Len(events[i]) + 1
    BY <2>2, <2>5, Appending DEF Appended, TypeOK, TablesOK
  <2> QED
    BY <1>1, <1>3, <2>4, <2>6
<1> QED
  BY <1>1, <1>2, <1>3

-----------------------------------------------------------------------------
(***************************************************************************)
(* Who runs a workflow, and its status.                                    *)
(***************************************************************************)
\* A run goes on with its workflow, or begins with the workflow it claims.
LEMMA ActiveFrom ==
  ASSUME Inv, [Next]_vars, NEW t \in Slots, pc'[t] # "idle"
  PROVE  \/ Active(t) /\ wf'[t] = wf[t]
         \/ \E i \in Ids : claim(t, i) /\ wf'[t] = i /\ status'[i] = "running"
<1> TypeOK
  BY DEF Inv
<1>1. ASSUME Same(t) PROVE Active(t) /\ wf'[t] = wf[t]
  BY <1>1 DEF Same, Active
<1>2. CASE UNCHANGED <<run, code>>
  BY <1>1, <1>2 DEF Same, run
<1>3. ASSUME NEW s \in Slots, RunStep(s) PROVE Active(t) /\ wf'[t] = wf[t]
  <2>1. KeepsLease(s) \/ DropsLease(s)
    BY <1>3, RunStepLease
  <2> QED
    BY <2>1 DEF KeepsLease, DropsLease, Over, Active
<1>4. ASSUME NEW s \in Slots, Active(s), pc' = [pc EXCEPT ![s] = "fail"], UNCHANGED wf
      PROVE  Active(t) /\ wf'[t] = wf[t]
  BY <1>4 DEF Active, TypeOK, RunsOK
<1>5. ASSUME NEW s \in Slots, NEW i \in Ids, claim(s, i)
      PROVE  \/ Active(t) /\ wf'[t] = wf[t]
             \/ \E j \in Ids : claim(t, j) /\ wf'[t] = j /\ status'[j] = "running"
  <2>1. CASE t = s
    BY <1>5, <2>1 DEF claim, claim_next_workflow, TypeOK, RunsOK
  <2>2. CASE t # s
    BY <1>5, <2>2 DEF claim, Active, TypeOK, RunsOK
  <2> QED
    BY <2>1, <2>2
<1>6. ASSUME NEW S \in SUBSET Slots, LosesRuns(S) PROVE Active(t) /\ wf'[t] = wf[t]
  BY <1>6 DEF LosesRuns, Over, Active
<1>7. ASSUME NEW s \in Slots, Breaks(s) \/ \E r \in Results : notify_error(s, r) PROVE Active(t) /\ wf'[t] = wf[t]
  BY <1>4, <1>7 DEF Breaks, notify_error, Active
<1> QED
  BY <1>2, <1>3, <1>5, <1>6, <1>7, NextRuns DEF RunKind

LEMMA NextRunning ==
  ASSUME Inv, LeaseHeld, Running, [Next]_vars
  PROVE  Running'
<1> SUFFICES ASSUME NEW t \in Slots, pc'[t] # "idle" PROVE status'[wf'[t]] = "running"
  BY DEF Running, Active
<1>1. CASE Active(t) /\ wf'[t] = wf[t]
  <2>1. PICK i \in Ids : i = wf[t] /\ status[i] = "running"
    BY <1>1, RunHas DEF Running
  <2>2. ASSUME status'[i] # "running" PROVE FALSE
    <3>1. PICK s \in Slots : Active(s) /\ wf[s] = i /\ pc'[s] = "idle"
      BY <2>1, <2>2, StopsRunning
    <3>2. s = t
      BY <1>1, <2>1, <3>1 DEF LeaseHeld
    <3> QED
      BY <3>1, <3>2
  <2> QED
    BY <1>1, <2>1, <2>2
<1>2. CASE \E i \in Ids : claim(t, i) /\ wf'[t] = i /\ status'[i] = "running"
  BY <1>2
<1> QED
  BY <1>1, <1>2, ActiveFrom

-----------------------------------------------------------------------------
(***************************************************************************)
(* The invariant holds, and what it says.                                  *)
(***************************************************************************)
LEMMA InitReplay == Init => ReplayInv
<1> SUFFICES ASSUME Init PROVE ReplayInv
  OBVIOUS
<1>1. BackedInv
  BY InitBacked
<1>2. \A s \in Slots : pc[s] = "idle" /\ step[s] = 1 /\ values[s] = <<>>
  BY DEF Init
<1>3. LeaseHeld /\ Running /\ \A s \in Slots : RunLog(s)
  BY <1>2 DEF LeaseHeld, Running, RunLog, Undone, Attempts, Scheduled, Ahead, Valued, Active
<1>4. Once
  <2>1. \A i \in Ids : Len(events[i]) = 0
    BY DEF Init, TablesInit
  <2> QED
    BY <2>1 DEF Once, OnceIn
<1> QED
  BY <1>1, <1>3, <1>4 DEF ReplayInv

LEMMA NextReplay ==
  ASSUME ReplayInv, [Next]_vars, MaxFaults["stall"] = 0
  PROVE  ReplayInv'
<1> BackedInv /\ Inv /\ TypeOK /\ LeaseHeld
  BY DEF ReplayInv, BackedInv, Inv
<1>1. BackedInv' /\ TypeOK'
  BY NextBacked DEF BackedInv, Inv
<1>2. LeaseHeld'
  BY NextLease
<1>3. Grows /\ Unforgotten
  BY <1>1, NextTable, ElapsedStays DEF TableStep
<1>4. \A s \in Slots : RunLog(s)'
  BY <1>1, <1>3, NextRunLog
<1>5. Once'
  BY <1>1, <1>3, NextOnce
<1>6. Running'
  BY NextRunning DEF ReplayInv
<1> QED
  BY <1>1, <1>2, <1>4, <1>5, <1>6 DEF ReplayInv

\* The invariant of this module holds of an engine whose heartbeats are in time.
THEOREM ReplayInvariant ==
  ASSUME MaxFaults["stall"] = 0
  PROVE  Spec => []ReplayInv
<1>1. ReplayInv /\ [Next]_vars => ReplayInv'
  BY NextReplay
<1> QED
  BY <1>1, InitReplay, PTL DEF Spec

\* Whatever a run returned to its workflow function, a replay of the log returns
\* again, across crashes, errors and deployments.
THEOREM ReplaysAlike ==
  ASSUME MaxFaults["stall"] = 0
  PROVE  Spec => []ReplayConsistent
<1>1. ASSUME ReplayInv, NEW s \in Slots, Active(s), NEW k \in 1..Len(values[s])
      PROVE  Outcome(wf[s], Body(s)[k], k) = {values[s][k]}
  <2>1. Inv /\ TypeOK /\ SpawnInv /\ Valued(s)
    BY <1>1 DEF ReplayInv, BackedInv, Inv, RunLog
  <2>2. PICK i \in Ids, v \in Versions : i = wf[s] /\ v = code[WorkerOf[s]] /\ Body(s) = Program[v][i]
    BY <1>1, <2>1, BodyTyped DEF Body
  <2>3. /\ k \in DOMAIN Program[v][i]
        /\ IF Program[v][i][k].op = "spawn" THEN values[s][k] = Program[v][i][k].key
                                            ELSE values[s][k] \in Outcome(i, Program[v][i][k], k)
    BY <1>1, <2>1, <2>2 DEF Valued
  <2>4. CASE Program[v][i][k].op = "spawn"
    <3>1. k < step[s]
      BY <1>1, <2>1 DEF Valued, TypeOK, RunsOK
    <3>2. ChildOf(Program[v][i][k].key, i)
      BY <1>1, <2>1, <2>2, <2>3, <2>4, <3>1 DEF Inv, RunInv, Passed
    <3>3. ASSUME NEW d \in DOMAIN Program[v][i], Program[v][i][d].op = "spawn", ChildOf(Program[v][i][d].key, i)
          PROVE  Outcome(i, Program[v][i][d], d) = {Program[v][i][d].key}
      BY <2>1, <3>3, SpawnOutcome
    <3> QED
      BY <2>2, <2>3, <2>4, <3>2, <3>3
  <2>5. CASE Program[v][i][k].op # "spawn"
    <3>1. \A u, w \in Outcome(i, Program[v][i][k], k) : u = w
      BY <2>1, OneOutcome
    <3> QED
      BY <2>2, <2>3, <2>5, <3>1
  <2> QED
    BY <2>4, <2>5
<1>2. ReplayInv => ReplayConsistent
  BY <1>1 DEF ReplayConsistent
<1> QED
  BY <1>2, ReplayInvariant, PTL

\* A step is scheduled, completed and put to sleep at most once in the log.
THEOREM RecordsOnce ==
  ASSUME MaxFaults["stall"] = 0
  PROVE  Spec => []RecordedOnce
<1>1. ASSUME ReplayInv, NEW i \in Ids, NEW k, NEW type \in Single PROVE EventCount(i, k, type) <= 1
  <2> DEFINE A == {n \in 1..Len(events[i]) : events[i][n].step = k /\ events[i][n].type = type}
  <2>1. EventCount(i, k, type) = Cardinality(A)
    BY DEF EventCount
  <2>2. \A m, n \in A : m = n
    BY <1>1 DEF ReplayInv, Once, OnceIn
  <2> HIDE DEF A
  <2>3. CASE A = {}
    BY <2>1, <2>3, FS_EmptySet
  <2>4. CASE A # {}
    <3>1. PICK n \in A : A = {n}
      BY <2>2, <2>4
    <3>2. Cardinality({n}) = 1
      BY FS_Singleton
    <3> QED
      BY <2>1, <3>1, <3>2
  <2> QED
    BY <2>3, <2>4
<1>2. ReplayInv => RecordedOnce
  BY <1>1 DEF RecordedOnce, Single
<1> QED
  BY <1>2, ReplayInvariant, PTL

\* A body executes only as the call its SCHEDULED event recorded, whatever code
\* the worker runs.
THEOREM ExecutesAsScheduled ==
  ASSUME MaxFaults["stall"] = 0
  PROVE  Spec => []ExecutesWhatWasScheduled
<1>1. ReplayInv => ExecutesWhatWasScheduled
  BY DEF ReplayInv, RunLog, Scheduled, ExecutesWhatWasScheduled
<1> QED
  BY <1>1, ReplayInvariant, PTL

-----------------------------------------------------------------------------
(***************************************************************************)
(* A retry is not early.                                                   *)
(***************************************************************************)
\* The n-th event of i is a failed attempt whose deadline is still awaited: by the
\* run that failed, or by run_at.
Awaited(i, n) ==
  \/ \E s \in Slots : pc[s] = "failed" /\ wf[s] = i /\ wake[s] = n
  \/ run_at[i] = n /\ ~RunBy(i)

SignalAfter(i, n) == \E m \in (n + 1)..Len(events[i]) : events[i][m].type = "signal" /\ events[i][m].val # Waiting

\* Of every failed attempt the deadline has passed, or something else made the
\* workflow due or ended it, or the deadline is awaited.
BackoffInv ==
  faults["crash"] + faults["error"] = 0 =>
    \A i \in Ids : \A n \in 1..Len(events[i]) : events[i][n].type = "failed" =>
      n \in elapsed[i] \/ SignalAfter(i, n) \/ status[i] \in Terminal \/ Awaited(i, n)

SignalComes(i) == \E e \in EventRecord : events'[i] = Append(events[i], e) /\ e.type = "signal" /\ e.val # Waiting

\* A signal or a child's end comes with its wake-up.
LEMMA SignalArrives ==
  ASSUME Inv, NEW q \in Requests, write_signal(q)
  PROVE  /\ SignalTo[q] \in Ids /\ SignalComes(SignalTo[q])
         /\ \A i \in Ids \ {SignalTo[q]} : status'[i] = status[i] /\ run_at'[i] = run_at[i]
<1>1. SignalTo[q] \in Ids /\ SignalType[q] \in SignalTypes
  BY ConstantsAssumption
<1> DEFINE e == Event("signal", 0, SignalType[q], q)
<1>2. e \in EventRecord /\ e.type = "signal" /\ e.val # Waiting
  BY <1>1, EventTyped, DistinctAssumption DEF EventType, Event, Keys, Values
<1>3. events'[SignalTo[q]] = Append(events[SignalTo[q]], e)
  BY <1>1 DEF write_signal, write_signal_and_wake_workflow, Appended, Inv, TypeOK, TablesOK
<1>4. \A i \in Ids \ {SignalTo[q]} : status'[i] = status[i] /\ run_at'[i] = run_at[i]
  BY <1>1 DEF write_signal, write_signal_and_wake_workflow, Inv, TypeOK, TablesOK
<1> HIDE DEF e
<1> QED
  BY <1>1, <1>2, <1>3, <1>4 DEF SignalComes

LEMMA EndArrives ==
  ASSUME Inv, NEW s \in Slots, EndsRun(s), NEW i \in Ids, i # wf[s], status'[i] # status[i] \/ run_at'[i] # run_at[i]
  PROVE  SignalComes(i)
<1>0. wf[s] \in Ids
  BY RunHas DEF EndsRun, finish, fail, exhaust_retries, Active
<1>1. PICK type \in {"workflow_completed", "workflow_failed"}, final \in Terminal, v \in {Done, Failed}, p \in {parent_info(s)} :
        write_terminal_workflow_event(wf[s], type, final, p, v)
  BY DEF EndsRun, finish, fail, exhaust_retries, complete_workflow, fail_workflow, Terminal
<1>2. i = p
  BY <1>1 DEF write_terminal_workflow_event
<1> DEFINE f == Event("signal", 0, wf[s], v)
<1>3. f \in EventRecord /\ f.type = "signal" /\ f.val # Waiting
  BY <1>0, EventTyped, NoneTyped, DistinctAssumption DEF EventType, Event, Keys
<1>4. events'[i] = Append(events[i], f)
  BY <1>1, <1>2 DEF write_terminal_workflow_event
<1> HIDE DEF f
<1> QED
  BY <1>3, <1>4 DEF SignalComes

\* Only a signal or a child's end revives a terminal workflow.
LEMMA Revival ==
  ASSUME Inv, Running, [Next]_vars, NEW i \in Ids, status[i] \in Terminal, status'[i] \notin Terminal
  PROVE  SignalComes(i)
<1> TypeOK
  BY DEF Inv
<1>1. status[i] # "absent" /\ status[i] # "running" /\ status'[i] # status[i]
  BY DEF Terminal
<1>2. ASSUME NEW j \in Ids, start_workflow(j) PROVE FALSE
  BY <1>1, <1>2 DEF start_workflow, create_workflow, TypeOK, TablesOK
<1>3. ASSUME NEW q \in Requests, write_signal(q) PROVE SignalComes(i)
  BY <1>1, <1>3, SignalArrives
<1>4. ASSUME NEW s \in Slots, Writes(s) PROVE FALSE
  BY <1>1, <1>4, WritesOne DEF rows
<1>5. ASSUME NEW s \in Slots, spawn_child(s) PROVE FALSE
  BY <1>1, <1>5 DEF spawn_child, create_child_workflow, tables, TypeOK, TablesOK
<1>6. ASSUME NEW s \in Slots, mark_waiting(s) PROVE FALSE
  <2>1. Active(s) /\ wf[s] = i
    BY <1>1, <1>6 DEF mark_waiting, mark_workflow_waiting, Active, TypeOK, TablesOK
  <2> QED
    BY <1>1, <2>1 DEF Running
<1>7. ASSUME NEW s \in Slots, EndsRun(s) PROVE SignalComes(i)
  <2>1. ASSUME wf[s] = i PROVE FALSE
    <3>1. Active(s)
      BY <1>7 DEF EndsRun, finish, fail, exhaust_retries, Active
    <3> QED
      BY <1>1, <2>1, <3>1 DEF Running
  <2> QED
    BY <1>1, <1>7, <2>1, EndArrives
<1> QED
  BY <1>1, <1>2, <1>3, <1>4, <1>5, <1>6, <1>7, StepKind DEF TableKind

\* run_at of a workflow that exists and that nobody runs changes only with a signal or a child's end.
LEMMA RunAtStays ==
  ASSUME Inv, [Next]_vars, NEW i \in Ids, Has(i), ~RunBy(i), run_at'[i] # run_at[i]
  PROVE  SignalComes(i)
<1> TypeOK
  BY DEF Inv
<1>1. ASSUME UNCHANGED run_at PROVE FALSE
  BY <1>1
<1>2. ASSUME NEW s \in Slots, RunStep(s) PROVE SignalComes(i)
  <2>1. Active(s) /\ wf[s] \in Ids /\ wf[s] # i
    <3>1. KeepsLease(s) \/ DropsLease(s)
      BY <1>2, RunStepLease
    <3> QED
      BY <3>1, RunHas DEF KeepsLease, DropsLease, RunBy
  <2>2. ASSUME NEW n, update_workflow_run_at(wf[s], n) PROVE FALSE
    BY <2>1, <2>2 DEF update_workflow_run_at, TypeOK, TablesOK
  <2>3. CASE RunnerStep(s)
    BY <1>1, <2>1, <2>3, EndArrives DEF RunnerStep, run_workflow, raise, EndsRun, tables
  <2>4. CASE ActivityStep(s)
    BY <1>1, <2>1, <2>2, <2>4, EndArrives DEF ActivityStep, replay_activity, DivergenceError, schedule, complete_activity,
       fail_activity, retry, EndsRun, write_event, tables, rows
  <2>5. CASE SleepStep(s)
    BY <1>1, <2>2, <2>5 DEF SleepStep, wake_up, re_suspend, start_sleep, suspend_sleep, write_event, tables, rows
  <2>6. CASE WaitStep(s)
    BY <1>1, <2>6 DEF WaitStep, replay_wait, write_marker, mark_waiting, mark_workflow_waiting, already_received, reload,
       write_event, tables, rows
  <2>7. CASE SpawnStep(s)
    <3>1. CASE replay_spawn(s)
      BY <1>1, <3>1 DEF replay_spawn, tables
    <3>2. CASE spawn_child(s)
      BY <1>1, <3>2 DEF spawn_child, create_child_workflow, tables, TypeOK, TablesOK, Has
    <3> QED
      BY <2>7, <3>1, <3>2 DEF SpawnStep
  <2> QED
    BY <1>2, <2>3, <2>4, <2>5, <2>6, <2>7 DEF RunStep
<1>3. ASSUME NEW j \in Ids, start_workflow(j) PROVE FALSE
  BY <1>3 DEF start_workflow, create_workflow, TypeOK, TablesOK, Has
<1>4. ASSUME NEW q \in Requests, write_signal(q) PROVE SignalComes(i)
  BY <1>4, SignalArrives
<1>5. ASSUME \/ \E j \in Ids : ClockStep(j)
             \/ \E q \in Requests : send_signal(q)
             \/ \E s \in Slots : heartbeat(s) \/ \E j \in Ids : claim(s, j)
             \/ FaultStep
      PROVE  FALSE
  BY <1>1, <1>5 DEF ClockStep, lapse, LetLapse, Elapse, send_signal, heartbeat, extend_workflow_lock, claim,
     claim_next_workflow, FaultStep, stall, restart, database_error, activity_cancelled, notify_error, write_event, tables, rows
<1>6. CASE UNCHANGED vars
  BY <1>6 DEF vars
<1> QED
  BY <1>2, <1>3, <1>4, <1>5, <1>6 DEF Next

Mishaps == faults["crash"] + faults["error"]

LEMMA MishapsGrow ==
  ASSUME TypeOK, TypeOK', [Next]_vars
  PROVE  /\ Mishaps \in Nat /\ Mishaps' \in Nat /\ Mishaps <= Mishaps'
         /\ faults["crash"] <= faults'["crash"] /\ faults["error"] <= faults'["error"]
<1>1. /\ faults["crash"] \in Nat /\ faults["error"] \in Nat /\ faults'["crash"] \in Nat /\ faults'["error"] \in Nat
      /\ \A f \in FaultKinds : faults[f] \in Nat
  BY DEF TypeOK, FaultKinds
<1>2. ASSUME UNCHANGED faults
      PROVE  faults["crash"] <= faults'["crash"] /\ faults["error"] <= faults'["error"]
  BY <1>1, <1>2
<1>3. ASSUME NEW f \in FaultKinds, Fault(f)
      PROVE  faults["crash"] <= faults'["crash"] /\ faults["error"] <= faults'["error"]
  <2>1. \A e \in FaultKinds : faults'[e] = IF e = f THEN faults[e] + 1 ELSE faults[e]
    BY <1>3 DEF Fault, TypeOK
  <2> QED
    BY <1>1, <2>1 DEF FaultKinds
<1>4. ASSUME FaultStep PROVE \E f \in FaultKinds : Fault(f)
  BY <1>4 DEF FaultStep, stall, restart, database_error, activity_cancelled, notify_error, FaultKinds
<1>5. ASSUME NEW s \in Slots, RunStep(s) PROVE UNCHANGED faults
  BY <1>5 DEF RunStep, RunnerStep, ActivityStep, SleepStep, WaitStep, SpawnStep,
     run_workflow, finish, raise, fail, replay_activity, DivergenceError, schedule, complete_activity, fail_activity,
     retry, exhaust_retries, wake_up, re_suspend, start_sleep, suspend_sleep, replay_wait, write_marker, mark_waiting,
     already_received, reload, replay_spawn, spawn_child, Received, Await, AwaitDeadline, Return, Suspend
<1>6. ASSUME \/ \E i \in Ids : start_workflow(i) \/ ClockStep(i)
             \/ \E q \in Requests : send_signal(q) \/ write_signal(q)
             \/ \E s \in Slots : heartbeat(s) \/ \E i \in Ids : claim(s, i)
      PROVE  UNCHANGED faults
  BY <1>6 DEF start_workflow, ClockStep, lapse, Elapse, send_signal, write_signal, heartbeat, claim, others
<1>7. faults["crash"] <= faults'["crash"] /\ faults["error"] <= faults'["error"]
  <2>1. CASE Next
    BY <1>2, <1>3, <1>4, <1>5, <1>6, <2>1 DEF Next
  <2>2. CASE UNCHANGED vars
    BY <1>2, <2>2 DEF vars
  <2> QED
    BY <2>1, <2>2
<1> QED
  BY <1>1, <1>7 DEF Mishaps

\* A run with a failed attempt writes the deadline, or fails the workflow, unless it
\* is lost before.
LEMMA FailedMoves ==
  ASSUME BackedInv, TypeOK', [Next]_vars, NEW s \in Slots, pc[s] = "failed", Mishaps' = Mishaps
  PROVE  \/ pc'[s] = "failed" /\ wf'[s] = wf[s] /\ wake'[s] = wake[s] /\ step'[s] = step[s]
         \/ retry(s)
         \/ exhaust_retries(s)
<1> Inv /\ TypeOK /\ SpawnInv
  BY DEF BackedInv, Inv
<1> DEFINE Rests(t) == pc'[t] = "failed" /\ wf'[t] = wf[t] /\ wake'[t] = wake[t] /\ step'[t] = step[t]
<1>1. ASSUME UNCHANGED <<pc, wf, wake, step>> PROVE Rests(s)
  BY <1>1
<1>2. ASSUME NEW t \in Slots, RunStep(t), t # s PROVE Rests(s)
  <2>1. /\ pc'[s] = pc[s] /\ wf'[s] = wf[s] /\ step'[s] = step[s]
    BY <1>2, RunWake DEF Advance, OthersStay, Same
  <2>2. wake'[s] = wake[s]
    <3>1. ASSUME run_workflow(t) \/ Suspend(t) PROVE wake'[s] = wake[s]
      BY <1>2, <3>1 DEF run_workflow, Suspend, Over
    <3>2. ASSUME NEW to, Await(t, to) \/ AwaitDeadline(t, to) PROVE wake'[s] = wake[s]
      BY <1>2, <3>2 DEF Await, AwaitDeadline, TypeOK, RunsOK
    <3>3. ASSUME NEW v, Return(t, v) PROVE wake'[s] = wake[s]
      BY <3>3 DEF Return
    <3> QED
      BY <1>2, <3>1, <3>2, <3>3, Returning DEF complete_activity
  <2> QED
    BY <2>1, <2>2
<1>3. ASSUME RunStep(s) PROVE retry(s) \/ exhaust_retries(s)
  BY <1>3 DEF RunStep, RunnerStep, ActivityStep, SleepStep, WaitStep, SpawnStep,
     run_workflow, finish, raise, fail, replay_activity, DivergenceError, NotReplayed, schedule, complete_activity,
     fail_activity, wake_up, re_suspend, start_sleep, suspend_sleep, replay_wait, write_marker, mark_waiting,
     already_received, reload, replay_spawn, spawn_child, At, AtWait, AtStep
<1>4. ASSUME \/ \E i \in Ids : start_workflow(i) \/ ClockStep(i) \/ stall(i)
             \/ \E q \in Requests : send_signal(q) \/ write_signal(q)
             \/ \E t \in Slots : heartbeat(t)
             \/ UNCHANGED vars
      PROVE  Rests(s)
  BY <1>1, <1>4 DEF start_workflow, ClockStep, lapse, LetLapse, stall, Elapse, send_signal, write_signal, heartbeat,
     others, run, vars
<1>5. ASSUME NEW t \in Slots, NEW i \in Ids, claim(t, i) PROVE Rests(s)
  BY <1>5 DEF claim, TypeOK, RunsOK
<1>6. ASSUME Fault("crash") \/ Fault("error") PROVE FALSE
  <2>1. /\ faults["crash"] \in Nat /\ faults["error"] \in Nat
        /\ \/ faults'["crash"] = faults["crash"] + 1 /\ faults'["error"] = faults["error"]
           \/ faults'["error"] = faults["error"] + 1 /\ faults'["crash"] = faults["crash"]
    BY <1>6 DEF Fault, TypeOK, FaultKinds
  <2> QED
    BY <2>1 DEF Mishaps
<1>7. ASSUME NEW t \in Slots, activity_cancelled(t) PROVE Rests(s)
  BY <1>7 DEF activity_cancelled, Over
<1>8. ASSUME FaultStep PROVE Rests(s)
  BY <1>4, <1>6, <1>7, <1>8 DEF FaultStep, restart, database_error, notify_error
<1> HIDE DEF Rests
<1>9. Rests(s) \/ retry(s) \/ exhaust_retries(s)
  BY <1>2, <1>3, <1>4, <1>5, <1>8 DEF Next
<1> QED
  BY <1>9 DEF Rests

\* A FAILED event is written when the body of an activity fails.
LEMMA NewFailure ==
  ASSUME Inv, [Next]_vars, NEW i \in Ids, NEW n \in 1..Len(events'[i]), n > Len(events[i]), events'[i][n].type = "failed"
  PROVE  \E s \in Slots : fail_activity(s) /\ wf[s] = i /\ events'[i][n].step = step[s]
<1> TypeOK
  BY DEF Inv
<1>0. PICK s \in Slots : Writes(s) /\ wf[s] = i /\ events'[i][n].step = step[s]
  BY NewOwn DEF Own
<1>1. ASSUME NEW type \in EventType, NEW k \in Nat, NEW key \in Keys, NEW val \in Values,
             write_event(i, Event(type, k, key, val))
      PROVE  type = "failed"
  <2> DEFINE e == Event(type, k, key, val)
  <2>1. e \in EventRecord /\ e.type = type
    BY EventTyped DEF Event
  <2>2. events'[i] = Append(events[i], e)
    BY <1>1 DEF write_event, Appended, TypeOK, TablesOK
  <2> HIDE DEF e
  <2> QED
    BY <2>1, <2>2, NewEvent
<1>2. UNCHANGED tables => FALSE
  BY DEF tables, TypeOK, TablesOK
<1>3. step[s] \in Nat
  BY DEF TypeOK, RunsOK
<1>4. ASSUME schedule(s) PROVE FALSE
  <2>1. Current(s).key \in Keys
    BY <1>4, CurrentTyped DEF schedule, NotReplayed, At, StepRecord
  <2>2. write_event(i, Event("scheduled", step[s], Current(s).key, None))
    BY <1>0, <1>2, <1>4 DEF schedule
  <2>3. "scheduled" = "failed"
    BY <1>1, <1>3, <2>1, <2>2, NoneTyped DEF EventType
  <2> QED
    BY <2>3
<1>5. ASSUME start_sleep(s) PROVE FALSE
  <2>1. "sleep" = "failed"
    BY <1>0, <1>1, <1>3, <1>5, NoneTyped DEF EventType, start_sleep
  <2> QED
    BY <2>1
<1>6. ASSUME write_marker(s) PROVE FALSE
  <2>1. Current(s).key \in Keys
    BY <1>6, CurrentTyped DEF write_marker, AtWait, StepRecord
  <2>2. write_event(i, Event("signal", 0, Current(s).key, Waiting))
    BY <1>0, <1>2, <1>6 DEF write_marker
  <2>3. "signal" = "failed"
    BY <1>1, <2>1, <2>2, NoneTyped DEF EventType
  <2> QED
    BY <2>3
<1>7. ASSUME NEW r \in Results, complete_activity(s, r) \/ notify_error(s, r) PROVE FALSE
  <2>1. "completed" = "failed"
    BY <1>0, <1>1, <1>3, <1>7, NoneTyped DEF EventType, complete_activity, notify_error, Values
  <2> QED
    BY <2>1
<1> QED
  BY <1>0, <1>4, <1>5, <1>6, <1>7 DEF Writes

LEMMA SignalsAfter ==
  ASSUME TypeOK, TypeOK', Grows, NEW i \in Ids, NEW n \in 1..Len(events[i]), SignalAfter(i, n) \/ SignalComes(i)
  PROVE  SignalAfter(i, n)'
<1>1. /\ Len(events[i]) \in Nat /\ Len(events'[i]) \in Nat /\ Len(events[i]) <= Len(events'[i])
      /\ \A m \in 1..Len(events[i]) : events'[i][m] = events[i][m]
  BY DEF TypeOK, TablesOK, Grows
<1>2. CASE SignalAfter(i, n)
  <2>1. PICK m \in (n + 1)..Len(events[i]) : events[i][m].type = "signal" /\ events[i][m].val # Waiting
    BY <1>2 DEF SignalAfter
  <2>2. m \in 1..Len(events[i]) /\ m \in (n + 1)..Len(events'[i])
    BY <1>1, <2>1
  <2> QED
    BY <1>1, <2>1, <2>2 DEF SignalAfter
<1>3. CASE SignalComes(i)
  <2>1. PICK e \in EventRecord : events'[i] = Append(events[i], e) /\ e.type = "signal" /\ e.val # Waiting
    BY <1>3 DEF SignalComes
  <2>2. Len(events'[i]) = Len(events[i]) + 1 /\ events'[i][Len(events[i]) + 1] = e
    BY <2>1, Appending
  <2>3. Len(events[i]) + 1 \in (n + 1)..Len(events'[i])
    BY <1>1, <2>2
  <2> QED
    BY <2>1, <2>2, <2>3 DEF SignalAfter
<1> QED
  BY <1>2, <1>3

LEMMA NextBackoff ==
  ASSUME ReplayInv, ReplayInv', BackoffInv, [Next]_vars
  PROVE  BackoffInv'
<1> BackedInv /\ Inv /\ TypeOK /\ TypeOK' /\ LeaseHeld /\ LeaseHeld' /\ Running
  BY DEF ReplayInv, BackedInv, Inv
<1>0. Grows /\ Unforgotten /\ Stays
  BY NextTable, ElapsedStays DEF TableStep
<1> SUFFICES ASSUME Mishaps' = 0, NEW i \in Ids, NEW n \in 1..Len(events'[i]), events'[i][n].type = "failed"
             PROVE  n \in elapsed'[i] \/ SignalAfter(i, n)' \/ status'[i] \in Terminal \/ Awaited(i, n)'
  BY DEF BackoffInv, Mishaps
<1>1. Mishaps = 0 /\ Mishaps' = Mishaps
  BY MishapsGrow
<1>2. /\ Len(events[i]) \in Nat /\ Len(events'[i]) \in Nat /\ Len(events[i]) <= Len(events'[i])
      /\ \A m \in 1..Len(events[i]) : events'[i][m] = events[i][m]
  BY <1>0 DEF TypeOK, TablesOK, Grows
<1>3. CASE n > Len(events[i])
  <2>1. PICK s \in Slots : fail_activity(s) /\ wf[s] = i
    BY <1>3, NewFailure
  <2>4. pc'[s] = "failed" /\ wf'[s] = i /\ wake'[s] = Len(events[i]) + 1
    BY <2>1 DEF fail_activity, AwaitDeadline, TypeOK, RunsOK
  <2>5. n = Len(events[i]) + 1
    <3>1. PICK e \in EventRecord : events' = Appended(i, e)
      BY <1>2, <1>3, <2>1, WritesOne DEF Writes
    <3>2. Len(events'[i]) = Len(events[i]) + 1
      BY <3>1, Appending DEF Appended, TypeOK, TablesOK
    <3> QED
      BY <1>2, <1>3, <3>2
  <2> QED
    BY <2>4, <2>5 DEF Awaited
<1>4. CASE n <= Len(events[i])
  <2>1. n \in 1..Len(events[i]) /\ events[i][n].type = "failed" /\ n \in Nat /\ n # 0
    BY <1>2, <1>4
  <2>2. Has(i)
    <3>1. events[i] # <<>>
      BY <2>1
    <3> QED
      BY <3>1 DEF Inv, TablesInv, RowsInv
  <2>3. CASE n \in elapsed[i]
    BY <1>0, <2>3 DEF Unforgotten
  <2>4. CASE SignalAfter(i, n) \/ SignalComes(i)
    BY <1>0, <2>1, <2>4, SignalsAfter
  <2>5. CASE status[i] \in Terminal
    BY <2>4, <2>5, Revival
  <2>6. ASSUME NEW s \in Slots, pc[s] = "failed", wf[s] = i, wake[s] = n
        PROVE  status'[i] \in Terminal \/ Awaited(i, n)'
    <3>1. CASE pc'[s] = "failed" /\ wf'[s] = wf[s] /\ wake'[s] = wake[s]
      BY <2>6, <3>1 DEF Awaited
    <3>2. CASE retry(s)
      <4>1. run_at'[i] = n
        BY <2>6, <3>2 DEF retry, update_workflow_run_at, TypeOK, TablesOK
      <4>2. \A t \in Slots : ~(pc'[t] # "idle" /\ wf'[t] = i)
        <5>1. pc'[s] = "idle" /\ \A t \in Slots \ {s} : pc'[t] = pc[t] /\ wf'[t] = wf[t]
          BY <3>2 DEF retry, Suspend, Over
        <5> QED
          BY <2>6, <5>1 DEF LeaseHeld, Active
      <4> QED
        BY <4>1, <4>2 DEF Awaited, RunBy, Active
    <3>3. CASE exhaust_retries(s)
      BY <2>6, <3>3 DEF exhaust_retries, fail_workflow, write_terminal_workflow_event, Terminal
    <3> QED
      BY <1>1, <2>6, <3>1, <3>2, <3>3, FailedMoves
  <2>7. ASSUME run_at[i] = n, ~RunBy(i), n \notin elapsed[i] PROVE SignalComes(i) \/ Awaited(i, n)'
    <3>1. CASE run_at'[i] # run_at[i]
      BY <2>2, <2>7, <3>1, RunAtStays
    <3>2. ASSUME NEW t \in Slots, pc'[t] # "idle", wf'[t] = i PROVE FALSE
      <4>1. \/ Active(t) /\ wf'[t] = wf[t]
            \/ \E j \in Ids : claim(t, j) /\ wf'[t] = j /\ status'[j] = "running"
        BY <3>2, ActiveFrom
      <4> QED
        BY <2>1, <2>7, <3>2, <4>1 DEF RunBy, claim, claim_next_workflow, RunAtReached
    <3> QED
      BY <2>7, <3>1, <3>2 DEF Awaited, RunBy, Active
  <2> QED
    BY <1>1, <2>1, <2>3, <2>4, <2>5, <2>6, <2>7 DEF BackoffInv, Awaited, Mishaps
<1> QED
  BY <1>2, <1>3, <1>4

\* An attempt is not repeated before its deadline unless something else makes the
\* workflow due, or a crash or an error kept the deadline from run_at.
THEOREM RetriesWait ==
  ASSUME MaxFaults["stall"] = 0
  PROVE  Spec => []BackoffKept
<1>1. Init => BackoffInv
  <2>1. Init => \A i \in Ids : Len(events[i]) = 0
    BY DEF Init, TablesInit
  <2> QED
    BY <2>1 DEF BackoffInv
<1>2. ReplayInv /\ ReplayInv' /\ BackoffInv /\ [Next]_vars => BackoffInv'
  BY NextBackoff
<1>3. Spec => []BackoffInv
  BY <1>1, <1>2, ReplayInvariant, PTL DEF Spec
<1>4. ReplayInv /\ BackoffInv => BackoffKept
  <2> SUFFICES ASSUME ReplayInv, BackoffInv, NEW s \in Slots, pc[s] = "exec", faults["crash"] + faults["error"] = 0,
                      NEW n \in 1..Len(events[wf[s]]), events[wf[s]][n].type = "failed"
               PROVE  n \in elapsed[wf[s]] \/ SignalAfter(wf[s], n)
    BY DEF BackoffKept, SignalAfter
  <2>1. PICK i \in Ids : i = wf[s]
    BY RunHas DEF ReplayInv, BackedInv, Active
  <2>2. status[i] \notin Terminal
    BY <2>1 DEF ReplayInv, Running, Active, Terminal
  <2>3. ~Awaited(i, n)
    <3>1. ASSUME NEW t \in Slots, pc[t] = "failed", wf[t] = i PROVE FALSE
      <4>1. t = s
        BY <2>1, <3>1 DEF ReplayInv, LeaseHeld, Active
      <4> QED
        BY <3>1, <4>1
    <3>2. RunBy(i)
      BY <2>1 DEF RunBy, Active
    <3> QED
      BY <3>1, <3>2 DEF Awaited
  <2> QED
    BY <2>1, <2>2, <2>3 DEF BackoffInv
<1> QED
  BY <1>3, <1>4, ReplayInvariant, PTL

-----------------------------------------------------------------------------
(***************************************************************************)
(* While no workflow that ended is revived, parents are told the truth and *)
(* retries are limited.  (Signals and children that come after the end do  *)
(* revive a workflow: see NotScheduledAgain in Engine.)                    *)
(***************************************************************************)
EndsForGood == \A i \in Ids : status[i] \in Terminal => status'[i] = status[i]
NeverRevived == [][EndsForGood]_vars

\* What a log says of the end of a child is how the child stands.
ChildTold ==
  \A i, j \in Ids : \A n \in 1..Len(events[i]) : IsReceived(events[i][n], j) =>
    status[j] = IF events[i][n].val = Done THEN "completed" ELSE "failed"

LEMMA NextChildTold ==
  ASSUME Inv, TypeOK', Grows, ChildTold, EndsForGood, [Next]_vars
  PROVE  ChildTold'
<1> TypeOK
  BY DEF Inv
<1> SUFFICES ASSUME NEW i \in Ids, NEW j \in Ids, NEW n \in 1..Len(events'[i]), IsReceived(events'[i][n], j)
             PROVE  status'[j] = IF events'[i][n].val = Done THEN "completed" ELSE "failed"
  BY DEF ChildTold, IsReceived
<1>1. /\ Len(events[i]) \in Nat /\ Len(events'[i]) \in Nat
      /\ \A m \in 1..Len(events[i]) : events'[i][m] = events[i][m]
  BY DEF TypeOK, TablesOK, Grows
<1>2. CASE n <= Len(events[i])
  <2>1. n \in 1..Len(events[i]) /\ events'[i][n] = events[i][n]
    BY <1>1, <1>2
  <2>2. status[j] = IF events[i][n].val = Done THEN "completed" ELSE "failed"
    BY <2>1 DEF ChildTold
  <2> QED
    BY <2>1, <2>2 DEF EndsForGood, Terminal
<1>3. CASE n > Len(events[i])
  <2>1. ASSUME NEW e \in EventRecord, events'[i] = Append(events[i], e) PROVE IsReceived(e, j) /\ events'[i][n] = e
    BY <1>3, <2>1, NewEvent
  <2>2. events'[i] # events[i]
    BY <1>1, <1>3
  <2>3. ASSUME NEW k \in Ids, start_workflow(k) PROVE FALSE
    <3>1. Event("started", 0, None, None) \in EventRecord /\ Event("started", 0, None, None).type # "signal"
      BY EventTyped, NoneTyped DEF EventType, Event
    <3> QED
      BY <2>1, <2>2, <2>3, <3>1 DEF start_workflow, create_workflow, Appended, TypeOK, TablesOK, IsReceived
  <2>4. ASSUME NEW q \in Requests, write_signal(q) PROVE FALSE
    <3> DEFINE e == Event("signal", 0, SignalType[q], q)
    <3>1. e \in EventRecord /\ e.key = SignalType[q] /\ SignalType[q] \in SignalTypes
      BY EventTyped, ConstantsAssumption DEF EventType, Event, Keys, Values
    <3>2. events'[i] = Append(events[i], e)
      BY <2>2, <2>4 DEF write_signal, write_signal_and_wake_workflow, Appended, TypeOK, TablesOK
    <3> HIDE DEF e
    <3> QED
      BY <2>1, <3>1, <3>2, DistinctAssumption DEF IsReceived
  <2>5. ASSUME NEW s \in Slots, Writes(s) PROVE FALSE
    <3>1. PICK e \in EventRecord : /\ events' = Appended(wf[s], e)
                                   /\ e.type \in Own \/ (e.type = "signal" /\ e.val = Waiting)
      BY <2>2, <2>5, WritesOne
    <3>2. events'[i] = Append(events[i], e)
      BY <2>2, <3>1 DEF Appended, TypeOK, TablesOK
    <3> QED
      BY <2>1, <3>1, <3>2 DEF IsReceived, Own
  <2>6. ASSUME NEW s \in Slots, spawn_child(s) PROVE FALSE
    <3>1. PICK c \in Ids, p \in Ids, k \in Nat : c = Current(s).key /\ p = wf[s] /\ k = step[s]
      BY <2>6, CurrentTyped, SpawnKey DEF spawn_child, At, TypeOK, RunsOK
    <3>2. /\ Event("started", 0, p, None) \in EventRecord /\ Event("started", 0, p, None).type # "signal"
          /\ Event("child_started", k, c, c) \in EventRecord /\ Event("child_started", k, c, c).type # "signal"
      BY EventTyped, NoneTyped DEF EventType, Event, Keys, Values
    <3>3. \/ events'[i] = Append(events[i], Event("started", 0, p, None))
          \/ events'[i] = Append(events[i], Event("child_started", k, c, c))
      BY <2>2, <2>6, <3>1 DEF spawn_child, create_child_workflow, tables
    <3> QED
      BY <2>1, <3>2, <3>3 DEF IsReceived
  <2>7. ASSUME NEW s \in Slots, mark_waiting(s) PROVE FALSE
    BY <2>2, <2>7 DEF mark_waiting, mark_workflow_waiting
  <2>8. ASSUME NEW s \in Slots, EndsRun(s)
        PROVE  status'[j] = IF events'[i][n].val = Done THEN "completed" ELSE "failed"
    <3>1. wf[s] \in Ids
      BY <2>8, RunHas DEF EndsRun, finish, fail, exhaust_retries, Active
    <3>2. ASSUME NEW type \in {"workflow_completed", "workflow_failed"}, NEW final, NEW p, NEW v \in {Done, Failed},
                 write_terminal_workflow_event(wf[s], type, final, p, v), final = IF v = Done THEN "completed" ELSE "failed"
          PROVE  status'[j] = IF events'[i][n].val = Done THEN "completed" ELSE "failed"
      <4> DEFINE e == Event(type, 0, None, None)
                 f == Event("signal", 0, wf[s], v)
      <4>1. /\ e \in EventRecord /\ e.type # "signal"
            /\ f \in EventRecord /\ f.key = wf[s] /\ f.val = v
        BY <3>1, EventTyped, NoneTyped DEF EventType, Event, Keys
      <4>2. events'[i] = Append(events[i], e) \/ events'[i] = Append(events[i], f)
        BY <2>2, <3>2 DEF write_terminal_workflow_event
      <4>3. status'[wf[s]] = final
        BY <3>1, <3>2 DEF write_terminal_workflow_event
      <4> HIDE DEF e, f
      <4>4. events'[i][n] = f /\ j = wf[s]
        BY <2>1, <4>1, <4>2 DEF IsReceived
      <4> QED
        BY <3>2, <4>1, <4>3, <4>4
    <3>3. \E p : complete_workflow(wf[s], p) \/ fail_workflow(wf[s], p)
      BY <2>8 DEF EndsRun, finish, fail, exhaust_retries
    <3> QED
      BY <3>2, <3>3, DistinctAssumption DEF complete_workflow, fail_workflow
  <2> QED
    BY <2>2, <2>3, <2>4, <2>5, <2>6, <2>7, <2>8, StepKind DEF TableKind
<1> QED
  BY <1>1, <1>2, <1>3

\* A parent that is told how its child ended finds it so, stalls or not, unless the
\* child is revived.
THEOREM ParentsAreToldTheTruth == Spec /\ NeverRevived => []ChildOutcomeTrue
<1>1. Init => ChildTold
  <2>1. Init => \A i \in Ids : Len(events[i]) = 0
    BY DEF Init, TablesInit
  <2> QED
    BY <2>1 DEF ChildTold
<1>2. BackedInv /\ BackedInv' /\ ChildTold /\ [Next]_vars /\ [EndsForGood]_vars => ChildTold'
  <2> SUFFICES ASSUME BackedInv, BackedInv', ChildTold, [Next]_vars, [EndsForGood]_vars PROVE ChildTold'
    OBVIOUS
  <2>1. Inv /\ TypeOK /\ TypeOK'
    BY DEF BackedInv, Inv
  <2>2. EndsForGood
    BY DEF EndsForGood, vars
  <2>3. Grows
    BY <2>1, NextTable DEF TableStep
  <2> QED
    BY <2>1, <2>2, <2>3, NextChildTold
<1>3. Spec /\ NeverRevived => []ChildTold
  BY <1>1, <1>2, BackedInvariant, PTL DEF Spec, NeverRevived
<1>4. ChildTold => ChildOutcomeTrue
  BY DEF ChildTold, ChildOutcomeTrue, find_signal_event
<1> QED
  BY <1>3, <1>4, PTL

\* The retries spent on a step, up to the attempt whose failure is being handled or
\* ended the workflow.
AttemptAtHand(i, k) == status[i] \in Terminal \/ \E s \in Slots : pc[s] = "failed" /\ wf[s] = i /\ step[s] = k
RetriesInv ==
  \A i \in Ids : \A k \in Nat : EventCount(i, k, "failed") > 0 =>
    \E v \in Versions :
      /\ k \in DOMAIN Program[v][i]
      /\ \/ EventCount(i, k, "failed") <= Program[v][i][k].retries + Mishaps
         \/ EventCount(i, k, "failed") <= Program[v][i][k].retries + Mishaps + 1 /\ AttemptAtHand(i, k)

\* A log where no body of step k fails has as many failures of it as before.
LEMMA SameCount ==
  ASSUME TypeOK, TypeOK', Grows, NEW i \in Ids, NEW k,
         \A n \in 1..Len(events'[i]) : ~(n > Len(events[i]) /\ events'[i][n].type = "failed" /\ events'[i][n].step = k)
  PROVE  EventCount(i, k, "failed")' = EventCount(i, k, "failed")
<1>1. /\ Len(events[i]) \in Nat /\ Len(events'[i]) \in Nat /\ Len(events[i]) <= Len(events'[i])
      /\ \A n \in 1..Len(events[i]) : events'[i][n] = events[i][n]
  BY DEF TypeOK, TablesOK, Grows
<1>2. \A n : n \in 1..Len(events'[i]) <=> n \in 1..Len(events[i]) \/ (n \in 1..Len(events'[i]) /\ n > Len(events[i]))
  BY <1>1
<1>3. {n \in 1..Len(events'[i]) : events'[i][n].step = k /\ events'[i][n].type = "failed"}
        = {n \in 1..Len(events[i]) : events[i][n].step = k /\ events[i][n].type = "failed"}
  BY <1>1, <1>2
<1> QED
  BY <1>3 DEF EventCount

LEMMA CountTyped ==
  ASSUME TypeOK, NEW i \in Ids, NEW k, NEW type
  PROVE  EventCount(i, k, type) \in Nat
<1> DEFINE A == {n \in 1..Len(events[i]) : events[i][n].step = k /\ events[i][n].type = type}
<1>1. EventCount(i, k, type) = Cardinality(A)
  BY DEF EventCount
<1>2. Len(events[i]) \in Nat
  BY DEF TypeOK, TablesOK
<1>3. A \subseteq 1..Len(events[i]) /\ IsFiniteSet(1..Len(events[i]))
  BY <1>2, FS_Interval
<1> HIDE DEF A
<1> QED
  BY <1>1, <1>3, FS_Subset, FS_CardinalityType

LEMMA CountTypedNext ==
  ASSUME TypeOK', NEW i \in Ids, NEW k, NEW type
  PROVE  EventCount(i, k, type)' \in Nat
<1> DEFINE A == {n \in 1..Len(events'[i]) : events'[i][n].step = k /\ events'[i][n].type = type}
<1>1. EventCount(i, k, type)' = Cardinality(A)
  BY DEF EventCount
<1>2. Len(events'[i]) \in Nat
  BY DEF TypeOK, TablesOK
<1>3. A \subseteq 1..Len(events'[i]) /\ IsFiniteSet(1..Len(events'[i]))
  BY <1>2, FS_Interval
<1> HIDE DEF A
<1> QED
  BY <1>1, <1>3, FS_Subset, FS_CardinalityType

\* What the program says of one step.
LEMMA StepTyped ==
  ASSUME NEW v \in Versions, NEW i \in Ids, NEW k \in DOMAIN Program[v][i]
  PROVE  Program[v][i][k].retries \in Nat /\ Program[v][i][k].op \in Ops /\ k <= Len(Program[v][i])
<1>1. Program[v][i] \in Seq(StepRecord)
  BY ConstantsAssumption
<1>2. k \in 1..Len(Program[v][i])
  BY <1>1
<1>3. Program[v][i][k] \in StepRecord
  BY <1>1, <1>2
<1> QED
  BY <1>2, <1>3, <1>1 DEF StepRecord

LEMMA NextRetries ==
  ASSUME ReplayInv, ReplayInv', RetriesInv, EndsForGood, [Next]_vars
  PROVE  RetriesInv'
<1> BackedInv /\ Inv /\ TypeOK /\ TypeOK' /\ LeaseHeld /\ Running
  BY DEF ReplayInv, BackedInv, Inv
<1>0. Grows
  BY NextTable DEF TableStep
<1> SUFFICES ASSUME NEW i \in Ids, NEW k \in Nat, EventCount(i, k, "failed")' > 0
             PROVE  \E v \in Versions :
                      /\ k \in DOMAIN Program[v][i]
                      /\ \/ EventCount(i, k, "failed")' <= Program[v][i][k].retries + Mishaps'
                         \/ EventCount(i, k, "failed")' <= Program[v][i][k].retries + Mishaps' + 1 /\ AttemptAtHand(i, k)'
  BY DEF RetriesInv
<1> DEFINE now == EventCount(i, k, "failed")
           then == EventCount(i, k, "failed")'
<1>1. now \in Nat /\ then \in Nat /\ Mishaps \in Nat /\ Mishaps' \in Nat /\ Mishaps <= Mishaps'
  BY CountTyped, CountTypedNext, MishapsGrow
<1>2. ASSUME NEW v \in Versions, NEW m \in DOMAIN Program[v][i] PROVE Program[v][i][m].retries \in Nat
  BY StepTyped
<1>3. CASE \E n \in 1..Len(events'[i]) : n > Len(events[i]) /\ events'[i][n].type = "failed" /\ events'[i][n].step = k
  <2>1. PICK n \in 1..Len(events'[i]) : n > Len(events[i]) /\ events'[i][n].type = "failed" /\ events'[i][n].step = k
    BY <1>3
  <2>2. PICK s \in Slots : fail_activity(s) /\ wf[s] = i /\ step[s] = k
    BY <2>1, NewFailure
  <2>3. Active(s) /\ pc[s] = "exec"
    BY <2>2 DEF fail_activity, Active
  <2>4. AttemptAtHand(i, k)'
    <3>1. pc'[s] = "failed" /\ wf'[s] = i /\ step'[s] = k
      BY <2>2 DEF fail_activity, AwaitDeadline, TypeOK, RunsOK
    <3> QED
      BY <3>1 DEF AttemptAtHand
  <2>5. ~AttemptAtHand(i, k)
    <3>1. status[i] \notin Terminal
      BY <2>2, <2>3 DEF Running, Terminal
    <3>2. ASSUME NEW t \in Slots, pc[t] = "failed", wf[t] = i PROVE FALSE
      <4>1. t = s
        BY <2>2, <2>3, <3>2 DEF LeaseHeld, Active
      <4> QED
        BY <2>3, <3>2, <4>1
    <3> QED
      BY <3>1, <3>2 DEF AttemptAtHand
  <2>6. then = now + 1
    <3> DEFINE e == Event("failed", k, None, None)
    <3>1. e \in EventRecord /\ e.type = "failed" /\ e.step = k
      BY EventTyped, NoneTyped DEF EventType, Event
    <3>2. events'[i] = Append(events[i], e)
      BY <2>2 DEF fail_activity, write_event, Appended, TypeOK, TablesOK
    <3> HIDE DEF e
    <3>3. EventCount(i, e.step, e.type)' = EventCount(i, e.step, e.type) + 1
      BY <3>1, <3>2, CountedOne
    <3> QED
      BY <3>1, <3>3
  <2>7. PICK v \in Versions : k \in DOMAIN Program[v][i] /\ now <= Program[v][i][k].retries + Mishaps
    <3>1. CASE now > 0
      BY <2>5, <3>1 DEF RetriesInv
    <3>2. CASE ~(now > 0)
      <4>1. PICK v \in Versions : v = code[WorkerOf[s]] /\ Body(s) = Program[v][i]
        BY <2>2, <2>3, BodyTyped DEF Body
      <4>2. k \in DOMAIN Program[v][i]
        BY <2>2, <2>3, <4>1 DEF Inv, RunInv, InStep
      <4>3. Program[v][i][k].retries \in Nat
        BY <1>2, <4>2
      <4> QED
        BY <1>1, <3>2, <4>2, <4>3
    <3> QED
      BY <3>1, <3>2
  <2>8. Program[v][i][k].retries \in Nat
    BY <1>2, <2>7
  <2> HIDE DEF now, then
  <2>9. then <= Program[v][i][k].retries + Mishaps' + 1
    BY <1>1, <2>6, <2>7, <2>8
  <2> QED
    BY <2>4, <2>7, <2>9 DEF then
<1>4. CASE \A n \in 1..Len(events'[i]) : ~(n > Len(events[i]) /\ events'[i][n].type = "failed" /\ events'[i][n].step = k)
  <2>1. then = now
    BY <1>0, <1>4, SameCount
  <2>2. PICK v \in Versions : /\ k \in DOMAIN Program[v][i]
                              /\ \/ now <= Program[v][i][k].retries + Mishaps
                                 \/ now <= Program[v][i][k].retries + Mishaps + 1 /\ AttemptAtHand(i, k)
    BY <2>1 DEF RetriesInv
  <2>3. Program[v][i][k].retries \in Nat
    BY <1>2, <2>2
  <2>4. CASE now <= Program[v][i][k].retries + Mishaps
    <3> HIDE DEF now, then
    <3>1. then <= Program[v][i][k].retries + Mishaps'
      BY <1>1, <2>1, <2>3, <2>4
    <3> QED
      BY <2>2, <3>1 DEF then
  <2>5. CASE now <= Program[v][i][k].retries + Mishaps + 1 /\ AttemptAtHand(i, k)
    <3> HIDE DEF now, then
    <3>0. then <= Program[v][i][k].retries + Mishaps' + 1
      BY <1>1, <2>1, <2>3, <2>5
    <3>1. CASE status[i] \in Terminal
      <4>1. AttemptAtHand(i, k)'
        BY <3>1 DEF EndsForGood, AttemptAtHand
      <4> QED
        BY <2>2, <3>0, <4>1 DEF then
    <3>2. ASSUME NEW s \in Slots, pc[s] = "failed", wf[s] = i, step[s] = k
          PROVE  \E w \in Versions :
                   /\ k \in DOMAIN Program[w][i]
                   /\ \/ then <= Program[w][i][k].retries + Mishaps'
                      \/ then <= Program[w][i][k].retries + Mishaps' + 1 /\ AttemptAtHand(i, k)'
      <4>1. CASE Mishaps' # Mishaps
        <5>1. then <= Program[v][i][k].retries + Mishaps'
          BY <1>1, <2>1, <2>3, <2>5, <4>1
        <5> QED
          BY <2>2, <5>1
      <4>2. CASE pc'[s] = "failed" /\ wf'[s] = wf[s] /\ wake'[s] = wake[s] /\ step'[s] = step[s]
        <5>1. AttemptAtHand(i, k)'
          BY <3>2, <4>2 DEF AttemptAtHand
        <5> QED
          BY <2>2, <3>0, <5>1
      <4>3. CASE retry(s)
        <5>1. PICK w \in Versions : w = code[WorkerOf[s]] /\ Body(s) = Program[w][i]
          BY <3>2, BodyTyped DEF Body, Active
        <5>2. k \in DOMAIN Program[w][i] /\ Program[w][i][k] = Current(s)
          BY <3>2, <5>1 DEF Inv, RunInv, InStep, Current
        <5>3. now <= Program[w][i][k].retries
          BY <3>2, <4>3, <5>2 DEF now, ReplayInv, RunLog, Attempts, retry
        <5>4. Program[w][i][k].retries \in Nat
          BY <1>2, <5>2
        <5>5. then <= Program[w][i][k].retries + Mishaps'
          BY <1>1, <2>1, <5>3, <5>4
        <5> QED
          BY <5>2, <5>5
      <4>4. CASE exhaust_retries(s)
        <5>1. status'[i] \in Terminal
          BY <3>2, <4>4 DEF exhaust_retries, fail_workflow, write_terminal_workflow_event, Terminal
        <5>2. AttemptAtHand(i, k)'
          BY <5>1 DEF AttemptAtHand
        <5> QED
          BY <2>2, <3>0, <5>2
      <4> QED
        BY <3>2, <4>1, <4>2, <4>3, <4>4, FailedMoves
    <3> QED
      BY <2>5, <3>1, <3>2 DEF AttemptAtHand, then
  <2> QED
    BY <2>2, <2>4, <2>5
<1> QED
  BY <1>3, <1>4

\* An activity fails at most retries + 1 times, plus once for every crash or error,
\* unless its workflow is revived.
THEOREM RetriesAreBounded ==
  ASSUME MaxFaults["stall"] = 0
  PROVE  Spec /\ NeverRevived => []RetriesBounded
<1>1. Init => RetriesInv
  <2> SUFFICES ASSUME Init, NEW i \in Ids, NEW k \in Nat PROVE ~(EventCount(i, k, "failed") > 0)
    BY DEF RetriesInv
  <2>1. Len(events[i]) = 0
    BY DEF Init, TablesInit
  <2>2. {n \in 1..Len(events[i]) : events[i][n].step = k /\ events[i][n].type = "failed"} = {}
    BY <2>1
  <2>3. EventCount(i, k, "failed") = 0
    BY <2>2, FS_EmptySet DEF EventCount
  <2> QED
    BY <2>3
<1>2. ReplayInv /\ ReplayInv' /\ RetriesInv /\ [Next]_vars /\ [EndsForGood]_vars => RetriesInv'
  <2> SUFFICES ASSUME ReplayInv, ReplayInv', RetriesInv, [Next]_vars, [EndsForGood]_vars PROVE RetriesInv'
    OBVIOUS
  <2>1. EndsForGood
    BY DEF EndsForGood, vars
  <2> QED
    BY <2>1, NextRetries
<1>3. Spec /\ NeverRevived => []RetriesInv
  BY <1>1, <1>2, ReplayInvariant, PTL DEF Spec, NeverRevived
<1>4. ReplayInv /\ RetriesInv => RetriesBounded
  <2> SUFFICES ASSUME ReplayInv, RetriesInv, NEW i \in Ids, NEW k \in 1..Len(events[i]), EventCount(i, k, "failed") > 0
               PROVE  \E v \in Versions :
                        /\ k <= Len(Program[v][i])
                        /\ EventCount(i, k, "failed") <= Program[v][i][k].retries + 1 + faults["crash"] + faults["error"]
    BY DEF RetriesBounded
  <2>1. TypeOK
    BY DEF ReplayInv, BackedInv, Inv
  <2>2. PICK v \in Versions : /\ k \in DOMAIN Program[v][i]
                              /\ \/ EventCount(i, k, "failed") <= Program[v][i][k].retries + Mishaps
                                 \/ EventCount(i, k, "failed") <= Program[v][i][k].retries + Mishaps + 1
    BY DEF RetriesInv
  <2> DEFINE retries == Program[v][i][k].retries
             now == EventCount(i, k, "failed")
  <2>3. k \in Nat /\ now \in Nat /\ faults["crash"] \in Nat /\ faults["error"] \in Nat
    BY <2>1, CountTyped DEF TypeOK, FaultKinds
  <2>4. retries \in Nat /\ k <= Len(Program[v][i])
    BY <2>2, StepTyped
  <2>5. now <= retries + Mishaps \/ now <= retries + Mishaps + 1
    BY <2>2
  <2> HIDE DEF retries, now
  <2>6. now <= retries + 1 + faults["crash"] + faults["error"]
    BY <2>3, <2>4, <2>5 DEF Mishaps
  <2> QED
    BY <2>4, <2>6 DEF retries, now
<1> QED
  BY <1>3, <1>4, ReplayInvariant, PTL
=============================================================================
