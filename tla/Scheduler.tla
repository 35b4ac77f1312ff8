----------------------------- MODULE Scheduler -----------------------------
(***************************************************************************)
(* The loop of worker/scheduler.py in worker processes that share one      *)
(* table of workflows, from the start of a process (worker.py) to its      *)
(* graceful end.  Cancellation arrives where the loop awaits something;    *)
(* between two awaits nothing else happens, so one action goes from await  *)
(* to await.                                                               *)
(*                                                                         *)
(* What a run does is Engine's subject: here it ends, by giving the        *)
(* workflow up or by an exception that leaves its lock.                    *)
(***************************************************************************)
EXTENDS Naturals, Sequences, SequencesExt, FiniteSetsExt

CONSTANTS
  Workers,
  Workflows,
  WorkerConcurrency,  \* capacity of each worker
  MaxSignals,         \* bound: signals to workflows that are in the queue
  MaxStops,           \* bound: processes interrupted, or ended by an error
  MaxRaises,          \* bound: runs that end with an exception
  None

ASSUME SchedulerAssumption ==
  /\ WorkerConcurrency \in Nat \ {0}
  /\ MaxSignals \in Nat /\ MaxStops \in Nat /\ MaxRaises \in Nat
  /\ None \notin Workflows

\* One more than the capacity, to see it respected.
Slots == 1..(WorkerConcurrency + 1)

VARIABLES
  queue,        \* the workflows with status 'running', in the order of run_at
  lock,         \* "free", "held" (extended by a run), or "left" behind
  pc,           \* what each loop awaits
  had_work,     \* its variable had_work
  tasks,        \* its variable active_tasks: phase and workflow of each task
  claimed,      \* the workflow its claim has locked, before the task is created
  interrupted,  \* it was cancelled
  budget        \* what is left of the bounds

vars == <<queue, lock, pc, had_work, tasks, claimed, interrupted, budget>>

NoTask == [phase |-> "none", of |-> None]
Done == [phase |-> "done", of |-> None]
Task == [phase : {"executing", "released"}, of : Workflows] \cup {NoTask, Done}
Await == {"register", "idle", "full", "claim", "committed", "gather", "exited"}

TypeOK ==
  /\ queue \in Seq(Workflows) /\ IsInjective(queue)
  /\ lock \in [Workflows -> {"free", "held", "left"}]
  /\ pc \in [Workers -> Await]
  /\ had_work \in [Workers -> BOOLEAN]
  /\ tasks \in [Workers -> [Slots -> Task]]
  /\ claimed \in [Workers -> Workflows \cup {None}]
  /\ interrupted \in [Workers -> BOOLEAN]
  /\ budget \in [signals : 0..MaxSignals, stops : 0..MaxStops, raises : 0..MaxRaises]

Init ==
  /\ queue = <<>>
  /\ lock = [i \in Workflows |-> "free"]
  /\ pc = [w \in Workers |-> "register"]
  /\ had_work = [w \in Workers |-> TRUE]
  /\ tasks = [w \in Workers |-> [s \in Slots |-> NoTask]]
  /\ claimed = [w \in Workers |-> None]
  /\ interrupted = [w \in Workers |-> FALSE]
  /\ budget = [signals |-> MaxSignals, stops |-> MaxStops, raises |-> MaxRaises]

Spends(what) == budget[what] > 0 /\ budget' = [budget EXCEPT ![what] = @ - 1]
Unfinished(own) == {s \in Slots : own[s].phase \in {"executing", "released"}}
Executing(i) == \E w \in Workers, s \in Slots : tasks[w][s] = [phase |-> "executing", of |-> i]
Unclaimed == 1..Len(queue) \* mutant: locks are not looked at
Claimable == {n \in 1..Len(queue) : lock[queue[n]] = "free"}

-----------------------------------------------------------------------------
(***************************************************************************)
(* The loop.  Between two awaits lie: reaping the finished ones of its own *)
(* tasks, the check for capacity, and the choice between sleep and claim.  *)
(***************************************************************************)
Reaped(own) == [s \in Slots |-> IF own[s].phase = "done" THEN NoTask ELSE own[s]]

over_capacity(own) == Cardinality(Unfinished(own)) > WorkerConcurrency \* mutant
at_capacity(own) == Cardinality(Unfinished(own)) >= WorkerConcurrency

look(w, own, worked) ==
  /\ tasks' = [tasks EXCEPT ![w] = Reaped(own)]
  /\ pc' = [pc EXCEPT ![w] = IF at_capacity(own) THEN "full" ELSE "claim"]
  /\ had_work' = [had_work EXCEPT ![w] = worked]

register_worker(w) ==
  /\ pc[w] = "register"
  /\ look(w, tasks[w], TRUE)
  /\ UNCHANGED <<queue, lock, claimed, interrupted, budget>>

\* The poll interval is over.
poll(w) ==
  /\ pc[w] = "idle"
  /\ look(w, tasks[w], had_work[w])
  /\ UNCHANGED <<queue, lock, claimed, interrupted, budget>>

\* So is the 0.1 s at capacity; had_work decides what follows.
yield(w) ==
  /\ pc[w] = "full"
  /\ IF had_work[w] THEN look(w, tasks[w], TRUE)
     ELSE pc' = [pc EXCEPT ![w] = "idle"] /\ UNCHANGED <<had_work, tasks>>
  /\ UNCHANGED <<queue, lock, claimed, interrupted, budget>>

Newest == {n \in Claimable : \A m \in Claimable : m <= n} \* mutant: ORDER BY run_at DESC
Oldest == {n \in Claimable : \A m \in Claimable : n <= m}

\* The claim has committed; the loop does not know yet.
claim_next_workflow(w) ==
  /\ pc[w] = "claim"
  /\ \E n \in Oldest :
       /\ lock' = [lock EXCEPT ![queue[n]] = "held"]
       /\ claimed' = [claimed EXCEPT ![w] = queue[n]]
  /\ pc' = [pc EXCEPT ![w] = "committed"]
  /\ UNCHANGED <<queue, had_work, tasks, interrupted, budget>>

claims_none(w) == \* mutant: the result None is not looked for
  /\ pc[w] = "claim" /\ Claimable = {}
  /\ pc' = [pc EXCEPT ![w] = "committed"]
  /\ UNCHANGED <<queue, lock, had_work, tasks, claimed, interrupted, budget>>

claim_nothing(w) ==
  /\ pc[w] = "claim" /\ Claimable = {}
  /\ had_work' = [had_work EXCEPT ![w] = FALSE]
  /\ pc' = [pc EXCEPT ![w] = "idle"]
  /\ UNCHANGED <<queue, lock, tasks, claimed, interrupted, budget>>

create_task(w) ==
  /\ pc[w] = "committed"
  /\ LET s == Min({r \in Slots : tasks[w][r] = NoTask}) IN
       look(w, [tasks[w] EXCEPT ![s] = [phase |-> "executing", of |-> claimed[w]]], TRUE)
  /\ claimed' = [claimed EXCEPT ![w] = None]
  /\ UNCHANGED <<queue, lock, interrupted, budget>>

-----------------------------------------------------------------------------
(***************************************************************************)
(* The end of a process.                                                   *)
(***************************************************************************)
\* What it had locked and not begun to run stays locked until the lock lapses.
Abandon(w) ==
  /\ lock' = [i \in Workflows |-> IF i = claimed[w] THEN "left" ELSE lock[i]]
  /\ claimed' = [claimed EXCEPT ![w] = None]

\* Ctrl-C: asyncio.run cancels _run_async, in whatever it awaits.  In gather that
\* cancels the tasks as well, and gather still awaits them.
interrupt(w) ==
  /\ pc[w] # "exited" /\ ~interrupted[w]
  /\ Spends("stops")
  /\ interrupted' = [interrupted EXCEPT ![w] = TRUE]
  /\ pc' = [pc EXCEPT ![w] = "gather"]
  /\ Abandon(w)
  /\ UNCHANGED <<queue, had_work, tasks>>

\* A query of the loop itself raises.  Nothing catches it.
query_raises(w) ==
  /\ pc[w] \in {"register", "claim", "committed"}
  /\ Spends("stops")
  /\ pc' = [pc EXCEPT ![w] = "gather"]
  /\ Abandon(w)
  /\ UNCHANGED <<queue, had_work, tasks, interrupted>>

exit_at_once(w) == \* mutant: in-flight tasks are not waited for
  /\ pc[w] = "gather"
  /\ pc' = [pc EXCEPT ![w] = "exited"]
  /\ UNCHANGED <<queue, lock, had_work, tasks, claimed, interrupted, budget>>

\* All tasks are done: the process pool and the connection pool are closed.
exit(w) ==
  /\ pc[w] = "gather"
  /\ Unfinished(tasks[w]) = {}
  /\ pc' = [pc EXCEPT ![w] = "exited"]
  /\ UNCHANGED <<queue, lock, had_work, tasks, claimed, interrupted, budget>>

-----------------------------------------------------------------------------
(***************************************************************************)
(* Runs, and what makes workflows due.                                     *)
(***************************************************************************)
\* It ends, waits, sleeps or retries later: run_at is not due and the lock cleared.
give_up(w, s) ==
  /\ tasks[w][s].phase = "executing"
  /\ queue' = RemoveFirst(queue, tasks[w][s].of)
  /\ lock' = [lock EXCEPT ![tasks[w][s].of] = "free"]
  /\ tasks' = [tasks EXCEPT ![w][s].phase = "released"]
  /\ UNCHANGED <<pc, had_work, claimed, interrupted, budget>>

\* An exception _run_workflow_with_heartbeat logs, or a cancelled activity.
raise(w, s) ==
  /\ tasks[w][s].phase = "executing"
  /\ lock' = [lock EXCEPT ![tasks[w][s].of] = "left"]
  /\ Spends("raises")
  /\ tasks' = [tasks EXCEPT ![w][s] = Done]
  /\ UNCHANGED <<queue, pc, had_work, claimed, interrupted>>

waits_for_heartbeat(w, s) == \* mutant: the heartbeat is awaited but not cancelled
  FALSE /\ UNCHANGED vars

\* The heartbeat is cancelled and the task ends.
return(w, s) ==
  /\ tasks[w][s].phase = "released"
  /\ tasks' = [tasks EXCEPT ![w][s] = Done]
  /\ UNCHANGED <<queue, lock, pc, had_work, claimed, interrupted, budget>>

Queued(i) == \E n \in 1..Len(queue) : queue[n] = i

\* It starts, a deadline passes, or what it waits for arrives.
become_due(i) ==
  /\ ~Queued(i)
  /\ queue' = Append(queue, i)
  /\ UNCHANGED <<lock, pc, had_work, tasks, claimed, interrupted, budget>>

\* A signal sets run_at to NOW() also when the workflow is due already.
signal(i) ==
  /\ Queued(i)
  /\ Spends("signals")
  /\ queue' = Append(RemoveFirst(queue, i), i)
  /\ UNCHANGED <<lock, pc, had_work, tasks, claimed, interrupted>>

lapse(i) ==
  /\ lock[i] = "left"
  /\ lock' = [lock EXCEPT ![i] = "free"]
  /\ UNCHANGED <<queue, pc, had_work, tasks, claimed, interrupted, budget>>

Loop(w) ==
  \/ register_worker(w) \/ poll(w) \/ yield(w)
  \/ claim_next_workflow(w) \/ claim_nothing(w) \/ create_task(w) \/ exit(w)

Next ==
  \/ \E w \in Workers :
       \/ Loop(w) \/ interrupt(w) \/ query_raises(w)
       \/ \E s \in Slots : give_up(w, s) \/ raise(w, s) \/ return(w, s)
  \/ \E i \in Workflows : become_due(i) \/ signal(i) \/ lapse(i)

Spec == Init /\ [][Next]_vars

\* The event loop serves every task, every run ends, and locks lapse.  Nothing
\* need be due or be interrupted, and no run need raise.
FairSpec ==
  /\ Spec
  /\ \A w \in Workers :
       /\ WF_vars(Loop(w))
       /\ \A s \in Slots : WF_vars(give_up(w, s) \/ raise(w, s)) /\ WF_vars(return(w, s))
  /\ \A i \in Workflows : WF_vars(lapse(i))

-----------------------------------------------------------------------------
(***************************************************************************)
(* Properties.                                                             *)
(***************************************************************************)
\* A worker never has more runs under way than its capacity, tasks that have
\* given their workflow up but not yet returned included.
WithinCapacity == \A w \in Workers : Cardinality(Unfinished(tasks[w])) <= WorkerConcurrency

\* The pools are closed only when nobody needs them: however a process ends, no
\* task of it is under way afterwards and no workflow is held by it.
NothingAfterExit ==
  \A w \in Workers : pc[w] = "exited" => Unfinished(tasks[w]) = {} /\ claimed[w] = None

\* A lock that is kept alive belongs to one run, or to a claim just made.
HeldByOne ==
  \A i \in Workflows : lock[i] = "held" <=>
    Cardinality({w \in Workers : claimed[w] = i}
      \cup {ws \in Workers \X Slots : tasks[ws[1]][ws[2]] = [phase |-> "executing", of |-> i]}) = 1

\* A workflow that is due is executed, however many others are due and although the
\* locks of some are left behind, unless no worker is left.
EveryoneIsServed ==
  \A i \in Workflows :
    Queued(i) ~> \/ Executing(i) \/ ~Queued(i)
                 \/ \A w \in Workers : pc[w] \in {"gather", "exited"}

\* A worker that is told to stop stops.
StopsInTheEnd == \A w \in Workers : pc[w] = "gather" ~> pc[w] = "exited"
=============================================================================
