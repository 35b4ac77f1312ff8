---------------------------- MODULE ActivityPool ----------------------------
(***************************************************************************)
(* Activity bodies in process pools: _run_activity_body of executor.py on  *)
(* the event loop, worker/activity_pool.py, and of the standard library's  *)
(* ProcessPoolExecutor what the two rely on.  The manager thread of a pool *)
(* and its processes run beside the event loop.                            *)
(***************************************************************************)
EXTENDS Naturals, Sequences, SequencesExt, FiniteSets

CONSTANTS
  Runs,         \* runs of workflows, each in one activity
  PoolSize,     \* _max_workers
  MaxAttempts,  \* bound: attempts of each run
  MaxDeaths,    \* bound: processes that die
  Idle

ASSUME ActivityPoolAssumption ==
  /\ IsFiniteSet(Runs)
  /\ PoolSize \in Nat \ {0} /\ MaxAttempts \in Nat /\ MaxDeaths \in Nat
  /\ Idle \notin Runs \X Nat

Attempt == Runs \X (1..MaxAttempts)

VARIABLES
  pools,     \* every pool there has been; the last one is _executor
  future,    \* of each attempt
  run,       \* "ready" to call the activity, "waiting" for it, or "done"
  attempt,   \* the number of each run's latest attempt
  given_up,  \* attempts that wait_for has given up
  deaths

vars == <<pools, future, run, attempt, given_up, deaths>>

\* work: submitted.  calls: handed to the processes.  bodies: being executed.
\* dead: what a process was executing that has died and has not been missed yet.
NewPool == [status |-> "new", work |-> <<>>, calls |-> <<>>, bodies |-> {}, dead |-> {}]
Pool == [status : {"new", "open", "closing", "closed", "broken"}, work : Seq(Attempt),
         calls : Seq(Attempt), bodies : SUBSET Attempt, dead : SUBSET (Attempt \cup {Idle})]
Current == Last(pools)

\* A submission never meets a pool that is shut down: it would raise a RuntimeError
\* that nobody takes for a broken pool.
TypeOK ==
  /\ pools \in Seq(Pool) /\ Current.status \in {"new", "open", "broken"}
  /\ future \in [Attempt -> {"none", "pending", "running", "finished", "broken", "cancelled"}]
  /\ run \in [Runs -> {"ready", "waiting", "done"}]
  /\ attempt \in [Runs -> 0..MaxAttempts]
  /\ given_up \subseteq Attempt
  /\ deaths \in 0..MaxDeaths

Init ==
  /\ pools = <<NewPool>>
  /\ future = [a \in Attempt |-> "none"]
  /\ run = [r \in Runs |-> "ready"]
  /\ attempt = [r \in Runs |-> 0]
  /\ given_up = {}
  /\ deaths = 0

Awaited(r) == <<r, attempt[r]>>
Waiting(r) == run[r] = "waiting"
Held(pool) == ToSet(pool.work) \cup ToSet(pool.calls) \cup pool.bodies \cup pool.dead

-----------------------------------------------------------------------------
(***************************************************************************)
(* activity_pool.py.                                                       *)
(***************************************************************************)
ShutDown(pool) ==
  [pool EXCEPT !.status = CASE @ = "new" -> "closed" [] @ = "open" -> "closing" [] OTHER -> @]

shut_only(ps) == Append(Front(ps), ShutDown(Last(ps))) \* mutant: no new executor
_replace_pool(ps) == Append(Append(Front(ps), ShutDown(Last(ps))), NewPool)

\* Whatever the current pool is, it is replaced.
mark_broken == pools' = _replace_pool(pools)

submit(r) ==
  LET a == <<r, attempt[r] + 1>>
      ps == IF Current.status = "broken" THEN _replace_pool(pools) ELSE pools
  IN /\ run[r] = "ready" /\ attempt[r] < MaxAttempts
     /\ attempt' = [attempt EXCEPT ![r] = @ + 1]
     /\ run' = [run EXCEPT ![r] = "waiting"]
     /\ future' = [future EXCEPT ![a] = "pending"]
     /\ pools' = [ps EXCEPT ![Len(ps)].status = "open", ![Len(ps)].work = Append(@, a)]
     /\ UNCHANGED <<given_up, deaths>>

-----------------------------------------------------------------------------
(***************************************************************************)
(* _run_activity_body: how the wait for the future ends.  A run whose      *)
(* attempt has failed, or whose wait was cancelled, calls the activity     *)
(* again, in Engine's time.                                                *)
(***************************************************************************)
\* The body has returned, or raised.
deliver(r) ==
  /\ Waiting(r) /\ future[Awaited(r)] = "finished"
  /\ \E outcome \in {"done", "ready"} : run' = [run EXCEPT ![r] = outcome]
  /\ UNCHANGED <<pools, future, attempt, given_up, deaths>>

\* BrokenProcessPool, of whatever pool the attempt was in.
broken(r) ==
  /\ Waiting(r) /\ future[Awaited(r)] = "broken"
  /\ mark_broken
  /\ run' = [run EXCEPT ![r] = "ready"]
  /\ UNCHANGED <<future, attempt, given_up, deaths>>

\* CancelledError: the run ends, and leaves its lock to lapse.
cancelled(r) ==
  /\ Waiting(r) /\ future[Awaited(r)] = "cancelled"
  /\ run' = [run EXCEPT ![r] = "ready"]
  /\ UNCHANGED <<pools, future, attempt, given_up, deaths>>

\* wait_for cancels the future, which has an effect only before a process has it.
TimesOut(r) ==
  /\ Waiting(r)
  /\ given_up' = given_up \cup {Awaited(r)}
  /\ future' = [future EXCEPT ![Awaited(r)] = IF @ = "pending" THEN "cancelled" ELSE @]
  /\ run' = [run EXCEPT ![r] = "ready"]
  /\ UNCHANGED <<attempt, deaths>>

time_out_marks(r) == \* mutant: every failure marks the pool broken
  TimesOut(r) /\ mark_broken

time_out(r) == TimesOut(r) /\ UNCHANGED pools

-----------------------------------------------------------------------------
(***************************************************************************)
(* ProcessPoolExecutor, the pool g.                                        *)
(***************************************************************************)
Changes(g, pool) == pools' = [pools EXCEPT ![g] = pool] /\ UNCHANGED <<run, attempt, given_up>>

\* The manager thread fills the call queue, one longer than there are processes.
feed(g) ==
  LET pool == pools[g] IN
  /\ pool.status # "broken" /\ pool.work # <<>>
  /\ LET a == Head(pool.work) IN
       \/ /\ future[a] = "cancelled"
          /\ Changes(g, [pool EXCEPT !.work = Tail(@)])
          /\ UNCHANGED future
       \/ /\ future[a] = "pending" /\ Len(pool.calls) <= PoolSize
          /\ Changes(g, [pool EXCEPT !.work = Tail(@), !.calls = Append(@, a)])
          /\ future' = [future EXCEPT ![a] = "running"]
  /\ UNCHANGED deaths

take(g) ==
  LET pool == pools[g] IN
  /\ pool.calls # <<>> /\ Cardinality(pool.bodies) + Cardinality(pool.dead) < PoolSize
  /\ Changes(g, [pool EXCEPT !.calls = Tail(@), !.bodies = @ \cup {Head(pool.calls)}])
  /\ UNCHANGED <<future, deaths>>

finish(g) ==
  \E a \in pools[g].bodies :
    /\ Changes(g, [pools[g] EXCEPT !.bodies = @ \ {a}])
    /\ future' = [future EXCEPT ![a] = "finished"]
    /\ UNCHANGED deaths

\* One process of the pool dies, in a body or idle.
process_dies(g) ==
  LET pool == pools[g] IN
  /\ pool.status \notin {"new", "broken"} /\ pool.dead = {}
  /\ deaths < MaxDeaths
  /\ deaths' = deaths + 1
  /\ \E a \in pool.bodies \cup {Idle} :
       /\ a = Idle => Cardinality(pool.bodies) < PoolSize
       /\ Changes(g, [pool EXCEPT !.bodies = @ \ {a}, !.dead = {a}])
  /\ UNCHANGED future

\* The manager thread misses it, fails what the pool holds and ends the others.
terminate_broken(g) ==
  LET pool == pools[g] IN
  /\ pool.dead # {}
  /\ Changes(g, [NewPool EXCEPT !.status = "broken"])
  /\ future' = [a \in Attempt |->
       IF a \in Held(pool) /\ future[a] # "cancelled" THEN "broken" ELSE future[a]]
  /\ UNCHANGED deaths

PendingOrFed(pool) == ToSet(pool.work) \cup ToSet(pool.calls) \* mutant: running futures too
Pending(pool) == {a \in ToSet(pool.work) : future[a] = "pending"}

drain(g) == \* mutant: the queue is emptied, its futures are not cancelled
  /\ pools[g].status = "closing"
  /\ Changes(g, [pools[g] EXCEPT !.status = "closed", !.work = <<>>])
  /\ UNCHANGED <<future, deaths>>

\* cancel_futures: the manager thread cancels what is not handed out yet, unless the
\* executor, which nobody refers to any more, was collected before it looked.
flag_executor_shutting_down(g) ==
  LET pool == pools[g] IN
  /\ pool.status = "closing"
  /\ \/ /\ future' = [a \in Attempt |-> IF a \in Pending(pool) THEN "cancelled" ELSE future[a]]
        /\ Changes(g, [pool EXCEPT !.status = "closed", !.work = <<>>])
     \/ /\ Changes(g, [pool EXCEPT !.status = "closed"])
        /\ UNCHANGED future
  /\ UNCHANGED deaths

Manages(g) == feed(g) \/ terminate_broken(g) \/ flag_executor_shutting_down(g)
Resumes(r) == deliver(r) \/ broken(r) \/ cancelled(r)

Next ==
  \/ \E r \in Runs : submit(r) \/ Resumes(r) \/ time_out(r)
  \/ \E g \in 1..Len(pools) : Manages(g) \/ take(g) \/ finish(g) \/ process_dies(g)

Spec == Init /\ [][Next]_vars

\* Event loop, manager threads and processes go on, and bodies end.  Each call of
\* the activity replaces the pool at most twice.  No timeout is relied upon.
FairSpec ==
  /\ Spec
  /\ \A r \in Runs : WF_vars(Resumes(r))
  /\ \A g \in 1..(2 * Cardinality(Attempt) + 1) :
       /\ WF_vars(g <= Len(pools) /\ Manages(g))
       /\ WF_vars(g <= Len(pools) /\ take(g))
       /\ WF_vars(g <= Len(pools) /\ finish(g))

-----------------------------------------------------------------------------
(***************************************************************************)
(* Properties.                                                             *)
(***************************************************************************)
\* A body that the run no longer waits for is executed beside the next attempt only
\* if wait_for gave it up: neither a broken nor a replaced pool leaves one behind.
OneBodyPerRun ==
  \A g, h \in 1..Len(pools) : \A a \in pools[g].bodies, b \in pools[h].bodies :
    a[1] = b[1] /\ a[2] < b[2] => a \in given_up

\* Healthy pools are replaced by late reports only: never more pools than deaths and
\* attempts that were reported broken account for.
DamageBounded ==
  Len(pools) <= 1 + deaths + Cardinality({a \in Attempt : future[a] = "broken"})

\* An attempt comes to an end without a timeout, whatever happens to pools.
EveryAttemptEnds == \A r \in Runs : Waiting(r) ~> ~Waiting(r)
=============================================================================
