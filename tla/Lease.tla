------------------------------- MODULE Lease -------------------------------
(***************************************************************************)
(* The lock of one workflow in real time: claim_next_workflow sets it, the *)
(* heartbeat task of scheduler.py extends it for as long as the run lives, *)
(* and whoever finds it lapsed claims the workflow again.  Engine abstracts*)
(* from time and lets a lock lapse whenever a fault budget allows it; here *)
(* is why a budget of zero can be right, and when it is not.               *)
(*                                                                         *)
(* Time is a number of ticks.  A timer holds the ticks that are left, so   *)
(* that the states are finite although time is not bounded.                *)
(***************************************************************************)
EXTENDS Integers

CONSTANTS
  Workers,            \* the asyncio tasks, of any worker, that may run it
  LockDuration,       \* TEMPORAL_LIGHT_LOCK_DURATION_SECONDS
  HeartbeatInterval,  \* TEMPORAL_LIGHT_HEARTBEAT_INTERVAL_SECONDS
  Delay,              \* the longest time a step waits for event loop and database
  Skew,               \* how far a worker's clock is off the database's
  MaxFailures         \* extensions in a row that may raise

ASSUME LeaseAssumption ==
  /\ LockDuration \in Nat /\ HeartbeatInterval \in Nat /\ Delay \in Nat
  /\ Skew \in Nat /\ MaxFailures \in Nat

VARIABLES
  locked,    \* locked_by is not NULL
  left,      \* locked_until - NOW(), -1 once it is past
  run,       \* what each task does with the workflow
  heart,     \* where its heartbeat loop is
  timer,     \* ticks until its next step is due, Delay included
  failures   \* extensions that have failed since the last one that did not

vars == <<locked, left, run, heart, timer, failures>>

\* A run that hangs stays for ever in an activity that neither returns nor raises.
\* One that has released the lock still has its heartbeat for a moment.
RunState == {"none", "claimed", "executing", "hung", "released"}
Period == HeartbeatInterval + Delay

TypeOK ==
  /\ locked \in BOOLEAN
  /\ left \in -1..(LockDuration + Skew)
  /\ run \in [Workers -> RunState]
  /\ heart \in [Workers -> {"asleep", "awake"}]
  /\ timer \in [Workers -> 0..Period]
  /\ failures \in [Workers -> 0..MaxFailures]

Init ==
  /\ locked = FALSE /\ left = -1
  /\ run = [w \in Workers |-> "none"]
  /\ heart = [w \in Workers |-> "awake"]
  /\ timer = [w \in Workers |-> 0]
  /\ failures = [w \in Workers |-> 0]

Beats(w) == run[w] \in {"executing", "hung", "released"}
Runs(w) == run[w] \in {"claimed", "executing", "hung"}
Lasting(n) == IF n < 0 THEN -1 ELSE n

-----------------------------------------------------------------------------
Released == ~locked \* mutant: locked_until is not looked at
Free == ~locked \/ left < 0

\* locked_until is computed from the clock of the worker.
claim(w) ==
  /\ run[w] = "none"
  /\ Free
  /\ locked' = TRUE
  /\ \E offset \in -Skew..Skew : left' = Lasting(LockDuration + offset)
  /\ run' = [run EXCEPT ![w] = "claimed"]
  /\ timer' = [timer EXCEPT ![w] = Delay]
  /\ failures' = [failures EXCEPT ![w] = 0]
  /\ UNCHANGED heart

\* The task runs the workflow and creates the heartbeat task, which sleeps first.
start(w) ==
  /\ run[w] = "claimed"
  /\ run' = [run EXCEPT ![w] = "executing"]
  /\ heart' = [heart EXCEPT ![w] = "asleep"]
  /\ timer' = [timer EXCEPT ![w] = Period]
  /\ UNCHANGED <<locked, left, failures>>

Wakes(w) ==
  /\ Beats(w) /\ heart[w] = "asleep"
  /\ timer[w] <= Delay
  /\ heart' = [heart EXCEPT ![w] = "awake"]
  /\ UNCHANGED <<locked, run, timer>>

extend_by_interval(w) == \* mutant: the wrong setting
  /\ Wakes(w)
  /\ left' = HeartbeatInterval
  /\ failures' = [failures EXCEPT ![w] = 0]

extend_from_end(w) == \* mutant: from locked_until instead of NOW()
  /\ Wakes(w)
  /\ left' = left + LockDuration
  /\ failures' = [failures EXCEPT ![w] = 0]

\* No check of locked_by: whoever holds the lock by now has it extended.
extend_workflow_lock(w) ==
  /\ Wakes(w)
  /\ left' = LockDuration
  /\ failures' = [failures EXCEPT ![w] = 0]

\* The exception is logged and the loop goes on.
fail_to_extend(w) ==
  /\ Wakes(w)
  /\ failures[w] < MaxFailures
  /\ failures' = [failures EXCEPT ![w] = @ + 1]
  /\ UNCHANGED left

sleep(w) ==
  /\ Beats(w) /\ heart[w] = "awake"
  /\ heart' = [heart EXCEPT ![w] = "asleep"]
  /\ timer' = [timer EXCEPT ![w] = Period]
  /\ UNCHANGED <<locked, left, run, failures>>

\* The body of an activity hangs in its process; the event loop does not.
hang(w) ==
  /\ run[w] = "executing"
  /\ run' = [run EXCEPT ![w] = "hung"]
  /\ UNCHANGED <<locked, left, heart, timer, failures>>

\* asyncio.wait_for gives the body up and the run goes on with a failed attempt.
time_out(w) ==
  /\ run[w] = "hung"
  /\ run' = [run EXCEPT ![w] = "executing"]
  /\ UNCHANGED <<locked, left, heart, timer, failures>>

\* Suspension or end of the workflow, in the query that also clears the lock.
release(w) ==
  /\ run[w] = "executing"
  /\ run' = [run EXCEPT ![w] = "released"]
  /\ locked' = FALSE
  /\ UNCHANGED <<left, heart, timer, failures>>

\* run_workflow has returned and the heartbeat task is cancelled.
stop(w) ==
  /\ run[w] = "released"
  /\ run' = [run EXCEPT ![w] = "none"]
  /\ UNCHANGED <<locked, left, heart, timer, failures>>

\* The worker dies, or the run ends with an exception and leaves its lock.
die(w) ==
  /\ run[w] # "none"
  /\ run' = [run EXCEPT ![w] = "none"]
  /\ UNCHANGED <<locked, left, heart, timer, failures>>

tick ==
  /\ \A w \in Workers : run[w] # "none" => timer[w] > 0
  /\ left' = Lasting(left - 1)
  /\ timer' = [w \in Workers |-> IF timer[w] > 0 THEN timer[w] - 1 ELSE 0]
  /\ UNCHANGED <<locked, run, heart, failures>>

Beat(w) == extend_workflow_lock(w) \/ sleep(w) \/ start(w)

Next ==
  \/ tick
  \/ \E w \in Workers :
       \/ claim(w) \/ Beat(w) \/ fail_to_extend(w) \/ hang(w) \/ time_out(w)
       \/ release(w) \/ stop(w) \/ die(w)

Spec == Init /\ [][Next]_vars

\* Time goes on, workers poll, the event loop serves every task, and every
\* activity has a timeout.  What a run does, and for how long, is its own affair.
FairSpec ==
  /\ Spec
  /\ WF_vars(tick)
  /\ \A w \in Workers : WF_vars(claim(w)) /\ WF_vars(Beat(w)) /\ WF_vars(time_out(w)) /\ WF_vars(stop(w))

-----------------------------------------------------------------------------
(***************************************************************************)
(* Properties.                                                             *)
(***************************************************************************)
\* What the lock is for: two tasks never run one workflow at once.
OneRunAtATime == \A u, w \in Workers : Runs(u) /\ Runs(w) => u = w

\* What must be configured for it: the lock outlives the longest time between
\* two extensions, with MaxFailures extensions lost in between, by the delay of
\* the first step and the worst clock.  The code compares none of these.
LongEnough == LockDuration >= Skew + Delay + (MaxFailures + 1) * Period

\* A lock that is left behind is not left for ever: its workflow runs again.
AbandonedIsReclaimed ==
  (locked /\ \A w \in Workers : ~Runs(w)) ~> (\E w \in Workers : Runs(w))
=============================================================================
