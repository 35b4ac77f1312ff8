----------------------------- MODULE LeaseProof -----------------------------
(***************************************************************************)
(* Proof that a lock that is long enough is never lost by a live run.      *)
(*                                                                         *)
(* The invariant compares the lock with the time to the next extension     *)
(* that succeeds at the latest: the timer of the next step and, for every  *)
(* extension that may still fail, one more period.                         *)
(***************************************************************************)
EXTENDS Lease, TLAPS

\* The longest time until the heartbeat of w has extended the lock.
Needed(w) ==
  IF run[w] = "claimed" \/ heart[w] = "awake"
  THEN timer[w] + Period + (MaxFailures - failures[w]) * Period
  ELSE timer[w] + (MaxFailures - failures[w]) * Period

Held == \A w \in Workers : Runs(w) => locked /\ left >= Needed(w)

\* A step that is due is late by Delay at most.
Due ==
  \A w \in Workers : Runs(w) /\ (run[w] = "claimed" \/ heart[w] = "awake") => timer[w] <= Delay

Inv == TypeOK /\ Held /\ Due /\ OneRunAtATime

LEMMA PeriodTyped == Period \in Nat /\ Delay <= Period
BY LeaseAssumption DEF Period

\* One more failure uses up one period.
LEMMA OneFailureMore ==
  ASSUME NEW f \in Nat, NEW p \in Nat, NEW m \in Nat
  PROVE  (m - f) * p = p + (m - (f + 1)) * p
OBVIOUS

LEMMA NeededIsPositive ==
  ASSUME TypeOK, NEW w \in Workers
  PROVE  Needed(w) \in Nat /\ Needed(w) >= timer[w]
<1>1. /\ MaxFailures \in Nat /\ failures[w] \in 0..MaxFailures /\ timer[w] \in Nat /\ Period \in Nat
  BY LeaseAssumption, PeriodTyped DEF TypeOK
<1>2. MaxFailures - failures[w] \in Nat
  BY <1>1
<1>3. \A a, b \in Nat : a * b \in Nat
  OBVIOUS
<1>4. (MaxFailures - failures[w]) * Period \in Nat
  BY <1>1, <1>2, <1>3
<1> QED
  BY <1>1, <1>4 DEF Needed

LEMMA NeededTyped == TypeOK' => \A w \in Workers : Needed(w)' \in Nat
<1> SUFFICES ASSUME TypeOK', NEW w \in Workers PROVE Needed(w)' \in Nat
  OBVIOUS
<1>1. /\ MaxFailures \in Nat /\ failures'[w] \in 0..MaxFailures /\ timer'[w] \in Nat /\ Period \in Nat
  BY LeaseAssumption, PeriodTyped DEF TypeOK
<1>2. MaxFailures - failures'[w] \in Nat
  BY <1>1
<1>3. \A a, b \in Nat : a * b \in Nat
  OBVIOUS
<1>4. (MaxFailures - failures'[w]) * Period \in Nat
  BY <1>1, <1>2, <1>3
<1> QED
  BY <1>1, <1>4 DEF Needed

LEMMA InitInv == Init => Inv
<1> SUFFICES ASSUME Init PROVE Inv
  OBVIOUS
<1>1. TypeOK
  <2>1. 0 \in 0..Period /\ 0 \in 0..MaxFailures /\ -1 \in -1..(LockDuration + Skew)
    BY LeaseAssumption, PeriodTyped
  <2> QED
    BY <2>1 DEF Init, TypeOK, RunState
<1>2. \A w \in Workers : ~Runs(w)
  BY DEF Init, Runs
<1> QED
  BY <1>1, <1>2 DEF Inv, Held, Due, OneRunAtATime

LEMMA TypeKept == TypeOK /\ [Next]_vars => TypeOK'
<1> SUFFICES ASSUME TypeOK, [Next]_vars PROVE TypeOK'
  OBVIOUS
<1> USE LeaseAssumption, PeriodTyped DEF TypeOK, RunState
<1>1. CASE tick
  BY <1>1 DEF tick, Lasting
<1>2. CASE \E w \in Workers : claim(w)
  BY <1>2 DEF claim, Lasting
<1>3. CASE \E w \in Workers : Beat(w) \/ fail_to_extend(w)
  <2>1. CASE \E w \in Workers : start(w)
    BY <2>1 DEF start
  <2>2. CASE \E w \in Workers : extend_workflow_lock(w)
    BY <2>2 DEF extend_workflow_lock, Wakes
  <2>3. CASE \E w \in Workers : fail_to_extend(w)
    BY <2>3 DEF fail_to_extend, Wakes
  <2>4. CASE \E w \in Workers : sleep(w)
    BY <2>4 DEF sleep
  <2> QED
    BY <1>3, <2>1, <2>2, <2>3, <2>4 DEF Beat
<1>4. CASE \E w \in Workers : hang(w) \/ time_out(w) \/ release(w) \/ stop(w) \/ die(w)
  BY <1>4 DEF hang, time_out, release, stop, die
<1>5. CASE UNCHANGED vars
  BY <1>5 DEF vars
<1> QED
  BY <1>1, <1>2, <1>3, <1>4, <1>5 DEF Next

\* The run that holds the lock keeps what it needs when the timer of no run, nor
\* what it has failed, nor the lock changes, and no run begins.
LEMMA OthersKeep ==
  ASSUME Inv, TypeOK', locked' = locked, left' = left, UNCHANGED <<heart, timer, failures>>,
         \A w \in Workers : Runs(w)' => Runs(w) /\ (run'[w] = "claimed" <=> run[w] = "claimed")
  PROVE  Inv'
BY DEF Inv, Held, Due, OneRunAtATime, Needed

LEMMA ClaimKeeps ==
  ASSUME LongEnough, Inv, TypeOK', NEW w \in Workers, claim(w)
  PROVE  Inv'
<1>1. \A u \in Workers : Runs(u) => locked /\ left >= 0
  BY NeededIsPositive, LeaseAssumption DEF Inv, Held, TypeOK
<1>2. \A u \in Workers : ~Runs(u)
  BY <1>1 DEF claim, Free, Inv, TypeOK
<1>3. \A u \in Workers : Runs(u)' => u = w
  BY <1>2 DEF claim, Runs, Inv, TypeOK
<1>4. Needed(w)' = Delay + Period + MaxFailures * Period
  <2>1. run'[w] = "claimed" /\ timer'[w] = Delay /\ failures'[w] = 0
    BY DEF claim, Inv, TypeOK
  <2>2. MaxFailures - 0 = MaxFailures
    BY LeaseAssumption
  <2> QED
    BY <2>1, <2>2 DEF Needed
<1>5. LockDuration - Skew >= Delay + Period + MaxFailures * Period
  <2>1. (MaxFailures + 1) * Period = Period + MaxFailures * Period
    BY LeaseAssumption, PeriodTyped
  <2>2. MaxFailures * Period \in Nat
    BY LeaseAssumption, PeriodTyped
  <2> QED
    BY <2>1, <2>2, LeaseAssumption, PeriodTyped DEF LongEnough
<1>6. left' >= LockDuration - Skew /\ locked'
  <2>1. LockDuration - Skew >= 0
    BY <1>5, LeaseAssumption, PeriodTyped
  <2> QED
    BY <2>1, LeaseAssumption DEF claim, Lasting
<1>7. left' >= Needed(w)'
  <2>1. MaxFailures * Period \in Nat
    BY LeaseAssumption, PeriodTyped
  <2>2. left' \in Int
    BY DEF TypeOK
  <2> QED
    BY <1>4, <1>5, <1>6, <2>1, <2>2, LeaseAssumption, PeriodTyped
<1>8. Held'
  BY <1>3, <1>6, <1>7 DEF Held
<1>9. OneRunAtATime'
  BY <1>3 DEF OneRunAtATime
<1>10. Due'
  BY <1>3, LeaseAssumption DEF Due, claim, Inv, TypeOK
<1> QED
  BY <1>8, <1>9, <1>10 DEF Inv

LEMMA StartKeeps ==
  ASSUME Inv, TypeOK', NEW w \in Workers, start(w)
  PROVE  Inv'
<1>1. /\ run' = [run EXCEPT ![w] = "executing"] /\ heart' = [heart EXCEPT ![w] = "asleep"]
      /\ timer' = [timer EXCEPT ![w] = Period] /\ failures' = failures
      /\ locked' = locked /\ left' = left /\ run[w] = "claimed"
  BY DEF start
<1>2. \A u \in Workers : Runs(u)' <=> Runs(u)
  BY <1>1 DEF Runs, Inv, TypeOK
<1>3. \A u \in Workers \ {w} : Needed(u)' = Needed(u)
  BY <1>1 DEF Needed, Inv, TypeOK
<1>4. Needed(w)' <= Needed(w) /\ Needed(w)' \in Nat /\ Needed(w) \in Nat
  <2>1. Needed(w)' = Period + (MaxFailures - failures[w]) * Period
    BY <1>1 DEF Needed, Inv, TypeOK
  <2>2. Needed(w) = timer[w] + Period + (MaxFailures - failures[w]) * Period
    BY <1>1 DEF Needed
  <2>3. timer[w] \in Nat /\ MaxFailures - failures[w] \in Nat /\ Period \in Nat
    BY LeaseAssumption, PeriodTyped DEF Inv, TypeOK
  <2>4. (MaxFailures - failures[w]) * Period \in Nat
    BY <2>3
  <2> QED
    BY <2>1, <2>2, <2>3, <2>4
<1>5. Held'
  <2>1. SUFFICES ASSUME NEW u \in Workers, Runs(u)' PROVE locked' /\ left' >= Needed(u)'
    BY DEF Held
  <2>2. locked /\ left >= Needed(u) /\ left \in Int
    BY <1>2, <2>1 DEF Inv, Held, TypeOK
  <2> QED
    BY <1>1, <1>3, <1>4, <2>2
<1>6. Due'
  BY <1>1, <1>2 DEF Due, Inv, TypeOK
<1> QED
  BY <1>2, <1>5, <1>6 DEF Inv, OneRunAtATime

LEMMA ExtendKeeps ==
  ASSUME LongEnough, Inv, TypeOK', NEW w \in Workers, extend_workflow_lock(w)
  PROVE  Inv'
<1>1. /\ run' = run /\ locked' = locked /\ timer' = timer
      /\ heart' = [heart EXCEPT ![w] = "awake"] /\ timer[w] <= Delay
      /\ failures' = [failures EXCEPT ![w] = 0] /\ left' = LockDuration
  BY DEF extend_workflow_lock, Wakes
<1>2. \A u \in Workers : Runs(u)' <=> Runs(u)
  BY <1>1 DEF Runs
<1>3. Due'
  BY <1>1, <1>2 DEF Due, Inv, TypeOK
<1>4. ASSUME NEW u \in Workers, Runs(u)' PROVE Needed(u)' <= LockDuration
  <2>1. (MaxFailures + 1) * Period = Period + MaxFailures * Period
    BY LeaseAssumption, PeriodTyped
  <2>2. MaxFailures * Period \in Nat
    BY LeaseAssumption, PeriodTyped
  <2>3. LockDuration >= Delay + Period + MaxFailures * Period
    BY <2>1, <2>2, LeaseAssumption, PeriodTyped DEF LongEnough
  <2>4. (MaxFailures - failures'[u]) * Period <= MaxFailures * Period
    <3>1. failures'[u] \in 0..MaxFailures
      BY DEF TypeOK
    <3>2. \A p, f \in Nat : f * p \in Nat
      OBVIOUS
    <3>3. failures'[u] * Period \in Nat
      BY <3>1, <3>2, PeriodTyped, LeaseAssumption
    <3>4. (MaxFailures - failures'[u]) * Period = MaxFailures * Period - failures'[u] * Period
      BY <3>1, PeriodTyped, LeaseAssumption
    <3> QED
      BY <3>3, <3>4, <2>2
  <2>5. (MaxFailures - failures'[u]) * Period \in Int
    BY LeaseAssumption, PeriodTyped DEF TypeOK
  <2>6. timer'[u] \in Nat /\ timer'[u] <= Period
    BY PeriodTyped DEF TypeOK
  <2> HIDE DEF Period
  <2>7. CASE run'[u] = "claimed" \/ heart'[u] = "awake"
    <3>1. timer'[u] <= Delay
      BY <1>3, <1>4, <2>7 DEF Due
    <3>2. Needed(u)' = timer'[u] + Period + (MaxFailures - failures'[u]) * Period
      BY <2>7 DEF Needed
    <3> QED
      BY <2>2, <2>3, <2>4, <2>5, <2>6, <3>1, <3>2, LeaseAssumption, PeriodTyped
  <2>8. CASE ~(run'[u] = "claimed" \/ heart'[u] = "awake")
    <3>1. Needed(u)' = timer'[u] + (MaxFailures - failures'[u]) * Period
      BY <2>8 DEF Needed
    <3> QED
      BY <2>2, <2>3, <2>4, <2>5, <2>6, <3>1, LeaseAssumption, PeriodTyped
  <2> QED
    BY <2>7, <2>8
<1>5. Held'
  <2>1. SUFFICES ASSUME NEW u \in Workers, Runs(u)' PROVE locked' /\ left' >= Needed(u)'
    BY DEF Held
  <2>2. locked
    BY <1>2, <2>1 DEF Inv, Held
  <2>3. Needed(u)' \in Nat /\ Needed(u)' <= LockDuration
    BY <1>4, <2>1, NeededTyped
  <2> QED
    BY <1>1, <2>2, <2>3, LeaseAssumption
<1> QED
  BY <1>2, <1>3, <1>5 DEF Inv, OneRunAtATime

LEMMA FailKeeps ==
  ASSUME Inv, TypeOK', NEW w \in Workers, fail_to_extend(w)
  PROVE  Inv'
<1>1. /\ run' = run /\ locked' = locked /\ timer' = timer /\ left' = left
      /\ heart[w] = "asleep" /\ heart' = [heart EXCEPT ![w] = "awake"] /\ timer[w] <= Delay
      /\ failures' = [failures EXCEPT ![w] = failures[w] + 1]
      /\ Beats(w)
  BY DEF fail_to_extend, Wakes
<1>2. \A u \in Workers : Runs(u)' <=> Runs(u)
  BY <1>1 DEF Runs
<1>3. Due'
  BY <1>1, <1>2 DEF Due, Inv, TypeOK
<1>4. \A u \in Workers \ {w} : Needed(u)' = Needed(u)
  BY <1>1 DEF Needed, Inv, TypeOK
<1>5. Needed(w)' = Needed(w)
  <2>1. Needed(w) = timer[w] + (MaxFailures - failures[w]) * Period
    BY <1>1 DEF Needed, Beats
  <2>2. Needed(w)' = timer[w] + Period + (MaxFailures - (failures[w] + 1)) * Period
    BY <1>1 DEF Needed, Inv, TypeOK
  <2>3. failures[w] \in Nat /\ timer[w] \in Nat
    BY LeaseAssumption DEF Inv, TypeOK
  <2>4. (MaxFailures - failures[w]) * Period = Period + (MaxFailures - (failures[w] + 1)) * Period
    BY <2>3, OneFailureMore, LeaseAssumption, PeriodTyped
  <2>5. (MaxFailures - (failures[w] + 1)) * Period \in Int
    BY <2>3, LeaseAssumption, PeriodTyped
  <2> QED
    BY <2>1, <2>2, <2>3, <2>4, <2>5, PeriodTyped
<1>6. Held'
  BY <1>1, <1>2, <1>4, <1>5 DEF Inv, Held
<1> QED
  BY <1>2, <1>3, <1>6 DEF Inv, OneRunAtATime

LEMMA SleepKeeps ==
  ASSUME Inv, TypeOK', NEW w \in Workers, sleep(w)
  PROVE  Inv'
<1>1. /\ run' = run /\ locked' = locked /\ left' = left /\ failures' = failures
      /\ heart[w] = "awake" /\ heart' = [heart EXCEPT ![w] = "asleep"]
      /\ timer' = [timer EXCEPT ![w] = Period] /\ Beats(w)
  BY DEF sleep
<1>2. \A u \in Workers : Runs(u)' <=> Runs(u)
  BY <1>1 DEF Runs
<1>3. Due'
  BY <1>1, <1>2 DEF Due, Inv, TypeOK, Beats
<1>4. \A u \in Workers \ {w} : Needed(u)' = Needed(u)
  BY <1>1 DEF Needed, Inv, TypeOK
<1>5. Needed(w)' <= Needed(w) /\ Needed(w)' \in Nat /\ Needed(w) \in Nat
  <2>1. Needed(w)' = Period + (MaxFailures - failures[w]) * Period
    BY <1>1 DEF Needed, Beats, Inv, TypeOK
  <2>2. Needed(w) = timer[w] + Period + (MaxFailures - failures[w]) * Period
    BY <1>1 DEF Needed
  <2>3. timer[w] \in Nat /\ MaxFailures - failures[w] \in Nat /\ Period \in Nat
    BY LeaseAssumption, PeriodTyped DEF Inv, TypeOK
  <2>4. (MaxFailures - failures[w]) * Period \in Nat
    BY <2>3
  <2> QED
    BY <2>1, <2>2, <2>3, <2>4
<1>6. Held'
  <2>1. SUFFICES ASSUME NEW u \in Workers, Runs(u)' PROVE locked' /\ left' >= Needed(u)'
    BY DEF Held
  <2>2. locked /\ left >= Needed(u) /\ left \in Int
    BY <1>2, <2>1 DEF Inv, Held, TypeOK
  <2> QED
    BY <1>1, <1>4, <1>5, <2>2
<1> QED
  BY <1>2, <1>3, <1>6 DEF Inv, OneRunAtATime

LEMMA TickKeeps ==
  ASSUME Inv, TypeOK', tick
  PROVE  Inv'
<1>1. /\ run' = run /\ locked' = locked /\ heart' = heart /\ failures' = failures
      /\ left' = Lasting(left - 1)
      /\ \A w \in Workers : run[w] # "none" => timer[w] > 0
      /\ timer' = [w \in Workers |-> IF timer[w] > 0 THEN timer[w] - 1 ELSE 0]
  BY DEF tick
<1>2. \A u \in Workers : Runs(u)' <=> Runs(u)
  BY <1>1 DEF Runs
<1>3. \A u \in Workers : Runs(u) => timer[u] > 0 /\ timer'[u] = timer[u] - 1 /\ timer[u] \in Nat
  BY <1>1 DEF Runs, Inv, TypeOK
<1>4. ASSUME NEW u \in Workers, Runs(u) PROVE Needed(u)' = Needed(u) - 1
  <2>1. (MaxFailures - failures[u]) * Period \in Int
    BY LeaseAssumption, PeriodTyped DEF Inv, TypeOK
  <2>2. CASE run[u] = "claimed" \/ heart[u] = "awake"
    <3>1. Needed(u) = timer[u] + Period + (MaxFailures - failures[u]) * Period
      BY <2>2 DEF Needed
    <3>2. Needed(u)' = timer'[u] + Period + (MaxFailures - failures[u]) * Period
      BY <1>1, <2>2 DEF Needed
    <3> QED
      BY <1>3, <1>4, <2>1, <3>1, <3>2, PeriodTyped
  <2>3. CASE ~(run[u] = "claimed" \/ heart[u] = "awake")
    <3>1. Needed(u) = timer[u] + (MaxFailures - failures[u]) * Period
      BY <2>3 DEF Needed
    <3>2. Needed(u)' = timer'[u] + (MaxFailures - failures[u]) * Period
      BY <1>1, <2>3 DEF Needed
    <3> QED
      BY <1>3, <1>4, <2>1, <3>1, <3>2
  <2> QED
    BY <2>2, <2>3
<1>5. Held'
  <2>1. SUFFICES ASSUME NEW u \in Workers, Runs(u)' PROVE locked' /\ left' >= Needed(u)'
    BY DEF Held
  <2>2. locked /\ left >= Needed(u) /\ left \in Int
    BY <1>2, <2>1 DEF Inv, Held, TypeOK
  <2>3. Needed(u) \in Nat /\ Needed(u) >= timer[u] /\ timer[u] > 0 /\ timer[u] \in Nat
    BY <1>2, <1>3, <2>1, NeededIsPositive DEF Inv
  <2>4. left' = left - 1
    BY <1>1, <2>2, <2>3 DEF Lasting
  <2> QED
    BY <1>1, <1>2, <1>4, <2>1, <2>2, <2>3, <2>4
<1>6. Due'
  <2>1. SUFFICES ASSUME NEW u \in Workers, Runs(u), run[u] = "claimed" \/ heart[u] = "awake"
                 PROVE  timer'[u] <= Delay
    BY <1>1, <1>2 DEF Due
  <2>2. timer[u] <= Delay
    BY <2>1 DEF Inv, Due
  <2> QED
    BY <1>3, <2>1, <2>2, LeaseAssumption
<1> QED
  BY <1>2, <1>5, <1>6 DEF Inv, OneRunAtATime

\* A release ends the run's claim to the lock; the lock is nobody else's.
LEMMA ReleaseKeeps ==
  ASSUME Inv, TypeOK', NEW w \in Workers, release(w)
  PROVE  Inv'
<1>1. Runs(w)
  BY DEF release, Runs
<1>2. \A u \in Workers : ~Runs(u)'
  <2>1. \A u \in Workers : Runs(u) => u = w
    BY <1>1 DEF Inv, OneRunAtATime
  <2> QED
    BY <2>1 DEF release, Runs, Inv, TypeOK
<1> QED
  BY <1>2 DEF Inv, Held, Due, OneRunAtATime

LEMMA EasyKeeps ==
  ASSUME Inv, TypeOK', NEW w \in Workers, hang(w) \/ time_out(w) \/ stop(w) \/ die(w)
  PROVE  Inv'
<1>1. locked' = locked /\ left' = left /\ UNCHANGED <<heart, timer, failures>>
  BY DEF hang, time_out, stop, die
<1>2. \A u \in Workers : Runs(u)' => Runs(u) /\ (run'[u] = "claimed" <=> run[u] = "claimed")
  BY DEF hang, time_out, stop, die, Runs, Inv, TypeOK
<1> QED
  BY <1>1, <1>2, OthersKeep

LEMMA NextInv == LongEnough /\ Inv /\ [Next]_vars => Inv'
<1> SUFFICES ASSUME LongEnough, Inv, [Next]_vars PROVE Inv'
  OBVIOUS
<1>0. TypeOK'
  BY TypeKept DEF Inv
<1>1. CASE tick
  BY <1>0, <1>1, TickKeeps
<1>2. CASE \E w \in Workers : claim(w)
  BY <1>0, <1>2, ClaimKeeps
<1>3. CASE \E w \in Workers : Beat(w)
  BY <1>0, <1>3, StartKeeps, ExtendKeeps, SleepKeeps DEF Beat
<1>4. CASE \E w \in Workers : fail_to_extend(w)
  BY <1>0, <1>4, FailKeeps
<1>5. CASE \E w \in Workers : release(w)
  BY <1>0, <1>5, ReleaseKeeps
<1>6. CASE \E w \in Workers : hang(w) \/ time_out(w) \/ stop(w) \/ die(w)
  BY <1>0, <1>6, EasyKeeps
<1>7. CASE UNCHANGED vars
  <2>1. UNCHANGED <<locked, left, run, heart, timer, failures>>
    BY <1>7 DEF vars
  <2>2. \A u \in Workers : Runs(u)' => Runs(u) /\ (run'[u] = "claimed" <=> run[u] = "claimed")
    BY <2>1 DEF Runs
  <2> QED
    BY <1>0, <2>1, <2>2, OthersKeep
<1> QED
  BY <1>1, <1>2, <1>3, <1>4, <1>5, <1>6, <1>7 DEF Next

-----------------------------------------------------------------------------
\* The lock, the heartbeats and their timers stay well formed: no count of failures
\* exceeds its bound and no timer its period, whatever the constants are.
THEOREM LeaseTyped == Spec => []TypeOK
<1>1. Init => TypeOK
  BY InitInv DEF Inv
<1>2. TypeOK /\ [Next]_vars => TypeOK'
  BY TypeKept
<1> QED
  BY <1>1, <1>2, PTL DEF Spec

\* With a lock that is long enough for the heartbeat interval, the delays, the
\* failures and the clocks it meets, no workflow is ever run by two tasks at once,
\* whatever dies or hangs and however many workers there are.
THEOREM LongLocksExclude == LongEnough /\ Spec => []OneRunAtATime
<1>1. Inv => OneRunAtATime
  BY DEF Inv
<1>2. LongEnough /\ Inv /\ [Next]_vars => Inv'
  BY NextInv
<1>3. LongEnough => []LongEnough
  <2>1. LongEnough => LongEnough'
    BY DEF LongEnough, Period
  <2> QED
    BY <2>1, PTL
<1> QED
  BY <1>1, <1>2, <1>3, InitInv, PTL DEF Spec

\* A run that is alive never finds its lock lapsed, not even while one of its
\* activities hangs: the lock is extended by a task that does not wait for it.
THEOREM LiveLocksHold ==
  LongEnough /\ Spec => [](\A w \in Workers : Runs(w) => locked /\ left >= 0)
<1>1. Inv => \A w \in Workers : Runs(w) => locked /\ left >= 0
  BY NeededIsPositive DEF Inv, Held, TypeOK
<1>2. LongEnough /\ Inv /\ [Next]_vars => Inv'
  BY NextInv
<1>3. LongEnough => []LongEnough
  <2>1. LongEnough => LongEnough'
    BY DEF LongEnough, Period
  <2> QED
    BY <2>1, PTL
<1> QED
  BY <1>1, <1>2, <1>3, InitInv, PTL DEF Spec
=============================================================================
