--------------------------- MODULE SchedulerProof ---------------------------
(***************************************************************************)
(* What Scheduler keeps for any number of workers, workflows and slots,    *)
(* however many processes are interrupted and runs raise: its types, one   *)
(* holder of each lock, the capacity of a worker, and an orderly end.      *)
(***************************************************************************)
EXTENDS Scheduler, FiniteSetTheorems, SequenceTheorems, TLAPS

\* Where a workflow may be held: by the loop of a worker (0) or in a slot.
Places == Workers \X (0..(WorkerConcurrency + 1))

HeldAt(p) ==
  IF p[2] = 0 THEN claimed[p[1]]
  ELSE IF tasks[p[1]][p[2]].phase = "executing" THEN tasks[p[1]][p[2]].of ELSE None

\* A lock is kept alive from exactly one place.
LockInv ==
  /\ \A p \in Places : HeldAt(p) # None => lock[HeldAt(p)] = "held"
  /\ \A i \in Workflows : lock[i] = "held" => \E p \in Places : HeldAt(p) = i
  /\ \A p, q \in Places : (HeldAt(p) = HeldAt(q) /\ HeldAt(p) # None) => p = q

\* The slots in use, those of tasks not reaped yet included.
Busy(own) == {s \in Slots : own[s].phase # "none"}

\* A slot is free when the loop claims, and until the task is created.
CapacityInv ==
  \A w \in Workers :
    /\ Cardinality(Busy(tasks[w])) <= WorkerConcurrency
    /\ pc[w] \in {"claim", "committed"} => Cardinality(Busy(tasks[w])) < WorkerConcurrency

\* Between the commit of a claim and the task, and only then, the loop holds a workflow.
LoopInv ==
  \A w \in Workers :
    /\ claimed[w] # None <=> pc[w] = "committed"
    /\ pc[w] = "exited" => Unfinished(tasks[w]) = {}

TaskOK(t) ==
  /\ t.phase = "executing" => t.of \in Workflows
  /\ t.phase = "none" => t = NoTask

TasksInv == \A w \in Workers, s \in Slots : TaskOK(tasks[w][s])

SchedulerInv == TypeOK /\ TasksInv /\ LoopInv /\ LockInv /\ CapacityInv

-----------------------------------------------------------------------------
(***************************************************************************)
(* Numbers and finite sets of slots.                                       *)
(***************************************************************************)
LEMMA LeastSlot ==
  ASSUME NEW S, S \subseteq Nat, S # {}
  PROVE  Min(S) \in S /\ \A m \in S : Min(S) <= m
<1> DEFINE R == StrictSubsetOrdering(Nat)
           segments == {1..n : n \in S}
<1>1. IsWellFoundedOn(R, FiniteSubsetsOf(Nat))
  BY FS_StrictSubsetOrderingWellFounded
<1>2. \A n \in S : IsFiniteSet(1..n) /\ 1..n \in SUBSET Nat
  BY FS_Interval
<1>3. segments \subseteq FiniteSubsetsOf(Nat) /\ segments # {}
  BY <1>2 DEF FiniteSubsetsOf
<1>4. PICK t \in segments : \A u \in segments : <<u, t>> \notin R
  <2> HIDE DEF R, segments
  <2> QED
    BY <1>1, <1>3, WFMin
<1>5. PICK n \in S : t = 1..n
  OBVIOUS
<1>6. ASSUME NEW m \in S, m < n PROVE FALSE
  <2>1. 1..m \in segments /\ 1..m \subseteq 1..n /\ n \in 1..n /\ n \notin 1..m
    BY <1>6
  <2>2. <<1..m, 1..n>> \in R
    BY <2>1 DEF StrictSubsetOrdering
  <2> QED
    BY <1>4, <1>5, <2>1, <2>2
<1>7. \A m \in S : n <= m
  BY <1>6
<1> QED
  BY <1>7 DEF Min

LEMMA SlotsFinite ==
  /\ IsFiniteSet(Slots) /\ Cardinality(Slots) = WorkerConcurrency + 1
  /\ \A S \in SUBSET Slots : IsFiniteSet(S) /\ Cardinality(S) \in Nat
<1>1. IsFiniteSet(Slots) /\ Cardinality(Slots) = WorkerConcurrency + 1
  BY SchedulerAssumption, FS_Interval DEF Slots
<1>2. \A S \in SUBSET Slots : IsFiniteSet(S)
  BY <1>1, FS_Subset
<1> QED
  BY <1>1, <1>2, FS_CardinalityType

\* Fewer slots are busy in new than in own.
LEMMA FewerBusy ==
  ASSUME NEW S \in SUBSET Slots, NEW T \in SUBSET S
  PROVE  Cardinality(T) <= Cardinality(S) /\ Cardinality(T) \in Nat /\ Cardinality(S) \in Nat
<1>1. IsFiniteSet(S) /\ Cardinality(S) \in Nat
  BY SlotsFinite
<1>2. T \in SUBSET Slots
  OBVIOUS
<1> QED
  BY <1>1, <1>2, SlotsFinite, FS_Subset

-----------------------------------------------------------------------------
(***************************************************************************)
(* The queue.                                                              *)
(***************************************************************************)
QueueOK(q) == q \in Seq(Workflows) /\ IsInjective(q)

LEMMA RemovedAt ==
  ASSUME NEW q \in Seq(Workflows), NEW k \in 1..Len(q)
  PROVE  /\ RemoveAt(q, k) \in Seq(Workflows) /\ Len(RemoveAt(q, k)) = Len(q) - 1
         /\ \A n \in 1..(Len(q) - 1) : RemoveAt(q, k)[n] = IF n < k THEN q[n] ELSE q[n + 1]
<1> DEFINE u == SubSeq(q, 1, k - 1)
           v == SubSeq(q, k + 1, Len(q))
<1>1. PICK l \in Nat : l = Len(q)
  OBVIOUS
<1>2. k \in 1..l /\ \A n \in 1..l : q[n] \in Workflows
  BY <1>1
<1>3. u \in Seq(Workflows) /\ Len(u) = k - 1 /\ \A n \in 1..(k - 1) : u[n] = q[n]
  BY <1>1, <1>2
<1>4. v \in Seq(Workflows) /\ Len(v) = l - k /\ \A n \in 1..(l - k) : v[n] = q[k + n]
  <2>1. k + 1 \in Int /\ l \in Int /\ \A n \in (k + 1)..l : q[n] \in Workflows
    BY <1>2
  <2>2. /\ v \in Seq(Workflows)
        /\ Len(v) = IF k + 1 <= l THEN l - (k + 1) + 1 ELSE 0
        /\ \A n \in 1..(l - (k + 1) + 1) : v[n] = q[(k + 1) + n - 1]
    BY <1>1, <2>1, SubSeqProperties
  <2> HIDE DEF v
  <2>3. l - (k + 1) + 1 = l - k /\ (~(k + 1 <= l) => l - k = 0)
    BY <1>2
  <2>4. \A n \in 1..(l - k) : (k + 1) + n - 1 = k + n
    BY <1>2
  <2> QED
    BY <2>2, <2>3, <2>4
<1>5. RemoveAt(q, k) = u \o v
  BY DEF RemoveAt
<1> HIDE DEF u, v
<1>6. /\ u \o v \in Seq(Workflows) /\ Len(u \o v) = (k - 1) + (l - k)
      /\ \A n \in 1..((k - 1) + (l - k)) : (u \o v)[n] = IF n <= k - 1 THEN u[n] ELSE v[n - (k - 1)]
  <2>1. /\ u \o v \in Seq(Workflows) /\ Len(u \o v) = Len(u) + Len(v)
        /\ \A n \in 1..(Len(u) + Len(v)) : (u \o v)[n] = IF n <= Len(u) THEN u[n] ELSE v[n - Len(u)]
    <3>1. u \in Seq(Workflows) /\ v \in Seq(Workflows)
      BY <1>3, <1>4
    <3> QED
      BY <3>1, ConcatProperties
  <2>2. Len(u) = k - 1 /\ Len(v) = l - k
    BY <1>3, <1>4
  <2> QED
    BY <2>1, <2>2
<1>7. (k - 1) + (l - k) = l - 1
  BY <1>2
<1>8. ASSUME NEW n \in 1..(l - 1) PROVE (u \o v)[n] = IF n < k THEN q[n] ELSE q[n + 1]
  <2>1. CASE n < k
    <3>1. n \in 1..(k - 1) /\ n <= k - 1
      BY <1>2, <2>1
    <3> QED
      BY <1>3, <1>6, <1>7, <2>1, <3>1
  <2>2. CASE ~(n < k)
    <3>1. n - (k - 1) \in 1..(l - k) /\ k + (n - (k - 1)) = n + 1 /\ ~(n <= k - 1)
      BY <1>2, <2>2
    <3> QED
      BY <1>4, <1>6, <1>7, <2>2, <3>1
  <2> QED
    BY <2>1, <2>2
<1> QED
  BY <1>1, <1>5, <1>6, <1>7, <1>8

LEMMA RemovedFirst ==
  ASSUME NEW q, QueueOK(q), NEW i
  PROVE  QueueOK(RemoveFirst(q, i)) /\ \A n \in 1..Len(RemoveFirst(q, i)) : RemoveFirst(q, i)[n] # i
<1> DEFINE I == {n \in 1..Len(q) : q[n] = i}
           k == Min(I)
           r == RemoveAt(q, k)
<1>1. Len(q) \in Nat /\ DOMAIN q = 1..Len(q) /\ q \in Seq(Workflows)
  BY DEF QueueOK
<1>2. CASE I = {}
  BY <1>1, <1>2 DEF RemoveFirst
<1>3. CASE I # {}
  <2>1. k \in 1..Len(q) /\ q[k] = i
    <3>1. I \subseteq Nat
      OBVIOUS
    <3>2. k \in I
      BY <1>3, <3>1, LeastSlot
    <3> QED
      BY <3>2
  <2>2. RemoveFirst(q, i) = r
    BY <1>3 DEF RemoveFirst, SelectInSeq
  <2> HIDE DEF I, k
  <2>5. /\ r \in Seq(Workflows) /\ Len(r) = Len(q) - 1
        /\ \A n \in 1..(Len(q) - 1) : r[n] = IF n < k THEN q[n] ELSE q[n + 1]
    BY <1>1, <2>1, RemovedAt
  <2> HIDE DEF r
  <2>6. \A m, n \in 1..Len(q) : q[m] = q[n] => m = n
    BY <1>1 DEF QueueOK, IsInjective
  <2>7. IsInjective(r)
    <3> SUFFICES ASSUME NEW m \in 1..(Len(q) - 1), NEW n \in 1..(Len(q) - 1), r[m] = r[n] PROVE m = n
      BY <1>1, <2>5 DEF IsInjective
    <3>1. PICK l \in Nat : l = Len(q)
      BY <1>1
    <3>2. m + 1 \in 1..l /\ n + 1 \in 1..l /\ m \in 1..l /\ n \in 1..l
      BY <3>1
    <3>3. r[m] = q[IF m < k THEN m ELSE m + 1] /\ r[n] = q[IF n < k THEN n ELSE n + 1]
      BY <2>5
    <3>4. (IF m < k THEN m ELSE m + 1) = (IF n < k THEN n ELSE n + 1)
      BY <2>6, <3>1, <3>2, <3>3
    <3> QED
      BY <2>1, <3>1, <3>2, <3>4
  <2>8. \A n \in 1..Len(r) : r[n] # i
    BY <1>1, <2>1, <2>5, <2>6
  <2> QED
    BY <2>2, <2>5, <2>7, <2>8 DEF QueueOK
<1> QED
  BY <1>2, <1>3

LEMMA AppendedOnce ==
  ASSUME NEW q, QueueOK(q), NEW i \in Workflows, \A n \in 1..Len(q) : q[n] # i
  PROVE  QueueOK(Append(q, i))
<1> DEFINE r == Append(q, i)
<1>1. Len(q) \in Nat /\ DOMAIN q = 1..Len(q) /\ q \in Seq(Workflows)
  BY DEF QueueOK
<1>2. /\ r \in Seq(Workflows) /\ Len(r) = Len(q) + 1 /\ DOMAIN r = 1..(Len(q) + 1)
      /\ \A n \in 1..(Len(q) + 1) : r[n] = IF n = Len(q) + 1 THEN i ELSE q[n]
  BY <1>1
<1> HIDE DEF r
<1>3. \A m, n \in 1..Len(q) : q[m] = q[n] => m = n
  BY <1>1 DEF QueueOK, IsInjective
<1>4. IsInjective(r)
  BY <1>1, <1>2, <1>3 DEF IsInjective
<1> QED
  BY <1>2, <1>4 DEF QueueOK, r

-----------------------------------------------------------------------------
(***************************************************************************)
(* Who holds a workflow, and how a step may change it.                     *)
(***************************************************************************)
LEMMA HeldType ==
  ASSUME TypeOK, TasksInv, NEW p \in Places
  PROVE  HeldAt(p) \in Workflows \cup {None}
<1>1. p[1] \in Workers /\ p[2] \in 0..(WorkerConcurrency + 1)
  BY DEF Places
<1>2. CASE p[2] = 0
  BY <1>1, <1>2 DEF HeldAt, TypeOK
<1>3. CASE p[2] # 0
  <2>1. p[2] \in Slots
    BY SchedulerAssumption, <1>1, <1>3 DEF Slots
  <2>2. TaskOK(tasks[p[1]][p[2]])
    BY <1>1, <2>1 DEF TasksInv
  <2> QED
    BY <1>3, <2>2 DEF HeldAt, TaskOK
<1> QED
  BY <1>2, <1>3

\* The same places hold the same workflows.
LEMMA HoldersSame ==
  ASSUME TypeOK, TasksInv, LockInv,
         \A p \in Places : HeldAt(p)' = HeldAt(p),
         \A i \in Workflows : lock'[i] = "held" <=> lock[i] = "held"
  PROVE  LockInv'
<1>1. \A p \in Places : HeldAt(p) \in Workflows \cup {None}
  BY HeldType
<1>2. \A p \in Places : HeldAt(p)' # None => lock'[HeldAt(p)'] = "held"
  <2> SUFFICES ASSUME NEW p \in Places, HeldAt(p) # None PROVE lock'[HeldAt(p)] = "held"
    OBVIOUS
  <2> QED
    BY <1>1 DEF LockInv
<1>3. \A i \in Workflows : lock'[i] = "held" => \E p \in Places : HeldAt(p)' = i
  BY DEF LockInv
<1>4. \A p, q \in Places : (HeldAt(p)' = HeldAt(q)' /\ HeldAt(p)' # None) => p = q
  BY DEF LockInv
<1> QED
  BY <1>2, <1>3, <1>4 DEF LockInv, Places

\* A place takes a workflow that nobody held.
LEMMA HolderGained ==
  ASSUME TypeOK, TasksInv, LockInv, NEW p0 \in Places, NEW i0 \in Workflows,
         lock[i0] # "held", HeldAt(p0)' = i0, HeldAt(p0) = None, lock'[i0] = "held",
         \A p \in Places \ {p0} : HeldAt(p)' = HeldAt(p),
         \A i \in Workflows \ {i0} : lock'[i] = "held" <=> lock[i] = "held"
  PROVE  LockInv'
<1>1. \A p \in Places : HeldAt(p) \in Workflows \cup {None}
  BY HeldType
<1>2. \A p \in Places \ {p0} : HeldAt(p)' # i0
  BY SchedulerAssumption DEF LockInv
<1>3. \A p \in Places : HeldAt(p)' # None => lock'[HeldAt(p)'] = "held"
  <2> SUFFICES ASSUME NEW p \in Places \ {p0}, HeldAt(p)' # None PROVE lock'[HeldAt(p)'] = "held"
    OBVIOUS
  <2>1. HeldAt(p)' = HeldAt(p) /\ HeldAt(p) \in Workflows \ {i0} /\ lock[HeldAt(p)] = "held"
    BY <1>1, <1>2 DEF LockInv
  <2> QED
    BY <2>1
<1>4. \A i \in Workflows : lock'[i] = "held" => \E p \in Places : HeldAt(p)' = i
  <2> SUFFICES ASSUME NEW i \in Workflows \ {i0}, lock'[i] = "held" PROVE \E p \in Places : HeldAt(p)' = i
    OBVIOUS
  <2>1. PICK p \in Places : HeldAt(p) = i
    BY DEF LockInv
  <2>2. p # p0
    BY <2>1, SchedulerAssumption
  <2> QED
    BY <2>1, <2>2
<1>5. \A p, q \in Places : (HeldAt(p)' = HeldAt(q)' /\ HeldAt(p)' # None) => p = q
  BY <1>2 DEF LockInv
<1> QED
  BY <1>3, <1>4, <1>5 DEF LockInv, Places

\* A place loses its workflow, and the lock goes with it.
LEMMA HolderLost ==
  ASSUME TypeOK, TasksInv, LockInv, NEW p0 \in Places, NEW i0 \in Workflows,
         HeldAt(p0) = i0, HeldAt(p0)' = None, lock'[i0] # "held",
         \A p \in Places \ {p0} : HeldAt(p)' = HeldAt(p),
         \A i \in Workflows \ {i0} : lock'[i] = "held" <=> lock[i] = "held"
  PROVE  LockInv'
<1>1. \A p \in Places : HeldAt(p) \in Workflows \cup {None}
  BY HeldType
<1>2. \A p \in Places \ {p0} : HeldAt(p) # i0
  BY SchedulerAssumption DEF LockInv
<1>3. \A p \in Places : HeldAt(p)' # None => lock'[HeldAt(p)'] = "held"
  <2> SUFFICES ASSUME NEW p \in Places \ {p0}, HeldAt(p)' # None PROVE lock'[HeldAt(p)'] = "held"
    OBVIOUS
  <2>1. HeldAt(p)' = HeldAt(p) /\ HeldAt(p) \in Workflows \ {i0} /\ lock[HeldAt(p)] = "held"
    BY <1>1, <1>2 DEF LockInv
  <2> QED
    BY <2>1
<1>4. \A i \in Workflows : lock'[i] = "held" => \E p \in Places : HeldAt(p)' = i
  <2> SUFFICES ASSUME NEW i \in Workflows \ {i0}, lock'[i] = "held" PROVE \E p \in Places : HeldAt(p)' = i
    OBVIOUS
  <2>1. PICK p \in Places : HeldAt(p) = i
    BY DEF LockInv
  <2> QED
    BY <2>1
<1>5. \A p, q \in Places : (HeldAt(p)' = HeldAt(q)' /\ HeldAt(p)' # None) => p = q
  BY DEF LockInv
<1> QED
  BY <1>3, <1>4, <1>5 DEF LockInv, Places

\* A workflow moves to a place that held none.
LEMMA HolderMoved ==
  ASSUME TypeOK, TasksInv, LockInv, NEW p0 \in Places, NEW p1 \in Places, p0 # p1,
         HeldAt(p1) = None, HeldAt(p0)' = None, HeldAt(p1)' = HeldAt(p0),
         \A p \in Places \ {p0, p1} : HeldAt(p)' = HeldAt(p), lock' = lock
  PROVE  LockInv'
<1>1. \A p \in Places : HeldAt(p)' # None => lock'[HeldAt(p)'] = "held"
  <2> SUFFICES ASSUME NEW p \in Places, HeldAt(p)' # None PROVE \E q \in Places : HeldAt(q) = HeldAt(p)'
    BY DEF LockInv
  <2> QED
    OBVIOUS
<1>2. \A i \in Workflows : lock'[i] = "held" => \E p \in Places : HeldAt(p)' = i
  <2> SUFFICES ASSUME NEW i \in Workflows, lock'[i] = "held" PROVE \E p \in Places : HeldAt(p)' = i
    OBVIOUS
  <2>1. PICK p \in Places : HeldAt(p) = i
    BY DEF LockInv
  <2>2. p # p1
    BY <2>1, SchedulerAssumption
  <2> QED
    BY <2>1, <2>2
<1>3. \A p, q \in Places : (HeldAt(p)' = HeldAt(q)' /\ HeldAt(p)' # None) => p = q
  BY DEF LockInv
<1> QED
  BY <1>1, <1>2, <1>3 DEF LockInv, Places

-----------------------------------------------------------------------------
(***************************************************************************)
(* Between two awaits the loop reaps and decides whether it is full.       *)
(***************************************************************************)
LEMMA HeldSplit ==
  ASSUME NEW p \in Places
  PROVE  p[1] \in Workers /\ (p[2] = 0 \/ p[2] \in Slots) /\ (p[2] = 0 => p = <<p[1], 0>>)
  BY SchedulerAssumption DEF Places, Slots

LEMMA Looked ==
  ASSUME TypeOK, TasksInv, CapacityInv, NEW w \in Workers, NEW own \in [Slots -> Task],
         NEW worked \in BOOLEAN, look(w, own, worked),
         \A s \in Slots : TaskOK(own[s]), Cardinality(Busy(own)) <= WorkerConcurrency
  PROVE  /\ tasks' \in [Workers -> [Slots -> Task]] /\ pc' \in [Workers -> Await]
         /\ had_work' \in [Workers -> BOOLEAN]
         /\ TasksInv' /\ CapacityInv'
         /\ pc'[w] \in {"full", "claim"}
         /\ \A v \in Workers \ {w} : tasks'[v] = tasks[v] /\ pc'[v] = pc[v]
         /\ \A s \in Slots : tasks'[w][s] = IF own[s].phase = "done" THEN NoTask ELSE own[s]
<1>1. Reaped(own) \in [Slots -> Task] /\ NoTask \in Task
  BY DEF Reaped, NoTask, Task
<1>2. /\ tasks' \in [Workers -> [Slots -> Task]] /\ pc' \in [Workers -> Await]
      /\ had_work' \in [Workers -> BOOLEAN]
  BY <1>1 DEF TypeOK, look, Await
<1>3. /\ pc'[w] = IF at_capacity(own) THEN "full" ELSE "claim"
      /\ tasks'[w] = Reaped(own)
      /\ \A v \in Workers \ {w} : tasks'[v] = tasks[v] /\ pc'[v] = pc[v]
  BY DEF TypeOK, look
<1>4. \A s \in Slots : tasks'[w][s] = IF own[s].phase = "done" THEN NoTask ELSE own[s]
  BY <1>3 DEF Reaped
<1>5. TasksInv'
  BY <1>3, <1>4 DEF TasksInv, TaskOK, NoTask
<1>6. Busy(tasks'[w]) = Unfinished(own)
  BY <1>4 DEF Busy, Unfinished, NoTask, Task, Done
<1>7. /\ Unfinished(own) \in SUBSET Busy(own) /\ Busy(own) \in SUBSET Slots
      /\ Unfinished(own) \in SUBSET Slots
  BY DEF Unfinished, Busy
<1>8. /\ Cardinality(Unfinished(own)) <= Cardinality(Busy(own))
      /\ Cardinality(Unfinished(own)) \in Nat /\ Cardinality(Busy(own)) \in Nat
  BY <1>7, FewerBusy
<1>9. \A v \in Workers : /\ Cardinality(Busy(tasks'[v])) <= WorkerConcurrency
                         /\ pc'[v] \in {"claim", "committed"} => Cardinality(Busy(tasks'[v])) < WorkerConcurrency
  <2> SUFFICES ASSUME NEW v \in Workers
               PROVE /\ Cardinality(Busy(tasks'[v])) <= WorkerConcurrency
                     /\ pc'[v] \in {"claim", "committed"} => Cardinality(Busy(tasks'[v])) < WorkerConcurrency
    OBVIOUS
  <2>1. CASE v = w
    <3>1. Cardinality(Busy(tasks'[v])) <= WorkerConcurrency
      BY <1>6, <1>8, <2>1, SchedulerAssumption
    <3>2. pc'[v] \in {"claim", "committed"} => ~at_capacity(own)
      BY <1>3, <2>1
    <3>3. ~at_capacity(own) => Cardinality(Unfinished(own)) < WorkerConcurrency
      BY <1>8, SchedulerAssumption DEF at_capacity
    <3> QED
      BY <1>6, <2>1, <3>1, <3>2, <3>3
  <2>2. CASE v # w
    BY <1>3, <2>2 DEF CapacityInv
  <2> QED
    BY <2>1, <2>2
<1>10. CapacityInv'
  BY <1>9 DEF CapacityInv, Busy
<1> QED
  BY <1>2, <1>3, <1>4, <1>5, <1>10

\* Finished tasks are reaped, and nothing else changes for anyone.
LEMMA LookedOnly ==
  ASSUME SchedulerInv, NEW w \in Workers, NEW worked \in BOOLEAN, look(w, tasks[w], worked),
         claimed[w] = None, UNCHANGED <<queue, lock, claimed, interrupted, budget>>
  PROVE  SchedulerInv'
<1>1. TypeOK /\ TasksInv /\ CapacityInv /\ LockInv /\ LoopInv
  BY DEF SchedulerInv
<1>2. tasks[w] \in [Slots -> Task] /\ \A s \in Slots : TaskOK(tasks[w][s])
  BY <1>1 DEF TypeOK, TasksInv
<1>3. Cardinality(Busy(tasks[w])) <= WorkerConcurrency
  BY <1>1 DEF CapacityInv
<1>4. /\ tasks' \in [Workers -> [Slots -> Task]] /\ pc' \in [Workers -> Await]
      /\ had_work' \in [Workers -> BOOLEAN]
      /\ TasksInv' /\ CapacityInv'
      /\ pc'[w] \in {"full", "claim"}
      /\ \A v \in Workers \ {w} : tasks'[v] = tasks[v] /\ pc'[v] = pc[v]
      /\ \A s \in Slots : tasks'[w][s] = IF tasks[w][s].phase = "done" THEN NoTask ELSE tasks[w][s]
  BY <1>1, <1>2, <1>3, Looked
<1>5. TypeOK'
  BY <1>1, <1>4 DEF TypeOK
<1>6. LoopInv'
  BY <1>1, <1>4 DEF LoopInv, Unfinished
<1>7. \A p \in Places : HeldAt(p)' = HeldAt(p)
  <2> SUFFICES ASSUME NEW p \in Places PROVE HeldAt(p)' = HeldAt(p)
    OBVIOUS
  <2>1. p[1] \in Workers /\ (p[2] = 0 \/ p[2] \in Slots)
    BY HeldSplit
  <2>2. CASE p[2] = 0
    BY <2>2 DEF HeldAt
  <2>3. CASE p[2] \in Slots /\ p[1] = w
    BY <1>4, <2>3 DEF HeldAt, NoTask
  <2>4. CASE p[2] \in Slots /\ p[1] # w
    BY <1>4, <2>1, <2>4 DEF HeldAt
  <2> QED
    BY <2>1, <2>2, <2>3, <2>4
<1>8. LockInv'
  BY <1>1, <1>7, HoldersSame
<1> QED
  BY <1>4, <1>5, <1>6, <1>8 DEF SchedulerInv

-----------------------------------------------------------------------------
(***************************************************************************)
(* The steps of the loop.                                                  *)
(***************************************************************************)
LEMMA RegisterKeeps ==
  ASSUME SchedulerInv, NEW w \in Workers, register_worker(w) \/ poll(w)
  PROVE  SchedulerInv'
<1>1. claimed[w] = None /\ had_work[w] \in BOOLEAN
  BY DEF SchedulerInv, LoopInv, TypeOK, register_worker, poll
<1> QED
  BY <1>1, LookedOnly DEF register_worker, poll

LEMMA YieldKeeps ==
  ASSUME SchedulerInv, NEW w \in Workers, yield(w)
  PROVE  SchedulerInv'
<1>1. claimed[w] = None
  BY DEF SchedulerInv, LoopInv, yield
<1>2. CASE had_work[w]
  BY <1>1, <1>2, LookedOnly DEF yield
<1>3. CASE ~had_work[w]
  <2>1. pc' = [pc EXCEPT ![w] = "idle"] /\ UNCHANGED <<queue, lock, had_work, tasks, claimed, interrupted, budget>>
    BY <1>3 DEF yield
  <2>2. TypeOK' /\ TasksInv' /\ LoopInv' /\ CapacityInv'
    <3>1. TypeOK'
      BY <2>1 DEF SchedulerInv, TypeOK, Await
    <3>2. TasksInv'
      BY <2>1 DEF SchedulerInv, TasksInv
    <3>3. LoopInv'
      BY <1>1, <2>1 DEF SchedulerInv, TypeOK, LoopInv, Unfinished
    <3>4. CapacityInv'
      BY <2>1 DEF SchedulerInv, TypeOK, CapacityInv, Busy
    <3> QED
      BY <3>1, <3>2, <3>3, <3>4
  <2>3. \A p \in Places : HeldAt(p)' = HeldAt(p)
    BY <2>1 DEF HeldAt
  <2>4. LockInv'
    BY <2>1, <2>3, HoldersSame DEF SchedulerInv
  <2> QED
    BY <2>2, <2>4 DEF SchedulerInv
<1> QED
  BY <1>2, <1>3

LEMMA ClaimNothingKeeps ==
  ASSUME SchedulerInv, NEW w \in Workers, claim_nothing(w)
  PROVE  SchedulerInv'
<1>1. /\ pc[w] = "claim" /\ had_work' = [had_work EXCEPT ![w] = FALSE] /\ pc' = [pc EXCEPT ![w] = "idle"]
      /\ UNCHANGED <<queue, lock, tasks, claimed, interrupted, budget>>
  BY DEF claim_nothing
<1>2. TypeOK'
  BY <1>1 DEF SchedulerInv, TypeOK, Await
<1>3. TasksInv'
  BY <1>1 DEF SchedulerInv, TasksInv
<1>4. LoopInv'
  BY <1>1 DEF SchedulerInv, TypeOK, LoopInv, Unfinished
<1>5. CapacityInv'
  BY <1>1 DEF SchedulerInv, TypeOK, CapacityInv, Busy
<1>6. \A p \in Places : HeldAt(p)' = HeldAt(p)
  BY <1>1 DEF HeldAt
<1>7. LockInv'
  BY <1>1, <1>6, HoldersSame DEF SchedulerInv
<1> QED
  BY <1>2, <1>3, <1>4, <1>5, <1>7 DEF SchedulerInv

LEMMA ClaimKeeps ==
  ASSUME SchedulerInv, NEW w \in Workers, claim_next_workflow(w)
  PROVE  SchedulerInv'
<1>1. PICK n \in Oldest : lock' = [lock EXCEPT ![queue[n]] = "held"] /\ claimed' = [claimed EXCEPT ![w] = queue[n]]
  BY DEF claim_next_workflow
<1>2. /\ pc[w] = "claim" /\ pc' = [pc EXCEPT ![w] = "committed"]
      /\ UNCHANGED <<queue, had_work, tasks, interrupted, budget>>
  BY DEF claim_next_workflow
<1>3. TypeOK /\ TasksInv /\ LoopInv /\ LockInv /\ CapacityInv
  BY DEF SchedulerInv
<1>4. PICK i \in Workflows : i = queue[n] /\ lock[i] = "free" /\ i # None
  BY <1>3, SchedulerAssumption DEF TypeOK, Oldest, Claimable
<1>5. lock' = [lock EXCEPT ![i] = "held"] /\ claimed' = [claimed EXCEPT ![w] = i]
  BY <1>1, <1>4
<1>6. TypeOK'
  BY <1>2, <1>3, <1>5 DEF TypeOK, Await
<1>7. TasksInv'
  BY <1>2, <1>3 DEF TasksInv
<1>8. LoopInv'
  BY <1>2, <1>3, <1>4, <1>5 DEF TypeOK, LoopInv, Unfinished
<1>9. CapacityInv'
  BY <1>2, <1>3 DEF TypeOK, CapacityInv, Busy
<1>10. LockInv'
  <2> DEFINE p0 == <<w, 0>>
  <2>1. p0 \in Places
    BY SchedulerAssumption DEF Places
  <2>2. HeldAt(p0) = None /\ HeldAt(p0)' = i
    BY <1>2, <1>3, <1>5 DEF HeldAt, LoopInv, TypeOK
  <2>3. \A p \in Places \ {p0} : HeldAt(p)' = HeldAt(p)
    <3> SUFFICES ASSUME NEW p \in Places \ {p0} PROVE HeldAt(p)' = HeldAt(p)
      OBVIOUS
    <3>1. p[2] = 0 => p[1] # w
      BY HeldSplit
    <3>2. p[1] \in Workers
      BY HeldSplit
    <3> QED
      BY <1>2, <1>3, <1>5, <3>1, <3>2 DEF HeldAt, TypeOK
  <2>4. lock[i] # "held" /\ lock'[i] = "held" /\ \A j \in Workflows \ {i} : lock'[j] = "held" <=> lock[j] = "held"
    BY <1>3, <1>4, <1>5 DEF TypeOK
  <2> HIDE DEF p0
  <2> QED
    BY <1>3, <2>1, <2>2, <2>3, <2>4, HolderGained
<1> QED
  BY <1>6, <1>7, <1>8, <1>9, <1>10 DEF SchedulerInv

LEMMA CreateKeeps ==
  ASSUME SchedulerInv, NEW w \in Workers, create_task(w)
  PROVE  SchedulerInv'
<1> DEFINE free == {r \in Slots : tasks[w][r] = NoTask}
           s == Min(free)
           own == [tasks[w] EXCEPT ![s] = [phase |-> "executing", of |-> claimed[w]]]
<1>1. TypeOK /\ TasksInv /\ LoopInv /\ LockInv /\ CapacityInv
  BY DEF SchedulerInv
<1>2. /\ pc[w] = "committed" /\ look(w, own, TRUE) /\ claimed' = [claimed EXCEPT ![w] = None]
      /\ UNCHANGED <<queue, lock, interrupted, budget>>
  BY DEF create_task
<1>3. PICK i \in Workflows : i = claimed[w] /\ i # None
  BY <1>1, <1>2, SchedulerAssumption DEF TypeOK, LoopInv
<1>4. tasks[w] \in [Slots -> Task] /\ \A r \in Slots : TaskOK(tasks[w][r])
  BY <1>1 DEF TypeOK, TasksInv
<1>5. s \in Slots /\ tasks[w][s] = NoTask
  <2>1. free # {}
    <3>1. Cardinality(Busy(tasks[w])) < WorkerConcurrency
      BY <1>1, <1>2 DEF CapacityInv
    <3>2. Busy(tasks[w]) # Slots
      BY <3>1, SlotsFinite, SchedulerAssumption
    <3>3. PICK r \in Slots : tasks[w][r].phase = "none"
      BY <3>2 DEF Busy
    <3> QED
      BY <1>4, <3>3 DEF TaskOK
  <2>2. free \subseteq Nat
    BY DEF Slots
  <2>3. s \in free
    <3> HIDE DEF free
    <3> QED
      BY <2>1, <2>2, LeastSlot
  <2> QED
    BY <2>3
<1> HIDE DEF s
<1>6. /\ own \in [Slots -> Task] /\ \A r \in Slots : TaskOK(own[r])
      /\ own[s] = [phase |-> "executing", of |-> i] /\ \A r \in Slots \ {s} : own[r] = tasks[w][r]
  <2>1. own[s] = [phase |-> "executing", of |-> i] /\ \A r \in Slots \ {s} : own[r] = tasks[w][r]
    BY <1>3, <1>4, <1>5
  <2>2. [phase |-> "executing", of |-> i] \in Task
    BY DEF Task
  <2>3. own \in [Slots -> Task]
    BY <1>3, <1>4, <2>2
  <2> QED
    BY <1>4, <2>1, <2>3 DEF TaskOK
<1>7. Cardinality(Busy(own)) <= WorkerConcurrency
  <2>1. Busy(own) = Busy(tasks[w]) \cup {s} /\ s \notin Busy(tasks[w])
    BY <1>5, <1>6 DEF Busy, NoTask
  <2>2. IsFiniteSet(Busy(tasks[w])) /\ Cardinality(Busy(tasks[w])) \in Nat
    BY SlotsFinite DEF Busy
  <2>3. Cardinality(Busy(own)) = Cardinality(Busy(tasks[w])) + 1
    <3> HIDE DEF own
    <3> QED
      BY <2>1, <2>2, FS_AddElement
  <2>4. Cardinality(Busy(tasks[w])) < WorkerConcurrency
    BY <1>1, <1>2 DEF CapacityInv
  <2> QED
    BY <2>2, <2>3, <2>4, SchedulerAssumption
<1> HIDE DEF own
<1>8. /\ tasks' \in [Workers -> [Slots -> Task]] /\ pc' \in [Workers -> Await]
      /\ had_work' \in [Workers -> BOOLEAN]
      /\ TasksInv' /\ CapacityInv'
      /\ pc'[w] \in {"full", "claim"}
      /\ \A v \in Workers \ {w} : tasks'[v] = tasks[v] /\ pc'[v] = pc[v]
      /\ \A r \in Slots : tasks'[w][r] = IF own[r].phase = "done" THEN NoTask ELSE own[r]
  BY <1>1, <1>2, <1>6, <1>7, Looked
<1>9. TypeOK'
  BY <1>1, <1>2, <1>8 DEF TypeOK
<1>10. LoopInv'
  BY <1>1, <1>2, <1>8 DEF TypeOK, LoopInv, Unfinished
<1>11. LockInv'
  <2>0. PICK r \in Slots : r = s
    BY <1>5
  <2> DEFINE p0 == <<w, 0>>
             p1 == <<w, r>>
  <2>1. p0 \in Places /\ p1 \in Places /\ p0 # p1
    BY SchedulerAssumption DEF Places, Slots
  <2>2. HeldAt(p0) = i /\ HeldAt(p0)' = None
    BY <1>1, <1>2, <1>3 DEF HeldAt, TypeOK
  <2>3. HeldAt(p1) = None /\ HeldAt(p1)' = i
    <3>1. r # 0
      BY DEF Slots
    <3>2. tasks'[w][r] = [phase |-> "executing", of |-> i]
      BY <1>6, <1>8, <2>0
    <3>3. HeldAt(p1) = None
      BY <1>5, <2>0, <3>1 DEF HeldAt, NoTask
    <3>4. HeldAt(p1)' = tasks'[w][r].of
      <4>1. tasks'[w][r].phase = "executing"
        BY <3>2
      <4> QED
        BY <3>1, <4>1 DEF HeldAt
    <3> QED
      BY <3>2, <3>3, <3>4
  <2>4. \A p \in Places \ {p0, p1} : HeldAt(p)' = HeldAt(p)
    <3> SUFFICES ASSUME NEW p \in Places \ {p0, p1} PROVE HeldAt(p)' = HeldAt(p)
      OBVIOUS
    <3>1. p[1] \in Workers /\ (p[2] = 0 \/ p[2] \in Slots) /\ p = <<p[1], p[2]>>
      BY SchedulerAssumption DEF Places, Slots
    <3>2. CASE p[2] = 0
      <4>1. p[1] # w
        BY <3>1, <3>2
      <4> QED
        BY <1>1, <1>2, <3>1, <3>2, <4>1 DEF HeldAt, TypeOK
    <3>3. CASE p[2] \in Slots /\ p[2] # 0 /\ p[1] = w
      <4>1. p[2] # s
        BY <2>0, <3>1, <3>3
      <4> QED
        BY <1>6, <1>8, <3>3, <4>1 DEF HeldAt, NoTask
    <3>4. CASE p[2] # 0 /\ p[1] # w
      BY <1>8, <3>1, <3>4 DEF HeldAt
    <3> QED
      BY <3>1, <3>2, <3>3, <3>4
  <2> HIDE DEF p0, p1
  <2>5. lock' = lock
    BY <1>2
  <2>6. HeldAt(p1)' = HeldAt(p0)
    BY <2>2, <2>3
  <2>7. p0 \in Places /\ p1 \in Places
    BY <2>1
  <2> QED
    BY <1>1, <2>1, <2>2, <2>3, <2>4, <2>5, <2>6, <2>7, HolderMoved
<1> QED
  BY <1>8, <1>9, <1>10, <1>11 DEF SchedulerInv

-----------------------------------------------------------------------------
(***************************************************************************)
(* The end of a process.                                                   *)
(***************************************************************************)
Budgets == [signals : 0..MaxSignals, stops : 0..MaxStops, raises : 0..MaxRaises]

LEMMA Spent ==
  ASSUME TypeOK, NEW what \in {"signals", "stops", "raises"}, Spends(what)
  PROVE  budget' \in Budgets
  BY SchedulerAssumption DEF TypeOK, Spends, Budgets

LEMMA Abandoned ==
  ASSUME SchedulerInv, NEW w \in Workers, Abandon(w), pc' = [pc EXCEPT ![w] = "gather"],
         UNCHANGED <<queue, had_work, tasks>>,
         interrupted' \in [Workers -> BOOLEAN], budget' \in Budgets
  PROVE  SchedulerInv'
<1>1. TypeOK /\ TasksInv /\ LoopInv /\ LockInv /\ CapacityInv
  BY DEF SchedulerInv
<1>2. /\ lock' = [i \in Workflows |-> IF i = claimed[w] THEN "left" ELSE lock[i]]
      /\ claimed' = [claimed EXCEPT ![w] = None]
  BY DEF Abandon
<1>3. TypeOK'
  BY <1>1, <1>2 DEF TypeOK, Await, Budgets
<1>4. TasksInv'
  BY <1>1 DEF TasksInv
<1>5. LoopInv'
  BY <1>1, <1>2 DEF TypeOK, LoopInv, Unfinished
<1>6. CapacityInv'
  BY <1>1 DEF TypeOK, CapacityInv, Busy
<1>7. LockInv'
  <2> DEFINE p0 == <<w, 0>>
  <2>1. p0 \in Places
    BY SchedulerAssumption DEF Places
  <2>2. HeldAt(p0) = claimed[w] /\ HeldAt(p0)' = None
    BY <1>1, <1>2 DEF HeldAt, TypeOK
  <2>3. \A p \in Places \ {p0} : HeldAt(p)' = HeldAt(p)
    <3> SUFFICES ASSUME NEW p \in Places \ {p0} PROVE HeldAt(p)' = HeldAt(p)
      OBVIOUS
    <3>1. p[1] \in Workers /\ (p[2] = 0 => p[1] # w)
      BY HeldSplit
    <3> QED
      BY <1>1, <1>2, <3>1 DEF HeldAt, TypeOK
  <2> HIDE DEF p0
  <2>4. CASE claimed[w] = None
    <3>1. \A p \in Places : HeldAt(p)' = HeldAt(p)
      BY <2>2, <2>3, <2>4
    <3>2. \A i \in Workflows : lock'[i] = "held" <=> lock[i] = "held"
      BY <1>2, <2>4, SchedulerAssumption
    <3> QED
      BY <1>1, <3>1, <3>2, HoldersSame
  <2>5. CASE claimed[w] # None
    <3>1. PICK i \in Workflows : i = claimed[w]
      BY <1>1, <2>5 DEF TypeOK
    <3>2. lock'[i] # "held" /\ \A j \in Workflows \ {i} : lock'[j] = "held" <=> lock[j] = "held"
      BY <1>2, <3>1
    <3> QED
      BY <1>1, <2>1, <2>2, <2>3, <3>1, <3>2, HolderLost
  <2> QED
    BY <2>4, <2>5
<1> QED
  BY <1>3, <1>4, <1>5, <1>6, <1>7 DEF SchedulerInv

LEMMA InterruptKeeps ==
  ASSUME SchedulerInv, NEW w \in Workers, interrupt(w) \/ query_raises(w)
  PROVE  SchedulerInv'
<1>1. TypeOK
  BY DEF SchedulerInv
<1>2. Spends("stops")
  BY DEF interrupt, query_raises
<1>3. budget' \in Budgets
  BY <1>1, <1>2, Spent
<1>4. interrupted' \in [Workers -> BOOLEAN]
  BY <1>1 DEF TypeOK, interrupt, query_raises
<1>5. Abandon(w) /\ pc' = [pc EXCEPT ![w] = "gather"] /\ UNCHANGED <<queue, had_work, tasks>>
  BY DEF interrupt, query_raises
<1> QED
  BY <1>3, <1>4, <1>5, Abandoned

LEMMA ExitKeeps ==
  ASSUME SchedulerInv, NEW w \in Workers, exit(w)
  PROVE  SchedulerInv'
<1>1. /\ pc[w] = "gather" /\ Unfinished(tasks[w]) = {} /\ pc' = [pc EXCEPT ![w] = "exited"]
      /\ UNCHANGED <<queue, lock, had_work, tasks, claimed, interrupted, budget>>
  BY DEF exit
<1>2. TypeOK'
  BY <1>1 DEF SchedulerInv, TypeOK, Await
<1>3. TasksInv'
  BY <1>1 DEF SchedulerInv, TasksInv
<1>4. LoopInv'
  BY <1>1 DEF SchedulerInv, TypeOK, LoopInv, Unfinished
<1>5. CapacityInv'
  BY <1>1 DEF SchedulerInv, TypeOK, CapacityInv, Busy
<1>6. \A p \in Places : HeldAt(p)' = HeldAt(p)
  BY <1>1 DEF HeldAt
<1>7. LockInv'
  BY <1>1, <1>6, HoldersSame DEF SchedulerInv
<1> QED
  BY <1>2, <1>3, <1>4, <1>5, <1>7 DEF SchedulerInv

-----------------------------------------------------------------------------
(***************************************************************************)
(* Runs.                                                                   *)
(***************************************************************************)
\* The task in a slot goes on to a phase in which it does not execute.
LEMMA TaskGoesOn ==
  ASSUME SchedulerInv, NEW w \in Workers, NEW s \in Slots, NEW t \in Task,
         t.phase \in {"released", "done"}, tasks[w][s].phase # "none",
         t.phase = "done" \/ tasks[w][s].phase = "executing",
         tasks' = [tasks EXCEPT ![w][s] = t],
         pc[w] = "exited" => tasks[w][s].phase \notin {"executing", "released"},
         UNCHANGED <<pc, claimed>>
  PROVE  /\ tasks' \in [Workers -> [Slots -> Task]] /\ TasksInv' /\ LoopInv' /\ CapacityInv'
         /\ <<w, s>> \in Places /\ HeldAt(<<w, s>>)' = None
         /\ \A p \in Places \ {<<w, s>>} : HeldAt(p)' = HeldAt(p)
<1>1. TypeOK /\ TasksInv /\ LoopInv /\ CapacityInv
  BY DEF SchedulerInv
<1>2. /\ tasks' \in [Workers -> [Slots -> Task]] /\ tasks'[w][s] = t
      /\ \A v \in Workers, r \in Slots : (v # w \/ r # s) => tasks'[v][r] = tasks[v][r]
  BY <1>1 DEF TypeOK
<1>3. TasksInv'
  BY <1>1, <1>2 DEF TasksInv, TaskOK
<1>4. \A v \in Workers : Busy(tasks'[v]) = Busy(tasks[v])
  BY <1>2 DEF Busy
<1>5. CapacityInv'
  BY <1>1, <1>4 DEF CapacityInv, Busy
<1>6. \A v \in Workers : pc[v] = "exited" => Unfinished(tasks'[v]) \subseteq Unfinished(tasks[v])
  BY <1>1, <1>2 DEF Unfinished, LoopInv
<1>7. LoopInv'
  <2>1. \A v \in Workers : pc[v] = "exited" => Unfinished(tasks'[v]) = {}
    BY <1>1, <1>6 DEF LoopInv
  <2> QED
    BY <1>1, <2>1 DEF LoopInv, Unfinished
<1>8. <<w, s>> \in Places /\ s # 0
  BY SchedulerAssumption DEF Places, Slots
<1>9. HeldAt(<<w, s>>)' = None
  BY <1>2, <1>8 DEF HeldAt
<1>10. \A p \in Places \ {<<w, s>>} : HeldAt(p)' = HeldAt(p)
  <2> SUFFICES ASSUME NEW p \in Places \ {<<w, s>>} PROVE HeldAt(p)' = HeldAt(p)
    OBVIOUS
  <2>1. p[1] \in Workers /\ (p[2] = 0 \/ p[2] \in Slots) /\ p = <<p[1], p[2]>>
    BY SchedulerAssumption DEF Places, Slots
  <2>2. CASE p[2] = 0
    BY <2>2 DEF HeldAt
  <2>3. CASE p[2] # 0
    <3>1. tasks'[p[1]][p[2]] = tasks[p[1]][p[2]]
      BY <1>2, <2>1, <2>3
    <3> QED
      BY <2>3, <3>1 DEF HeldAt
  <2> QED
    BY <2>2, <2>3
<1> QED
  BY <1>2, <1>3, <1>5, <1>7, <1>8, <1>9, <1>10

\* A task under way is not one of a worker that has exited.
LEMMA NotExited ==
  ASSUME SchedulerInv, NEW w \in Workers, NEW s \in Slots, tasks[w][s].phase \in {"executing", "released"}
  PROVE  pc[w] # "exited"
  BY DEF SchedulerInv, LoopInv, Unfinished

\* A run under way ends in one of two ways.
LEMMA RunEnds ==
  ASSUME SchedulerInv, NEW w \in Workers, NEW s \in Slots, tasks[w][s].phase = "executing",
         NEW t \in Task, t.phase \in {"released", "done"}, NEW c \in {"free", "left"},
         tasks' = [tasks EXCEPT ![w][s] = t],
         lock' = [lock EXCEPT ![tasks[w][s].of] = c],
         UNCHANGED <<pc, had_work, claimed, interrupted>>,
         QueueOK(queue'), budget' \in Budgets
  PROVE  SchedulerInv'
<1>1. TypeOK /\ TasksInv /\ LockInv
  BY DEF SchedulerInv
<1>2. pc[w] # "exited"
  BY NotExited
<1>3. /\ tasks' \in [Workers -> [Slots -> Task]] /\ TasksInv' /\ LoopInv' /\ CapacityInv'
      /\ <<w, s>> \in Places /\ HeldAt(<<w, s>>)' = None
      /\ \A p \in Places \ {<<w, s>>} : HeldAt(p)' = HeldAt(p)
  BY <1>2, TaskGoesOn
<1>4. PICK i \in Workflows : i = tasks[w][s].of
  BY <1>1 DEF TasksInv, TaskOK
<1>5. lock' \in [Workflows -> {"free", "held", "left"}] /\ lock'[i] = c
      /\ \A j \in Workflows \ {i} : lock'[j] = lock[j]
  BY <1>1, <1>4 DEF TypeOK
<1>6. TypeOK'
  BY <1>1, <1>3, <1>5 DEF TypeOK, QueueOK, Budgets
<1>7. HeldAt(<<w, s>>) = i
  <2>1. s # 0
    BY DEF Slots
  <2> QED
    BY <1>4, <2>1 DEF HeldAt
<1>8. LockInv'
  <2>1. <<w, s>> \in Places /\ HeldAt(<<w, s>>)' = None /\ \A p \in Places \ {<<w, s>>} : HeldAt(p)' = HeldAt(p)
    BY <1>3
  <2>2. lock'[i] # "held" /\ \A j \in Workflows \ {i} : lock'[j] = "held" <=> lock[j] = "held"
    BY <1>5
  <2> QED
    BY <1>1, <1>7, <2>1, <2>2, HolderLost
<1> QED
  BY <1>3, <1>6, <1>8 DEF SchedulerInv

LEMMA GiveUpKeeps ==
  ASSUME SchedulerInv, NEW w \in Workers, NEW s \in Slots, give_up(w, s)
  PROVE  SchedulerInv'
<1> DEFINE t == [tasks[w][s] EXCEPT !.phase = "released"]
<1>1. tasks[w][s] \in Task /\ QueueOK(queue) /\ budget \in Budgets
  BY DEF SchedulerInv, TypeOK, QueueOK, Budgets
<1>2. t \in Task /\ t.phase = "released"
  BY <1>1 DEF Task, NoTask, Done, give_up
<1>3. /\ tasks[w][s].phase = "executing" /\ tasks' = [tasks EXCEPT ![w][s] = t]
      /\ queue' = RemoveFirst(queue, tasks[w][s].of) /\ lock' = [lock EXCEPT ![tasks[w][s].of] = "free"]
      /\ UNCHANGED <<pc, had_work, claimed, interrupted, budget>>
  BY DEF give_up
<1>4. QueueOK(queue')
  BY <1>1, <1>3, RemovedFirst
<1> HIDE DEF t
<1>5. budget' \in Budgets
  BY <1>1, <1>3
<1> QED
  BY <1>2, <1>3, <1>4, <1>5, RunEnds

LEMMA RaiseKeeps ==
  ASSUME SchedulerInv, NEW w \in Workers, NEW s \in Slots, raise(w, s)
  PROVE  SchedulerInv'
<1>1. TypeOK /\ QueueOK(queue)
  BY DEF SchedulerInv, TypeOK, QueueOK
<1>2. Done \in Task /\ Done.phase = "done"
  BY DEF Done, Task
<1>3. /\ tasks[w][s].phase = "executing" /\ tasks' = [tasks EXCEPT ![w][s] = Done]
      /\ lock' = [lock EXCEPT ![tasks[w][s].of] = "left"] /\ Spends("raises")
      /\ UNCHANGED <<queue, pc, had_work, claimed, interrupted>>
  BY DEF raise
<1>4. budget' \in Budgets
  BY <1>1, <1>3, Spent
<1>5. QueueOK(queue')
  BY <1>1, <1>3
<1> QED
  BY <1>2, <1>3, <1>4, <1>5, RunEnds

LEMMA ReturnKeeps ==
  ASSUME SchedulerInv, NEW w \in Workers, NEW s \in Slots, return(w, s)
  PROVE  SchedulerInv'
<1>1. TypeOK /\ TasksInv /\ LockInv
  BY DEF SchedulerInv
<1>2. Done \in Task /\ Done.phase = "done"
  BY DEF Done, Task
<1>3. /\ tasks[w][s].phase = "released" /\ tasks' = [tasks EXCEPT ![w][s] = Done]
      /\ UNCHANGED <<queue, lock, pc, had_work, claimed, interrupted, budget>>
  BY DEF return
<1>4. pc[w] # "exited"
  BY <1>3, NotExited
<1>5. /\ tasks' \in [Workers -> [Slots -> Task]] /\ TasksInv' /\ LoopInv' /\ CapacityInv'
      /\ <<w, s>> \in Places /\ HeldAt(<<w, s>>)' = None
      /\ \A p \in Places \ {<<w, s>>} : HeldAt(p)' = HeldAt(p)
  BY <1>2, <1>3, <1>4, TaskGoesOn
<1>6. TypeOK'
  BY <1>1, <1>3, <1>5 DEF TypeOK
<1>7. HeldAt(<<w, s>>) = None
  <2>1. s # 0
    BY DEF Slots
  <2> QED
    BY <1>3, <2>1 DEF HeldAt
<1>8. LockInv'
  BY <1>1, <1>3, <1>5, <1>7, HoldersSame
<1> QED
  BY <1>5, <1>6, <1>8 DEF SchedulerInv

-----------------------------------------------------------------------------
(***************************************************************************)
(* What makes workflows due, and locks free.                               *)
(***************************************************************************)
LEMMA QueueChanges ==
  ASSUME SchedulerInv, QueueOK(queue'), budget' \in Budgets,
         lock' \in [Workflows -> {"free", "held", "left"}],
         \A i \in Workflows : lock'[i] = "held" <=> lock[i] = "held",
         UNCHANGED <<pc, had_work, tasks, claimed, interrupted>>
  PROVE  SchedulerInv'
<1>1. TypeOK /\ TasksInv /\ LoopInv /\ LockInv /\ CapacityInv
  BY DEF SchedulerInv
<1>2. TypeOK'
  BY <1>1 DEF TypeOK, QueueOK, Budgets
<1>3. TasksInv' /\ LoopInv'
  BY <1>1 DEF TasksInv, LoopInv, Unfinished
<1>4. CapacityInv'
  BY <1>1 DEF CapacityInv, Busy
<1>5. \A p \in Places : HeldAt(p)' = HeldAt(p)
  BY DEF HeldAt
<1>6. LockInv'
  BY <1>1, <1>5, HoldersSame
<1> QED
  BY <1>2, <1>3, <1>4, <1>6 DEF SchedulerInv

LEMMA WorkflowKeeps ==
  ASSUME SchedulerInv, NEW i \in Workflows, become_due(i) \/ signal(i) \/ lapse(i)
  PROVE  SchedulerInv'
<1>1. TypeOK /\ QueueOK(queue) /\ budget \in Budgets /\ lock \in [Workflows -> {"free", "held", "left"}]
  BY DEF SchedulerInv, TypeOK, QueueOK, Budgets
<1>2. CASE become_due(i)
  <2>1. queue' = Append(queue, i) /\ UNCHANGED <<lock, pc, had_work, tasks, claimed, interrupted, budget>>
    BY <1>2 DEF become_due
  <2>2. \A n \in 1..Len(queue) : queue[n] # i
    BY <1>2 DEF become_due, Queued
  <2>3. QueueOK(queue')
    BY <1>1, <2>1, <2>2, AppendedOnce
  <2>4. budget' \in Budgets /\ lock' \in [Workflows -> {"free", "held", "left"}]
    BY <1>1, <2>1
  <2> QED
    BY <2>1, <2>3, <2>4, QueueChanges
<1>3. CASE signal(i)
  <2> DEFINE r == RemoveFirst(queue, i)
  <2>1. queue' = Append(r, i) /\ Spends("signals") /\ UNCHANGED <<lock, pc, had_work, tasks, claimed, interrupted>>
    BY <1>3 DEF signal
  <2>2. QueueOK(r) /\ \A n \in 1..Len(r) : r[n] # i
    BY <1>1, RemovedFirst
  <2> HIDE DEF r
  <2>3. QueueOK(queue')
    BY <2>1, <2>2, AppendedOnce
  <2>4. budget' \in Budgets /\ lock' \in [Workflows -> {"free", "held", "left"}]
    BY <1>1, <2>1, Spent
  <2> QED
    BY <2>1, <2>3, <2>4, QueueChanges
<1>4. CASE lapse(i)
  <2>1. lock[i] = "left" /\ lock' = [lock EXCEPT ![i] = "free"]
        /\ UNCHANGED <<queue, pc, had_work, tasks, claimed, interrupted, budget>>
    BY <1>4 DEF lapse
  <2>2. lock' \in [Workflows -> {"free", "held", "left"}] /\ \A j \in Workflows : lock'[j] = "held" <=> lock[j] = "held"
    BY <1>1, <2>1
  <2>3. QueueOK(queue') /\ budget' \in Budgets
    BY <1>1, <2>1
  <2> QED
    BY <2>1, <2>2, <2>3, QueueChanges
<1> QED
  BY <1>2, <1>3, <1>4

-----------------------------------------------------------------------------
(***************************************************************************)
(* The invariant, and what follows from it.                                *)
(***************************************************************************)
LEMMA InitHolds ==
  ASSUME Init
  PROVE  SchedulerInv
<1>1. TypeOK
  <2>1. queue \in Seq(Workflows) /\ IsInjective(queue)
    BY DEF Init, IsInjective
  <2>2. tasks \in [Workers -> [Slots -> Task]]
    BY DEF Init, NoTask, Task
  <2> QED
    BY <2>1, <2>2, SchedulerAssumption DEF Init, TypeOK, Await
<1>2. TasksInv
  BY DEF Init, TasksInv, TaskOK, NoTask
<1>3. LoopInv
  BY DEF Init, LoopInv
<1>4. \A p \in Places : HeldAt(p) = None
  <2> SUFFICES ASSUME NEW p \in Places PROVE HeldAt(p) = None
    OBVIOUS
  <2>1. p[1] \in Workers /\ (p[2] = 0 \/ p[2] \in Slots)
    BY HeldSplit
  <2> QED
    BY <2>1 DEF Init, HeldAt, NoTask
<1>5. LockInv
  BY <1>4 DEF LockInv, Init
<1>6. CapacityInv
  <2> SUFFICES ASSUME NEW w \in Workers PROVE Cardinality(Busy(tasks[w])) < WorkerConcurrency /\ Cardinality(Busy(tasks[w])) <= WorkerConcurrency
    BY DEF CapacityInv
  <2>1. Busy(tasks[w]) = {}
    BY DEF Init, Busy, NoTask
  <2>2. Cardinality(Busy(tasks[w])) = 0
    BY <2>1, FS_EmptySet
  <2> QED
    BY <2>2, SchedulerAssumption
<1> QED
  BY <1>1, <1>2, <1>3, <1>5, <1>6 DEF SchedulerInv

LEMMA NextKeeps ==
  ASSUME SchedulerInv, [Next]_vars
  PROVE  SchedulerInv'
<1>1. CASE \E w \in Workers : Loop(w) \/ interrupt(w) \/ query_raises(w)
  <2>1. PICK w \in Workers : Loop(w) \/ interrupt(w) \/ query_raises(w)
    BY <1>1
  <2>2. CASE register_worker(w) \/ poll(w)
    BY <2>2, RegisterKeeps
  <2>3. CASE yield(w)
    BY <2>3, YieldKeeps
  <2>4. CASE claim_next_workflow(w)
    BY <2>4, ClaimKeeps
  <2>5. CASE claim_nothing(w)
    BY <2>5, ClaimNothingKeeps
  <2>6. CASE create_task(w)
    BY <2>6, CreateKeeps
  <2>7. CASE exit(w)
    BY <2>7, ExitKeeps
  <2>8. CASE interrupt(w) \/ query_raises(w)
    BY <2>8, InterruptKeeps
  <2> QED
    BY <2>1, <2>2, <2>3, <2>4, <2>5, <2>6, <2>7, <2>8 DEF Loop
<1>2. CASE \E w \in Workers, s \in Slots : give_up(w, s) \/ raise(w, s) \/ return(w, s)
  BY <1>2, GiveUpKeeps, RaiseKeeps, ReturnKeeps
<1>3. CASE \E i \in Workflows : become_due(i) \/ signal(i) \/ lapse(i)
  BY <1>3, WorkflowKeeps
<1>4. CASE UNCHANGED vars
  <2>1. /\ queue' = queue /\ budget' = budget /\ lock' = lock
        /\ UNCHANGED <<pc, had_work, tasks, claimed, interrupted>>
    BY <1>4 DEF vars
  <2>2. QueueOK(queue) /\ budget \in Budgets /\ lock \in [Workflows -> {"free", "held", "left"}]
    BY DEF SchedulerInv, TypeOK, QueueOK, Budgets
  <2> QED
    BY <2>1, <2>2, QueueChanges
<1> QED
  BY <1>1, <1>2, <1>3, <1>4 DEF Next

LEMMA SchedulerInvariant == Spec => []SchedulerInv
<1> QED
  BY InitHolds, NextKeeps, PTL DEF Spec

\* The variables of scheduler.py's loop keep their types, and no workflow is queued
\* twice, for any number of workers and workflows.
THEOREM SchedulerTyped == Spec => []TypeOK
<1>1. SchedulerInv => TypeOK
  BY DEF SchedulerInv
<1> QED
  BY <1>1, SchedulerInvariant, PTL

\* scheduler.py's check for capacity suffices: the check, the claim it permits and the
\* task made from it lie in different awaits, and tasks end in between, but a worker never
\* has more runs under way than worker_concurrency.
THEOREM CapacityKept == Spec => []WithinCapacity
<1>1. ASSUME SchedulerInv, NEW w \in Workers PROVE Cardinality(Unfinished(tasks[w])) <= WorkerConcurrency
  <2>1. /\ Unfinished(tasks[w]) \in SUBSET Busy(tasks[w]) /\ Busy(tasks[w]) \in SUBSET Slots
    BY DEF Unfinished, Busy
  <2>2. /\ Cardinality(Unfinished(tasks[w])) <= Cardinality(Busy(tasks[w]))
        /\ Cardinality(Unfinished(tasks[w])) \in Nat /\ Cardinality(Busy(tasks[w])) \in Nat
    BY <2>1, FewerBusy
  <2>3. Cardinality(Busy(tasks[w])) <= WorkerConcurrency
    BY <1>1 DEF SchedulerInv, CapacityInv
  <2> QED
    BY <2>2, <2>3, SchedulerAssumption
<1>2. SchedulerInv => WithinCapacity
  BY <1>1 DEF WithinCapacity
<1> QED
  BY <1>2, SchedulerInvariant, PTL

\* However worker.py's process ends, when it closes its pools no task is under way and
\* no claim is without its task.
THEOREM OrderlyExit == Spec => []NothingAfterExit
<1>1. SchedulerInv => NothingAfterExit
  BY DEF SchedulerInv, LoopInv, NothingAfterExit
<1> QED
  BY <1>1, SchedulerInvariant, PTL

\* Every lock that is kept alive has exactly one holder, a claim just committed or a run
\* under way, whatever is cancelled or raises meanwhile.
THEOREM HeldOnce == Spec => []HeldByOne
<1>1. ASSUME SchedulerInv, NEW i \in Workflows
      PROVE lock[i] = "held" <=>
              Cardinality({w \in Workers : claimed[w] = i}
                \cup {ws \in Workers \X Slots : tasks[ws[1]][ws[2]] = [phase |-> "executing", of |-> i]}) = 1
  <2> DEFINE A == {w \in Workers : claimed[w] = i}
             B == {ws \in Workers \X Slots : tasks[ws[1]][ws[2]] = [phase |-> "executing", of |-> i]}
  <2>1. TypeOK /\ LockInv /\ i # None
    BY <1>1, SchedulerAssumption DEF SchedulerInv
  <2>2. \A w \in Workers : w \in A <=> <<w, 0>> \in Places /\ HeldAt(<<w, 0>>) = i
    BY SchedulerAssumption DEF Places, HeldAt
  <2>3. \A w \in Workers, s \in Slots : <<w, s>> \in B <=> <<w, s>> \in Places /\ HeldAt(<<w, s>>) = i
    <3> SUFFICES ASSUME NEW w \in Workers, NEW s \in Slots
                 PROVE <<w, s>> \in B <=> <<w, s>> \in Places /\ HeldAt(<<w, s>>) = i
      OBVIOUS
    <3>1. <<w, s>> \in Places /\ s # 0
      BY SchedulerAssumption DEF Places, Slots
    <3>2. HeldAt(<<w, s>>) = i <=> tasks[w][s].phase = "executing" /\ tasks[w][s].of = i
      BY <2>1, <3>1 DEF HeldAt
    <3>3. tasks[w][s] \in Task
      BY <2>1 DEF TypeOK
    <3>4. tasks[w][s] = [phase |-> "executing", of |-> i] <=> tasks[w][s].phase = "executing" /\ tasks[w][s].of = i
      BY <3>3 DEF Task, NoTask, Done
    <3> QED
      BY <3>1, <3>2, <3>4
  <2>4. \A x \in A : x \in Workers
    OBVIOUS
  <2>5. \A x \in B : \E w \in Workers, s \in Slots : x = <<w, s>>
    OBVIOUS
  <2> HIDE DEF A, B
  <2>6. ASSUME lock[i] = "held" PROVE Cardinality(A \cup B) = 1
    <3>1. PICK p \in Places : HeldAt(p) = i
      BY <2>1, <2>6 DEF LockInv
    <3>2. \A q \in Places : HeldAt(q) = i => q = p
      BY <2>1, <3>1 DEF LockInv
    <3>3. p[1] \in Workers /\ (p[2] = 0 \/ p[2] \in Slots) /\ p = <<p[1], p[2]>>
      BY SchedulerAssumption DEF Places, Slots
    <3>4. \A s \in Slots : s # 0
      BY DEF Slots
    <3>5. CASE p[2] = 0
      <4>0. p = <<p[1], 0>>
        BY <3>3, <3>5
      <4>1. A = {p[1]}
        <5>1. p[1] \in A
          BY <2>2, <3>1, <3>3, <4>0
        <5>2. ASSUME NEW x \in A PROVE x = p[1]
          <6>1. x \in Workers /\ <<x, 0>> \in Places /\ HeldAt(<<x, 0>>) = i
            BY <2>2, <2>4
          <6>2. <<x, 0>> = p
            BY <3>2, <6>1
          <6> QED
            BY <6>2
        <5> QED
          BY <5>1, <5>2
      <4>2. B = {}
        BY <2>3, <2>5, <3>2, <3>3, <3>4, <3>5
      <4>3. A \cup B = {p[1]}
        BY <4>1, <4>2
      <4> QED
        BY <4>3, FS_Singleton
    <3>6. CASE p[2] \in Slots
      <4>1. A = {}
        <5>1. ASSUME NEW x \in A PROVE FALSE
          <6>1. x \in Workers /\ <<x, 0>> \in Places /\ HeldAt(<<x, 0>>) = i
            BY <2>2, <2>4
          <6>2. <<x, 0>> = p
            BY <3>2, <6>1
          <6> QED
            BY <3>4, <3>6, <6>2
        <5> QED
          BY <5>1
      <4>2. B = {p}
        BY <2>3, <2>5, <3>1, <3>2, <3>3, <3>6
      <4>3. A \cup B = {p}
        BY <4>1, <4>2
      <4> QED
        BY <4>3, FS_Singleton
    <3> QED
      BY <3>3, <3>5, <3>6
  <2>7. ASSUME Cardinality(A \cup B) = 1 PROVE lock[i] = "held"
    <3>1. A \cup B # {}
      BY <2>7, FS_EmptySet
    <3>2. \E p \in Places : HeldAt(p) = i
      <4>1. CASE \E x : x \in A
        BY <2>2, <2>4, <4>1
      <4>2. CASE \E x : x \in B
        <5>1. PICK x : x \in B
          BY <4>2
        <5>2. PICK w \in Workers, s \in Slots : x = <<w, s>>
          BY <2>5, <5>1
        <5>3. <<w, s>> \in Places /\ HeldAt(<<w, s>>) = i
          BY <2>3, <5>1, <5>2
        <5> QED
          BY <5>3
      <4> QED
        BY <3>1, <4>1, <4>2
    <3> QED
      BY <2>1, <3>2 DEF LockInv
  <2>8. lock[i] = "held" <=> Cardinality(A \cup B) = 1
    BY <2>6, <2>7
  <2> QED
    BY <2>8 DEF A, B
<1>2. SchedulerInv => HeldByOne
  BY <1>1 DEF HeldByOne
<1> QED
  BY <1>2, SchedulerInvariant, PTL
=============================================================================
