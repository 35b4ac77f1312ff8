------------------------- MODULE ActivityPoolProof -------------------------
(***************************************************************************)
(* What ActivityPool keeps for any number of runs, attempts and deaths and *)
(* pools of any size: its types, one body per run, and a bound on the      *)
(* healthy pools that are thrown away.                                     *)
(***************************************************************************)
EXTENDS ActivityPool, FiniteSetTheorems, SequenceTheorems, TLAPS

\* What processes have been given, or are about to get.
Handed(pool) == ToSet(pool.calls) \cup pool.bodies \cup (pool.dead \ {Idle})

\* Nothing is twice in a pool.
PoolOK(pool) ==
  /\ IsInjective(pool.work) /\ IsInjective(pool.calls)
  /\ ToSet(pool.calls) \cap pool.bodies = {}
  /\ (ToSet(pool.calls) \cup pool.bodies) \cap pool.dead = {}

\* A future is pending until its attempt is handed out.
FuturesOK(pool, fs) ==
  /\ \A a \in ToSet(pool.work) : fs[a] \in {"pending", "cancelled"}
  /\ \A a \in Handed(pool) : fs[a] = "running"

\* No attempt is in two pools.
PoolsOK(ps, fs) ==
  /\ Len(ps) >= 1
  /\ \A g \in 1..Len(ps) : PoolOK(ps[g]) /\ FuturesOK(ps[g], fs)
  /\ \A g, h \in 1..Len(ps) : g # h => Held(ps[g]) \cap Held(ps[h]) \subseteq {Idle}
PoolsInv == PoolsOK(pools, future)

Awaiting(a) == run[a[1]] = "waiting" /\ attempt[a[1]] = a[2]

\* Who submits has no attempt under way but those that wait_for has given up.
RunsInv ==
  /\ \A r \in Runs : Waiting(r) => Awaited(r) \in Attempt
  /\ \A a \in Attempt :
       /\ a[2] > attempt[a[1]] => future[a] = "none"
       /\ future[a] \in {"pending", "running"} => a \in given_up \/ Awaiting(a)

\* Pools that a death has spoiled, and broken futures that a run has met.
Spoilt(pool) == pool.status = "broken" \/ pool.dead # {}
Spoiled == {g \in 1..Len(pools) : Spoilt(pools[g])}
Reported == {a \in Attempt : future[a] = "broken" /\ ~Awaiting(a)}

\* Every pool but the current one was replaced because it was broken, or by a report.
DamageInv ==
  /\ Len(pools) <= 1 + Cardinality(Spoiled \ {Len(pools)}) + Cardinality(Reported)
  /\ Cardinality(Spoiled) <= deaths

PoolInv == TypeOK /\ PoolsInv /\ RunsInv /\ DamageInv

-----------------------------------------------------------------------------
(***************************************************************************)
(* Queues without repetitions.                                             *)
(***************************************************************************)
LEMMA EmptyOnce == ToSet(<<>>) = {} /\ IsInjective(<<>>)
  BY DEF ToSet, IsInjective

LEMMA TailOnce ==
  ASSUME NEW S, NEW q \in Seq(S), q # <<>>, IsInjective(q)
  PROVE  /\ Tail(q) \in Seq(S) /\ IsInjective(Tail(q)) /\ Head(q) \in S
         /\ Head(q) \in ToSet(q) /\ ToSet(Tail(q)) = ToSet(q) \ {Head(q)}
<1>1. PICK l \in Nat : l = Len(q)
  OBVIOUS
<1>2. l >= 1
  BY <1>1
<1>3. /\ Tail(q) \in Seq(S) /\ Len(Tail(q)) = l - 1 /\ DOMAIN Tail(q) = 1..(l - 1)
      /\ \A n \in 1..(l - 1) : Tail(q)[n] = q[n + 1]
  BY <1>1, <1>2
<1>4. Head(q) = q[1] /\ DOMAIN q = 1..l /\ 1 \in 1..l
  BY <1>1, <1>2
<1>5. \A m, n \in 1..l : q[m] = q[n] => m = n
  BY <1>4 DEF IsInjective
<1>6. IsInjective(Tail(q))
  <2> SUFFICES ASSUME NEW m \in 1..(l - 1), NEW n \in 1..(l - 1), Tail(q)[m] = Tail(q)[n] PROVE m = n
    BY <1>3 DEF IsInjective
  <2>1. m + 1 \in 1..l /\ n + 1 \in 1..l /\ q[m + 1] = q[n + 1]
    BY <1>3
  <2> QED
    BY <1>5, <2>1
<1>7. ToSet(Tail(q)) = ToSet(q) \ {Head(q)}
  <2>1. ASSUME NEW x \in ToSet(Tail(q)) PROVE x \in ToSet(q) \ {Head(q)}
    <3>1. PICK n \in 1..(l - 1) : x = q[n + 1]
      BY <1>3 DEF ToSet
    <3>2. n + 1 \in 1..l /\ n + 1 # 1
      OBVIOUS
    <3> QED
      BY <1>4, <1>5, <3>1, <3>2 DEF ToSet
  <2>2. ASSUME NEW x \in ToSet(q) \ {Head(q)} PROVE x \in ToSet(Tail(q))
    <3>1. PICK n \in 1..l : x = q[n]
      BY <1>4 DEF ToSet
    <3>2. n # 1
      BY <1>4, <3>1
    <3>3. n - 1 \in 1..(l - 1) /\ (n - 1) + 1 = n
      BY <3>2
    <3> QED
      BY <1>3, <3>1, <3>3 DEF ToSet
  <2> QED
    BY <2>1, <2>2
<1>8. Head(q) \in S /\ Head(q) \in ToSet(q)
  BY <1>1, <1>4 DEF ToSet
<1> QED
  BY <1>3, <1>6, <1>7, <1>8

LEMMA AppendOnce ==
  ASSUME NEW S, NEW q \in Seq(S), NEW x \in S, x \notin ToSet(q), IsInjective(q)
  PROVE  Append(q, x) \in Seq(S) /\ IsInjective(Append(q, x)) /\ ToSet(Append(q, x)) = ToSet(q) \cup {x}
<1> DEFINE r == Append(q, x)
<1>1. PICK l \in Nat : l = Len(q)
  OBVIOUS
<1>2. /\ r \in Seq(S) /\ DOMAIN r = 1..(l + 1) /\ DOMAIN q = 1..l
      /\ r[l + 1] = x /\ \A n \in 1..l : r[n] = q[n]
  BY <1>1
<1> HIDE DEF r
<1>3. \A m, n \in 1..l : q[m] = q[n] => m = n
  BY <1>2 DEF IsInjective
<1>4. \A n \in 1..l : q[n] # x
  BY <1>2 DEF ToSet
<1>5. \A n \in 1..(l + 1) : n = l + 1 \/ n \in 1..l
  OBVIOUS
<1>6. IsInjective(r)
  BY <1>2, <1>3, <1>4, <1>5 DEF IsInjective
<1>7. ToSet(r) = ToSet(q) \cup {x}
  <2>1. l + 1 \in 1..(l + 1) /\ \A n \in 1..l : n \in 1..(l + 1)
    OBVIOUS
  <2> QED
    BY <1>2, <1>5, <2>1 DEF ToSet
<1> QED
  BY <1>2, <1>6, <1>7 DEF r

LEMMA QueueIn ==
  ASSUME NEW S, NEW q \in Seq(S)
  PROVE  ToSet(q) \subseteq S
  BY DEF ToSet

-----------------------------------------------------------------------------
(***************************************************************************)
(* Replacing the current pool.                                             *)
(***************************************************************************)
LEMMA ShutDownOK ==
  ASSUME NEW pool \in Pool
  PROVE  /\ ShutDown(pool) \in Pool
         /\ ShutDown(pool).work = pool.work /\ ShutDown(pool).calls = pool.calls
         /\ ShutDown(pool).bodies = pool.bodies /\ ShutDown(pool).dead = pool.dead
         /\ ShutDown(pool).status = "broken" <=> pool.status = "broken"
  BY DEF ShutDown, Pool

LEMMA NewPoolOK == NewPool \in Pool /\ Held(NewPool) = {} /\ Handed(NewPool) = {} /\ PoolOK(NewPool)
<1>1. NewPool \in Pool
  <2>1. <<>> \in Seq(Attempt)
    OBVIOUS
  <2> QED
    BY <2>1 DEF NewPool, Pool
<1>2. NewPool.work = <<>> /\ NewPool.calls = <<>> /\ NewPool.bodies = {} /\ NewPool.dead = {}
  BY DEF NewPool
<1> QED
  BY <1>1, <1>2, EmptyOnce DEF Held, Handed, PoolOK

LEMMA Replaced ==
  ASSUME NEW ps \in Seq(Pool), Len(ps) >= 1
  PROVE  /\ _replace_pool(ps) \in Seq(Pool) /\ Len(_replace_pool(ps)) = Len(ps) + 1
         /\ \A g \in 1..(Len(ps) - 1) : _replace_pool(ps)[g] = ps[g]
         /\ _replace_pool(ps)[Len(ps)] = ShutDown(ps[Len(ps)])
         /\ _replace_pool(ps)[Len(ps) + 1] = NewPool
<1>1. PICK l \in Nat : l = Len(ps)
  OBVIOUS
<1>2. l >= 1 /\ l \in 1..l /\ ps[l] \in Pool
  BY <1>1
<1>3. ShutDown(ps[l]) \in Pool /\ NewPool \in Pool
  BY <1>2, NewPoolOK, ShutDownOK
<1> DEFINE f == Front(ps)
           r == Append(f, ShutDown(ps[l]))
<1>4. f \in Seq(Pool) /\ Len(f) = l - 1 /\ \A g \in 1..(l - 1) : f[g] = ps[g]
  BY <1>1, <1>2 DEF Front
<1> HIDE DEF f
<1>5. /\ r \in Seq(Pool) /\ Len(r) = l /\ r[l] = ShutDown(ps[l])
      /\ \A g \in 1..(l - 1) : r[g] = ps[g]
  <2>1. (l - 1) + 1 = l
    BY <1>2
  <2> QED
    BY <1>2, <1>3, <1>4, <2>1
<1>6. _replace_pool(ps) = Append(r, NewPool)
  BY <1>1 DEF _replace_pool, Last, f
<1> HIDE DEF r
<1>7. /\ Append(r, NewPool) \in Seq(Pool) /\ Len(Append(r, NewPool)) = l + 1
      /\ Append(r, NewPool)[l + 1] = NewPool /\ \A g \in 1..l : Append(r, NewPool)[g] = r[g]
  BY <1>3, <1>5
<1>8. l \in 1..l /\ \A g \in 1..(l - 1) : g \in 1..l
  BY <1>2
<1> QED
  BY <1>1, <1>5, <1>6, <1>7, <1>8

-----------------------------------------------------------------------------
(***************************************************************************)
(* Facts of every state.                                                   *)
(***************************************************************************)
LEMMA IdleApart == Idle \notin Attempt
  BY ActivityPoolAssumption DEF Attempt

LEMMA AttemptsFinite == IsFiniteSet(Attempt)
<1>1. IsFiniteSet(Runs) /\ IsFiniteSet(1..MaxAttempts)
  BY ActivityPoolAssumption, FS_Interval
<1> QED
  BY <1>1, FS_Product DEF Attempt

\* What a pool holds: in its work a future not handed out, elsewhere one that runs.
LEMMA HeldFuture ==
  ASSUME NEW pool \in Pool, NEW fs, FuturesOK(pool, fs), NEW a \in Held(pool), a # Idle
  PROVE  a \in Attempt /\ fs[a] \in {"pending", "cancelled", "running"}
<1>1. ToSet(pool.work) \subseteq Attempt /\ ToSet(pool.calls) \subseteq Attempt
  BY QueueIn DEF Pool
<1>2. pool.bodies \subseteq Attempt /\ pool.dead \subseteq Attempt \cup {Idle}
  BY DEF Pool
<1> QED
  BY <1>1, <1>2 DEF Held, Handed, FuturesOK

\* The numbers of DamageInv are numbers.
LEMMA DamageNumbers ==
  ASSUME TypeOK
  PROVE  /\ Len(pools) \in Nat /\ deaths \in Nat
         /\ IsFiniteSet(Spoiled) /\ Cardinality(Spoiled) \in Nat
         /\ IsFiniteSet(Spoiled \ {Len(pools)}) /\ Cardinality(Spoiled \ {Len(pools)}) \in Nat
         /\ Cardinality(Spoiled \ {Len(pools)}) <= Cardinality(Spoiled)
         /\ IsFiniteSet(Reported) /\ Cardinality(Reported) \in Nat
<1>1. Len(pools) \in Nat /\ deaths \in Nat
  BY ActivityPoolAssumption DEF TypeOK
<1>2. IsFiniteSet(1..Len(pools)) /\ Spoiled \subseteq 1..Len(pools)
  BY <1>1, FS_Interval DEF Spoiled
<1>3. IsFiniteSet(Spoiled)
  BY <1>2, FS_Subset
<1>4. Spoiled \ {Len(pools)} \subseteq Spoiled
  OBVIOUS
<1>5. IsFiniteSet(Spoiled \ {Len(pools)}) /\ Cardinality(Spoiled \ {Len(pools)}) <= Cardinality(Spoiled)
  BY <1>3, <1>4, FS_Subset
<1>6. Reported \subseteq Attempt
  BY DEF Reported
<1>7. IsFiniteSet(Reported)
  BY <1>6, AttemptsFinite, FS_Subset
<1> QED
  BY <1>1, <1>3, <1>5, <1>7, FS_CardinalityType

\* The same of the next state.
LEMMA DamageNumbersNext ==
  ASSUME TypeOK'
  PROVE  /\ Len(pools') \in Nat /\ deaths' \in Nat
         /\ IsFiniteSet(Spoiled') /\ Cardinality(Spoiled') \in Nat
         /\ IsFiniteSet(Spoiled' \ {Len(pools')}) /\ Cardinality(Spoiled' \ {Len(pools')}) \in Nat
         /\ IsFiniteSet(Reported') /\ Cardinality(Reported') \in Nat
<1>1. Len(pools') \in Nat /\ deaths' \in Nat
  BY ActivityPoolAssumption DEF TypeOK
<1>2. IsFiniteSet(1..Len(pools')) /\ Spoiled' \subseteq 1..Len(pools')
  BY <1>1, FS_Interval DEF Spoiled
<1>3. IsFiniteSet(Spoiled')
  BY <1>2, FS_Subset
<1>4. Spoiled' \ {Len(pools')} \subseteq Spoiled'
  OBVIOUS
<1>5. IsFiniteSet(Spoiled' \ {Len(pools')})
  BY <1>3, <1>4, FS_Subset
<1>6. Reported' \subseteq Attempt
  BY DEF Reported
<1>7. IsFiniteSet(Reported')
  BY <1>6, AttemptsFinite, FS_Subset
<1> QED
  BY <1>1, <1>3, <1>5, <1>7, FS_CardinalityType

\* No pool is replaced, and what was spoiled or reported stays so.
LEMMA DamageKept ==
  ASSUME TypeOK, TypeOK', DamageInv, Len(pools') = Len(pools),
         Spoiled \subseteq Spoiled', Reported \subseteq Reported', Cardinality(Spoiled') <= deaths'
  PROVE  DamageInv'
<1>1. /\ Len(pools') \in Nat
      /\ IsFiniteSet(Spoiled' \ {Len(pools')}) /\ Cardinality(Spoiled' \ {Len(pools')}) \in Nat
      /\ IsFiniteSet(Reported') /\ Cardinality(Reported') \in Nat
  BY DamageNumbersNext
<1>2. Cardinality(Spoiled \ {Len(pools)}) \in Nat /\ Cardinality(Reported) \in Nat
  BY DamageNumbers
<1>3. Spoiled \ {Len(pools)} \subseteq Spoiled' \ {Len(pools')}
  OBVIOUS
<1>4. Cardinality(Spoiled \ {Len(pools)}) <= Cardinality(Spoiled' \ {Len(pools')})
  BY <1>1, <1>3, FS_Subset
<1>5. Cardinality(Reported) <= Cardinality(Reported')
  BY <1>1, FS_Subset
<1>6. Len(pools') <= 1 + Cardinality(Spoiled' \ {Len(pools')}) + Cardinality(Reported')
  <2>1. Len(pools) <= 1 + Cardinality(Spoiled \ {Len(pools)}) + Cardinality(Reported)
    BY DEF DamageInv
  <2> QED
    BY <1>1, <1>2, <1>4, <1>5, <2>1
<1> QED
  BY <1>6 DEF DamageInv

-----------------------------------------------------------------------------
(***************************************************************************)
(* One pool changes.                                                       *)
(***************************************************************************)
Open == {"new", "open", "broken"}
Future == {"none", "pending", "running", "finished", "broken", "cancelled"}

LEMMA PoolChanges ==
  ASSUME PoolInv, NEW g \in 1..Len(pools), NEW pool \in Pool, pools' = [pools EXCEPT ![g] = pool],
         UNCHANGED <<run, attempt, given_up>>,
         PoolOK(pool), FuturesOK(pool, future'), Held(pool) \subseteq Held(pools[g]) \cup {Idle},
         pools[g].status \in Open => pool.status \in Open,
         future' \in [Attempt -> Future],
         \A a \in Attempt : future'[a] # future[a] => a \in Held(pools[g]),
         \A a \in Attempt : future'[a] \in {"pending", "running"} => future[a] \in {"pending", "running"},
         \/ deaths' = deaths /\ (Spoilt(pool) <=> Spoilt(pools[g]))
         \/ deaths < MaxDeaths /\ deaths' = deaths + 1 /\ Spoilt(pool) /\ ~Spoilt(pools[g])
  PROVE  PoolInv'
<1>1. TypeOK /\ PoolsInv /\ RunsInv /\ DamageInv
  BY DEF PoolInv
<1>2. /\ pools \in Seq(Pool) /\ pools' \in Seq(Pool) /\ Len(pools') = Len(pools)
      /\ pools'[g] = pool /\ \A h \in 1..Len(pools) : h # g => pools'[h] = pools[h]
      /\ \A h \in 1..Len(pools) : pools[h] \in Pool
  BY <1>1 DEF TypeOK
<1>3. PICK l \in Nat : l = Len(pools) /\ l >= 1
  <2>1. Len(pools) \in Nat
    BY <1>2
  <2>2. Len(pools) >= 1
    BY <1>1 DEF PoolsInv, PoolsOK
  <2> QED
    BY <2>1, <2>2
<1>4. l \in 1..l
  BY <1>3
<1>5. TypeOK'
  <2>1. Last(pools') = pools'[l] /\ Last(pools) = pools[l]
    BY <1>2, <1>3 DEF Last
  <2>2. Last(pools').status \in Open
    BY <1>1, <1>2, <1>3, <1>4, <2>1 DEF TypeOK, Current, Open
  <2>3. deaths' \in 0..MaxDeaths
    BY <1>1, ActivityPoolAssumption DEF TypeOK
  <2> QED
    BY <1>1, <1>2, <2>2, <2>3 DEF TypeOK, Current, Open, Future
<1>6. PoolsInv'
  <2>1. \A h \in 1..l : PoolOK(pools'[h]) /\ FuturesOK(pools'[h], future')
    <3> SUFFICES ASSUME NEW h \in 1..l, h # g PROVE PoolOK(pools'[h]) /\ FuturesOK(pools'[h], future')
      BY <1>2
    <3>1. /\ PoolOK(pools[h]) /\ FuturesOK(pools[h], future) /\ pools[h] \in Pool /\ pools'[h] = pools[h]
          /\ Held(pools[h]) \cap Held(pools[g]) \subseteq {Idle}
      BY <1>1, <1>2, <1>3 DEF PoolsInv, PoolsOK
    <3>2. \A a \in Held(pools[h]) : a # Idle => a \in Attempt /\ future'[a] = future[a]
      BY <3>1, HeldFuture
    <3>3. \A a \in ToSet(pools[h].work) : a \in Held(pools[h]) /\ a # Idle
      BY <3>1, QueueIn, IdleApart DEF Pool, Held
    <3>4. \A a \in Handed(pools[h]) : a \in Held(pools[h]) /\ a # Idle
      <4>1. ToSet(pools[h].calls) \subseteq Attempt /\ pools[h].bodies \subseteq Attempt
        BY <3>1, QueueIn DEF Pool
      <4> QED
        BY <4>1, IdleApart DEF Handed, Held
    <3> QED
      BY <3>1, <3>2, <3>3, <3>4 DEF FuturesOK
  <2>2. \A h, k \in 1..l : h # k => Held(pools'[h]) \cap Held(pools'[k]) \subseteq {Idle}
    <3>1. \A h \in 1..l : Held(pools'[h]) \subseteq Held(pools[h]) \cup {Idle}
      BY <1>2, <1>3
    <3>2. \A h, k \in 1..l : h # k => Held(pools[h]) \cap Held(pools[k]) \subseteq {Idle}
      BY <1>1, <1>3 DEF PoolsInv, PoolsOK
    <3> HIDE <1>2
    <3> QED
      BY <3>1, <3>2
  <2> QED
    BY <1>2, <1>3, <2>1, <2>2 DEF PoolsInv, PoolsOK, PoolOK, FuturesOK, Held, Handed
<1>7. /\ PoolOK(pools[g]) /\ FuturesOK(pools[g], future) /\ pools[g] \in Pool
  BY <1>1, <1>2 DEF PoolsInv, PoolsOK
<1>8. \A a \in Attempt : future'[a] # future[a] => future[a] \in {"pending", "cancelled", "running"}
  BY <1>7, HeldFuture, IdleApart
<1>9. RunsInv'
  <2> SUFFICES ASSUME NEW a \in Attempt
               PROVE /\ a[2] > attempt'[a[1]] => future'[a] = "none"
                     /\ future'[a] \in {"pending", "running"} => a \in given_up' \/ Awaiting(a)'
    BY <1>1 DEF RunsInv, Waiting, Awaited
  <2>1. /\ a[2] > attempt[a[1]] => future[a] = "none"
        /\ future[a] \in {"pending", "running"} => a \in given_up \/ Awaiting(a)
    BY <1>1 DEF RunsInv
  <2>2. Awaiting(a)' <=> Awaiting(a)
    BY DEF Awaiting
  <2> QED
    BY <1>8, <2>1, <2>2
<1>10. Reported \subseteq Reported'
  BY <1>8 DEF Reported, Awaiting
<1>11. DamageInv'
  <2>1. \A h \in 1..l : h # g => (Spoilt(pools'[h]) <=> Spoilt(pools[h]))
    BY <1>2, <1>3
  <2>2. Spoiled = {h \in 1..l : Spoilt(pools[h])} /\ Spoiled' = {h \in 1..l : Spoilt(pools'[h])}
    BY <1>2, <1>3 DEF Spoiled, Spoilt
  <2>3. IsFiniteSet(Spoiled) /\ Cardinality(Spoiled) \in Nat /\ deaths \in Nat /\ Cardinality(Spoiled) <= deaths
    BY <1>1, DamageNumbers DEF DamageInv
  <2>4. CASE deaths' = deaths /\ (Spoilt(pool) <=> Spoilt(pools[g]))
    <3>1. Spoiled' = Spoiled
      BY <1>2, <1>3, <2>1, <2>2, <2>4
    <3>2. Spoiled \subseteq Spoiled' /\ Cardinality(Spoiled') <= deaths'
      BY <2>3, <2>4, <3>1
    <3> QED
      BY <1>1, <1>2, <1>5, <1>10, <3>2, DamageKept
  <2>5. CASE deaths' = deaths + 1 /\ Spoilt(pool) /\ ~Spoilt(pools[g])
    <3>1. Spoiled' = Spoiled \cup {g} /\ g \notin Spoiled
      BY <1>2, <1>3, <2>1, <2>2, <2>5
    <3>2. Cardinality(Spoiled') = Cardinality(Spoiled) + 1
      BY <2>3, <3>1, FS_AddElement
    <3>3. Spoiled \subseteq Spoiled' /\ Cardinality(Spoiled') <= deaths'
      BY <2>3, <2>5, <3>1, <3>2
    <3> QED
      BY <1>1, <1>2, <1>5, <1>10, <3>3, DamageKept
  <2> QED
    BY <2>4, <2>5
<1> QED
  BY <1>5, <1>6, <1>9, <1>11 DEF PoolInv

-----------------------------------------------------------------------------
(***************************************************************************)
(* The manager thread and the processes of a pool.                         *)
(***************************************************************************)
\* What PoolInv says of one pool.
LEMMA OnePool ==
  ASSUME PoolInv, NEW g \in 1..Len(pools)
  PROVE  /\ pools[g] \in Pool /\ PoolOK(pools[g]) /\ FuturesOK(pools[g], future)
         /\ future \in [Attempt -> Future] /\ deaths \in Nat
         /\ ToSet(pools[g].work) \subseteq Attempt /\ ToSet(pools[g].calls) \subseteq Attempt
         /\ pools[g].bodies \subseteq Attempt /\ Idle \notin Attempt
<1>1. pools[g] \in Pool /\ future \in [Attempt -> Future]
  BY DEF PoolInv, TypeOK, Future
<1>2. deaths \in Nat
  BY ActivityPoolAssumption DEF PoolInv, TypeOK
<1> QED
  BY <1>1, <1>2, QueueIn, IdleApart DEF PoolInv, PoolsInv, PoolsOK, Pool

LEMMA FeedKeeps ==
  ASSUME PoolInv, NEW g \in 1..Len(pools), feed(g)
  PROVE  PoolInv'
<1> DEFINE pool == pools[g]
           a == Head(pool.work)
           dropped == [pool EXCEPT !.work = Tail(@)]
           moved == [pool EXCEPT !.work = Tail(@), !.calls = Append(@, a)]
<1>1. /\ pool \in Pool /\ PoolOK(pool) /\ FuturesOK(pool, future)
      /\ future \in [Attempt -> Future] /\ deaths \in Nat /\ Idle \notin Attempt
      /\ ToSet(pool.work) \subseteq Attempt /\ ToSet(pool.calls) \subseteq Attempt /\ pool.bodies \subseteq Attempt
  BY OnePool
<1>2. pool.work \in Seq(Attempt) /\ pool.calls \in Seq(Attempt) /\ pool.work # <<>> /\ deaths' = deaths
  BY <1>1 DEF feed, Pool
<1>3. /\ Tail(pool.work) \in Seq(Attempt) /\ IsInjective(Tail(pool.work)) /\ a \in Attempt
      /\ a \in ToSet(pool.work) /\ ToSet(Tail(pool.work)) = ToSet(pool.work) \ {a}
  BY <1>1, <1>2, TailOnce DEF PoolOK
<1>4. CASE future[a] = "cancelled" /\ Changes(g, dropped) /\ UNCHANGED future
  <2>1. /\ dropped \in Pool /\ dropped.work = Tail(pool.work) /\ dropped.calls = pool.calls
        /\ dropped.bodies = pool.bodies /\ dropped.dead = pool.dead /\ dropped.status = pool.status
    BY <1>1, <1>3 DEF Pool
  <2>2. pools' = [pools EXCEPT ![g] = dropped] /\ UNCHANGED <<run, attempt, given_up>>
    BY <1>4 DEF Changes
  <2> HIDE DEF dropped
  <2>3. PoolOK(dropped) /\ FuturesOK(dropped, future')
    BY <1>1, <1>3, <1>4, <2>1 DEF PoolOK, FuturesOK, Handed
  <2>4. Held(dropped) \subseteq Held(pool) \cup {Idle}
    BY <1>3, <2>1 DEF Held
  <2>5. Spoilt(dropped) <=> Spoilt(pool)
    BY <2>1 DEF Spoilt
  <2>6. pool.status \in Open => dropped.status \in Open
    BY <2>1
  <2>7. /\ future' \in [Attempt -> Future]
        /\ \A b \in Attempt : future'[b] # future[b] => b \in Held(pool)
        /\ \A b \in Attempt : future'[b] \in {"pending", "running"} => future[b] \in {"pending", "running"}
    BY <1>1, <1>4
  <2> QED
    BY <1>2, <2>1, <2>2, <2>3, <2>4, <2>5, <2>6, <2>7, PoolChanges
<1>5. CASE future[a] = "pending" /\ Changes(g, moved) /\ future' = [future EXCEPT ![a] = "running"]
  <2>1. a \notin Handed(pool)
    BY <1>1, <1>5 DEF FuturesOK
  <2>2. a \notin ToSet(pool.calls) /\ a \notin pool.bodies /\ a \notin pool.dead
    BY <1>1, <1>3, <2>1 DEF Handed
  <2>3. /\ Append(pool.calls, a) \in Seq(Attempt) /\ IsInjective(Append(pool.calls, a))
        /\ ToSet(Append(pool.calls, a)) = ToSet(pool.calls) \cup {a}
    BY <1>1, <1>2, <1>3, <2>2, AppendOnce DEF PoolOK
  <2>4. /\ moved \in Pool /\ moved.work = Tail(pool.work) /\ moved.calls = Append(pool.calls, a)
        /\ moved.bodies = pool.bodies /\ moved.dead = pool.dead /\ moved.status = pool.status
    BY <1>1, <1>3, <2>3 DEF Pool
  <2>5. pools' = [pools EXCEPT ![g] = moved] /\ UNCHANGED <<run, attempt, given_up>>
    BY <1>5 DEF Changes
  <2>6. future' \in [Attempt -> Future] /\ future'[a] = "running" /\ \A b \in Attempt : b # a => future'[b] = future[b]
    BY <1>1, <1>3, <1>5 DEF Future
  <2>7. a \in Held(pool) /\ future[a] = "pending"
    BY <1>3, <1>5 DEF Held
  <2> HIDE DEF moved, a
  <2>9. PoolOK(moved)
    BY <1>1, <1>3, <2>2, <2>3, <2>4 DEF PoolOK
  <2>10. FuturesOK(moved, future')
    <3>1. \A b \in ToSet(moved.work) : b \in Attempt /\ b # a /\ b \in ToSet(pool.work)
      BY <1>1, <1>3, <2>4
    <3>2. \A b \in Handed(moved) : b = a \/ b \in Handed(pool)
      BY <2>3, <2>4 DEF Handed
    <3>3. \A b \in Handed(pool) : b \in Attempt
      BY <1>1 DEF Handed, Pool
    <3> QED
      BY <1>1, <2>1, <2>6, <3>1, <3>2, <3>3 DEF FuturesOK
  <2>11. Held(moved) \subseteq Held(pool) \cup {Idle}
    BY <1>3, <2>3, <2>4 DEF Held
  <2>12. Spoilt(moved) <=> Spoilt(pool)
    BY <2>4 DEF Spoilt
  <2>13. pool.status \in Open => moved.status \in Open
    BY <2>4
  <2>14. /\ \A b \in Attempt : future'[b] # future[b] => b \in Held(pool)
         /\ \A b \in Attempt : future'[b] \in {"pending", "running"} => future[b] \in {"pending", "running"}
    BY <2>6, <2>7
  <2> QED
    BY <1>2, <2>4, <2>5, <2>6, <2>9, <2>10, <2>11, <2>12, <2>13, <2>14, PoolChanges
<1> QED
  BY <1>4, <1>5 DEF feed

LEMMA TakeKeeps ==
  ASSUME PoolInv, NEW g \in 1..Len(pools), take(g)
  PROVE  PoolInv'
<1> DEFINE pool == pools[g]
           a == Head(pool.calls)
           new == [pool EXCEPT !.calls = Tail(@), !.bodies = @ \cup {Head(pool.calls)}]
<1>1. /\ pool \in Pool /\ PoolOK(pool) /\ FuturesOK(pool, future)
      /\ future \in [Attempt -> Future] /\ deaths \in Nat /\ Idle \notin Attempt
      /\ ToSet(pool.work) \subseteq Attempt /\ ToSet(pool.calls) \subseteq Attempt /\ pool.bodies \subseteq Attempt
  BY OnePool
<1>2. /\ pool.calls \in Seq(Attempt) /\ pool.calls # <<>> /\ deaths' = deaths /\ future' = future
      /\ pools' = [pools EXCEPT ![g] = new] /\ UNCHANGED <<run, attempt, given_up>>
  BY <1>1 DEF take, Pool, Changes
<1>3. /\ Tail(pool.calls) \in Seq(Attempt) /\ IsInjective(Tail(pool.calls)) /\ a \in Attempt
      /\ a \in ToSet(pool.calls) /\ ToSet(Tail(pool.calls)) = ToSet(pool.calls) \ {a}
  BY <1>1, <1>2, TailOnce DEF PoolOK
<1>4. /\ new \in Pool /\ new.work = pool.work /\ new.calls = Tail(pool.calls)
      /\ new.bodies = pool.bodies \cup {a} /\ new.dead = pool.dead /\ new.status = pool.status
  BY <1>1, <1>3 DEF Pool
<1> HIDE DEF new, a
<1>5. PoolOK(new)
  BY <1>1, <1>3, <1>4 DEF PoolOK
<1>6. Handed(new) = Handed(pool)
  BY <1>3, <1>4 DEF Handed
<1>7. FuturesOK(new, future')
  BY <1>1, <1>2, <1>4, <1>6 DEF FuturesOK
<1>8. Held(new) \subseteq Held(pool) \cup {Idle}
  BY <1>3, <1>4 DEF Held
<1>9. (Spoilt(new) <=> Spoilt(pool)) /\ (pool.status \in Open => new.status \in Open)
  BY <1>4 DEF Spoilt
<1>10. future' \in [Attempt -> Future] /\ \A b \in Attempt : future'[b] = future[b]
  BY <1>1, <1>2
<1> QED
  BY <1>2, <1>4, <1>5, <1>7, <1>8, <1>9, <1>10, PoolChanges

LEMMA FinishKeeps ==
  ASSUME PoolInv, NEW g \in 1..Len(pools), finish(g)
  PROVE  PoolInv'
<1> DEFINE pool == pools[g]
<1>1. /\ pool \in Pool /\ PoolOK(pool) /\ FuturesOK(pool, future)
      /\ future \in [Attempt -> Future] /\ deaths \in Nat /\ Idle \notin Attempt
      /\ ToSet(pool.work) \subseteq Attempt /\ ToSet(pool.calls) \subseteq Attempt /\ pool.bodies \subseteq Attempt
  BY OnePool
<1>2. PICK a \in pool.bodies : /\ Changes(g, [pool EXCEPT !.bodies = @ \ {a}])
                               /\ future' = [future EXCEPT ![a] = "finished"] /\ UNCHANGED deaths
  BY DEF finish
<1> DEFINE new == [pool EXCEPT !.bodies = @ \ {a}]
<1>3. /\ new \in Pool /\ new.work = pool.work /\ new.calls = pool.calls
      /\ new.bodies = pool.bodies \ {a} /\ new.dead = pool.dead /\ new.status = pool.status
  BY <1>1 DEF Pool
<1>4. pools' = [pools EXCEPT ![g] = new] /\ deaths' = deaths /\ UNCHANGED <<run, attempt, given_up>>
  BY <1>2 DEF Changes
<1> HIDE DEF new
<1>5. /\ a \in Attempt /\ a \in Held(pool) /\ future[a] = "running"
      /\ a \notin ToSet(pool.work) /\ a \notin ToSet(pool.calls) /\ a \notin pool.dead
  BY <1>1 DEF Held, Handed, FuturesOK, PoolOK
<1>6. future' \in [Attempt -> Future] /\ future'[a] = "finished" /\ \A b \in Attempt : b # a => future'[b] = future[b]
  BY <1>1, <1>2, <1>5 DEF Future
<1>7. PoolOK(new)
  BY <1>1, <1>3 DEF PoolOK
<1>8. FuturesOK(new, future')
  <2>1. Handed(new) \subseteq Handed(pool) \ {a} /\ Handed(pool) \subseteq Attempt
    BY <1>1, <1>3, <1>5 DEF Handed, Pool
  <2> QED
    BY <1>1, <1>3, <1>5, <1>6, <2>1 DEF FuturesOK
<1>9. Held(new) \subseteq Held(pool) \cup {Idle}
  BY <1>3 DEF Held
<1>10. (Spoilt(new) <=> Spoilt(pool)) /\ (pool.status \in Open => new.status \in Open)
  BY <1>3 DEF Spoilt
<1>11. /\ \A b \in Attempt : future'[b] # future[b] => b \in Held(pool)
       /\ \A b \in Attempt : future'[b] \in {"pending", "running"} => future[b] \in {"pending", "running"}
  BY <1>5, <1>6
<1> QED
  BY <1>3, <1>4, <1>6, <1>7, <1>8, <1>9, <1>10, <1>11, PoolChanges

LEMMA DeathKeeps ==
  ASSUME PoolInv, NEW g \in 1..Len(pools), process_dies(g)
  PROVE  PoolInv'
<1> DEFINE pool == pools[g]
<1>1. /\ pool \in Pool /\ PoolOK(pool) /\ FuturesOK(pool, future)
      /\ future \in [Attempt -> Future] /\ deaths \in Nat /\ Idle \notin Attempt
      /\ ToSet(pool.work) \subseteq Attempt /\ ToSet(pool.calls) \subseteq Attempt /\ pool.bodies \subseteq Attempt
  BY OnePool
<1>2. PICK a \in pool.bodies \cup {Idle} : Changes(g, [pool EXCEPT !.bodies = @ \ {a}, !.dead = {a}])
  BY DEF process_dies
<1>3. /\ pool.status \notin {"new", "broken"} /\ pool.dead = {}
      /\ deaths < MaxDeaths /\ deaths' = deaths + 1 /\ future' = future
  BY DEF process_dies
<1> DEFINE new == [pool EXCEPT !.bodies = @ \ {a}, !.dead = {a}]
<1>4. /\ new \in Pool /\ new.work = pool.work /\ new.calls = pool.calls
      /\ new.bodies = pool.bodies \ {a} /\ new.dead = {a} /\ new.status = pool.status
  BY <1>1 DEF Pool
<1>5. pools' = [pools EXCEPT ![g] = new] /\ UNCHANGED <<run, attempt, given_up>>
  BY <1>2 DEF Changes
<1> HIDE DEF new
<1>6. PoolOK(new)
  BY <1>1, <1>4 DEF PoolOK
<1>7. FuturesOK(new, future')
  <2>1. Handed(new) \subseteq Handed(pool)
    BY <1>4 DEF Handed
  <2> QED
    BY <1>1, <1>3, <1>4, <2>1 DEF FuturesOK
<1>8. Held(new) \subseteq Held(pool) \cup {Idle}
  BY <1>4 DEF Held
<1>9. Spoilt(new) /\ ~Spoilt(pool) /\ (pool.status \in Open => new.status \in Open)
  BY <1>3, <1>4 DEF Spoilt
<1>10. future' \in [Attempt -> Future] /\ \A b \in Attempt : future'[b] = future[b]
  BY <1>1, <1>3
<1> QED
  BY <1>3, <1>4, <1>5, <1>6, <1>7, <1>8, <1>9, <1>10, PoolChanges

LEMMA TerminateKeeps ==
  ASSUME PoolInv, NEW g \in 1..Len(pools), terminate_broken(g)
  PROVE  PoolInv'
<1> DEFINE pool == pools[g]
           new == [NewPool EXCEPT !.status = "broken"]
<1>1. /\ pool \in Pool /\ PoolOK(pool) /\ FuturesOK(pool, future)
      /\ future \in [Attempt -> Future] /\ deaths \in Nat /\ Idle \notin Attempt
      /\ ToSet(pool.work) \subseteq Attempt /\ ToSet(pool.calls) \subseteq Attempt /\ pool.bodies \subseteq Attempt
  BY OnePool
<1>2. /\ pool.dead # {} /\ deaths' = deaths /\ pools' = [pools EXCEPT ![g] = new]
      /\ UNCHANGED <<run, attempt, given_up>>
      /\ future' = [a \in Attempt |-> IF a \in Held(pool) /\ future[a] # "cancelled" THEN "broken" ELSE future[a]]
  BY DEF terminate_broken, Changes
<1>3. NewPool \in Pool
  BY NewPoolOK
<1>4. /\ new \in Pool /\ new.work = NewPool.work /\ new.calls = NewPool.calls
      /\ new.bodies = NewPool.bodies /\ new.dead = NewPool.dead /\ new.status = "broken"
  BY <1>3 DEF Pool
<1> HIDE DEF new
<1>5. PoolOK(new) /\ Held(new) = {} /\ Handed(new) = {}
  BY <1>4, NewPoolOK DEF PoolOK, Held, Handed
<1>6. FuturesOK(new, future')
  BY <1>5 DEF FuturesOK, Held
<1>7. Spoilt(new) /\ Spoilt(pool) /\ new.status \in Open
  BY <1>2, <1>4 DEF Spoilt, Open
<1>8. /\ future' \in [Attempt -> Future]
      /\ \A a \in Attempt : future'[a] # future[a] => a \in Held(pool)
      /\ \A a \in Attempt : future'[a] \in {"pending", "running"} => future[a] \in {"pending", "running"}
  BY <1>1, <1>2 DEF Future
<1>9. Held(new) \subseteq Held(pool) \cup {Idle}
  BY <1>5
<1> QED
  BY <1>2, <1>4, <1>5, <1>6, <1>7, <1>8, <1>9, PoolChanges

LEMMA ShuttingDownKeeps ==
  ASSUME PoolInv, NEW g \in 1..Len(pools), flag_executor_shutting_down(g)
  PROVE  PoolInv'
<1> DEFINE pool == pools[g]
           emptied == [pool EXCEPT !.status = "closed", !.work = <<>>]
           closed == [pool EXCEPT !.status = "closed"]
<1>1. /\ pool \in Pool /\ PoolOK(pool) /\ FuturesOK(pool, future)
      /\ future \in [Attempt -> Future] /\ deaths \in Nat /\ Idle \notin Attempt
      /\ ToSet(pool.work) \subseteq Attempt /\ ToSet(pool.calls) \subseteq Attempt /\ pool.bodies \subseteq Attempt
  BY OnePool
<1>2. pool.status = "closing" /\ deaths' = deaths
  BY DEF flag_executor_shutting_down
<1>3. pool.status \notin Open
  BY <1>2 DEF Open
<1>4. CASE /\ future' = [a \in Attempt |-> IF a \in Pending(pool) THEN "cancelled" ELSE future[a]]
           /\ Changes(g, emptied)
  <2>1. <<>> \in Seq(Attempt)
    OBVIOUS
  <2>2. /\ emptied \in Pool /\ emptied.work = <<>> /\ emptied.calls = pool.calls
        /\ emptied.bodies = pool.bodies /\ emptied.dead = pool.dead /\ emptied.status = "closed"
    BY <1>1, <2>1 DEF Pool
  <2>3. pools' = [pools EXCEPT ![g] = emptied] /\ UNCHANGED <<run, attempt, given_up>>
    BY <1>4 DEF Changes
  <2> HIDE DEF emptied
  <2>4. PoolOK(emptied)
    BY <1>1, <2>2, EmptyOnce DEF PoolOK
  <2>5. \A a \in Pending(pool) : a \in ToSet(pool.work) /\ future[a] = "pending"
    BY DEF Pending
  <2>6. FuturesOK(emptied, future')
    <3>1. Handed(emptied) = Handed(pool) /\ Handed(pool) \subseteq Attempt
      BY <1>1, <2>2 DEF Handed, Pool
    <3>2. \A a \in Handed(pool) : a \notin Pending(pool)
      BY <1>1, <2>5 DEF FuturesOK
    <3> QED
      BY <1>1, <1>4, <2>2, <3>1, <3>2, EmptyOnce DEF FuturesOK
  <2>7. Held(emptied) \subseteq Held(pool) \cup {Idle}
    BY <2>2, EmptyOnce DEF Held
  <2>8. Spoilt(emptied) <=> Spoilt(pool)
    BY <1>2, <2>2 DEF Spoilt
  <2>9. /\ future' \in [Attempt -> Future]
        /\ \A a \in Attempt : future'[a] # future[a] => a \in Held(pool)
        /\ \A a \in Attempt : future'[a] \in {"pending", "running"} => future[a] \in {"pending", "running"}
    BY <1>1, <1>4, <2>5 DEF Future, Held
  <2> QED
    BY <1>2, <1>3, <2>2, <2>3, <2>4, <2>6, <2>7, <2>8, <2>9, PoolChanges
<1>5. CASE Changes(g, closed) /\ UNCHANGED future
  <2>1. /\ closed \in Pool /\ closed.work = pool.work /\ closed.calls = pool.calls
        /\ closed.bodies = pool.bodies /\ closed.dead = pool.dead /\ closed.status = "closed"
    BY <1>1 DEF Pool
  <2>2. pools' = [pools EXCEPT ![g] = closed] /\ UNCHANGED <<run, attempt, given_up>>
    BY <1>5 DEF Changes
  <2> HIDE DEF closed
  <2>3. PoolOK(closed) /\ FuturesOK(closed, future')
    BY <1>1, <1>5, <2>1 DEF PoolOK, FuturesOK, Handed
  <2>4. Held(closed) \subseteq Held(pool) \cup {Idle}
    BY <2>1 DEF Held
  <2>5. Spoilt(closed) <=> Spoilt(pool)
    BY <1>2, <2>1 DEF Spoilt
  <2>6. future' \in [Attempt -> Future] /\ \A a \in Attempt : future'[a] = future[a]
    BY <1>1, <1>5
  <2> QED
    BY <1>2, <1>3, <2>1, <2>2, <2>3, <2>4, <2>5, <2>6, PoolChanges
<1> QED
  BY <1>4, <1>5 DEF flag_executor_shutting_down

-----------------------------------------------------------------------------
(***************************************************************************)
(* The event loop: a run stops to wait.                                    *)
(***************************************************************************)
\* A future is cancelled at most, and only before it is handed out.
LEMMA FuturesCancelled ==
  ASSUME NEW pool \in Pool, NEW fs, NEW gs, FuturesOK(pool, fs),
         \A a \in Attempt : gs[a] = fs[a] \/ (fs[a] = "pending" /\ gs[a] = "cancelled")
  PROVE  FuturesOK(pool, gs)
<1>1. ToSet(pool.work) \subseteq Attempt /\ Handed(pool) \subseteq Attempt
  BY QueueIn DEF Pool, Handed
<1> QED
  BY <1>1 DEF FuturesOK

LEMMA RunStops ==
  ASSUME PoolInv, NEW r \in Runs, Waiting(r), NEW o \in {"done", "ready"}, run' = [run EXCEPT ![r] = o],
         future' \in [Attempt -> Future],
         \A a \in Attempt : future'[a] = future[a] \/ (future[a] = "pending" /\ future'[a] = "cancelled"),
         given_up \subseteq given_up', given_up' \subseteq Attempt,
         future'[Awaited(r)] \in {"pending", "running"} => Awaited(r) \in given_up',
         UNCHANGED <<pools, attempt, deaths>>
  PROVE  PoolInv'
<1>1. TypeOK /\ PoolsInv /\ RunsInv /\ DamageInv
  BY DEF PoolInv
<1>2. /\ run' \in [Runs -> {"ready", "waiting", "done"}] /\ run'[r] = o
      /\ \A q \in Runs : q # r => run'[q] = run[q]
  BY <1>1 DEF TypeOK
<1>3. TypeOK'
  BY <1>1, <1>2 DEF TypeOK, Future, Current
<1>4. PoolsInv'
  <2>1. \A g \in 1..Len(pools) : FuturesOK(pools[g], future')
    <3> SUFFICES ASSUME NEW g \in 1..Len(pools) PROVE FuturesOK(pools[g], future')
      OBVIOUS
    <3>1. pools[g] \in Pool /\ FuturesOK(pools[g], future)
      BY OnePool
    <3> QED
      BY <3>1, FuturesCancelled
  <2> QED
    BY <1>1, <2>1 DEF PoolsInv, PoolsOK, PoolOK, FuturesOK, Held, Handed
<1>5. \A a \in Attempt : /\ a[1] \in Runs /\ a = <<a[1], a[2]>>
                         /\ Awaiting(a)' => Awaiting(a)
                         /\ Awaiting(a) => Awaiting(a)' \/ a = Awaited(r)
  BY <1>2 DEF Attempt, Awaiting, Awaited
<1>6. RunsInv'
  <2>1. \A q \in Runs : Waiting(q)' => Awaited(q)' \in Attempt
    BY <1>1, <1>2 DEF RunsInv, Waiting, Awaited
  <2>2. \A a \in Attempt : a[2] > attempt'[a[1]] => future'[a] = "none"
    BY <1>1 DEF RunsInv
  <2>3. ASSUME NEW a \in Attempt, future'[a] \in {"pending", "running"} PROVE a \in given_up' \/ Awaiting(a)'
    <3>1. future[a] \in {"pending", "running"}
      BY <2>3
    <3>2. a \in given_up \/ Awaiting(a)
      BY <1>1, <3>1 DEF RunsInv
    <3> QED
      BY <1>5, <2>3, <3>2
  <2> QED
    BY <2>1, <2>2, <2>3 DEF RunsInv
<1>7. DamageInv'
  <2>1. Reported \subseteq Reported'
    BY <1>5 DEF Reported
  <2>2. Spoiled' = Spoiled
    BY DEF Spoiled, Spoilt
  <2>3. Cardinality(Spoiled') <= deaths'
    BY <1>1, <2>2 DEF DamageInv
  <2> QED
    BY <1>1, <1>3, <2>1, <2>2, <2>3, DamageKept
<1> QED
  BY <1>3, <1>4, <1>6, <1>7 DEF PoolInv

LEMMA StopsKeep ==
  ASSUME PoolInv, NEW r \in Runs, deliver(r) \/ cancelled(r) \/ time_out(r)
  PROVE  PoolInv'
<1>1. future \in [Attempt -> Future] /\ given_up \subseteq Attempt
  BY DEF PoolInv, TypeOK, Future
<1>2. Waiting(r) /\ Awaited(r) \in Attempt
  BY DEF PoolInv, RunsInv, deliver, cancelled, time_out, TimesOut
<1>3. CASE deliver(r)
  <2>1. PICK o \in {"done", "ready"} : run' = [run EXCEPT ![r] = o]
    BY <1>3 DEF deliver
  <2>2. future[Awaited(r)] = "finished" /\ UNCHANGED <<pools, future, attempt, given_up, deaths>>
    BY <1>3 DEF deliver
  <2> QED
    BY <1>1, <1>2, <2>1, <2>2, RunStops
<1>4. CASE cancelled(r)
  <2>1. run' = [run EXCEPT ![r] = "ready"]
    BY <1>4 DEF cancelled
  <2>2. future[Awaited(r)] = "cancelled" /\ UNCHANGED <<pools, future, attempt, given_up, deaths>>
    BY <1>4 DEF cancelled
  <2> QED
    BY <1>1, <1>2, <2>1, <2>2, RunStops
<1>5. CASE time_out(r)
  <2>1. /\ run' = [run EXCEPT ![r] = "ready"] /\ UNCHANGED <<pools, attempt, deaths>>
        /\ given_up' = given_up \cup {Awaited(r)}
        /\ future' = [future EXCEPT ![Awaited(r)] = IF @ = "pending" THEN "cancelled" ELSE @]
    BY <1>5 DEF time_out, TimesOut
  <2>2. future' \in [Attempt -> Future]
    BY <1>1, <1>2, <2>1 DEF Future
  <2>3. \A a \in Attempt : future'[a] = future[a] \/ (future[a] = "pending" /\ future'[a] = "cancelled")
    BY <1>1, <1>2, <2>1
  <2>4. given_up \subseteq given_up' /\ given_up' \subseteq Attempt /\ Awaited(r) \in given_up'
    BY <1>1, <1>2, <2>1
  <2> QED
    BY <1>2, <2>1, <2>2, <2>3, <2>4, RunStops
<1> QED
  BY <1>3, <1>4, <1>5

-----------------------------------------------------------------------------
(***************************************************************************)
(* The event loop: the current pool is replaced, or gets an attempt.       *)
(***************************************************************************)
LEMMA ReplacedOK ==
  ASSUME PoolInv
  PROVE  LET ps == _replace_pool(pools) IN
         /\ ps \in Seq(Pool) /\ Len(ps) = Len(pools) + 1 /\ Len(pools) \in Nat
         /\ ps[Len(pools) + 1] = NewPool /\ PoolsOK(ps, future)
         /\ {g \in 1..Len(ps) : Spoilt(ps[g])} = Spoiled
<1> DEFINE ps == _replace_pool(pools)
<1>1. pools \in Seq(Pool) /\ Len(pools) >= 1 /\ PoolsOK(pools, future)
  BY DEF PoolInv, TypeOK, PoolsInv, PoolsOK
<1>2. PICK l \in Nat : l = Len(pools) /\ l >= 1
  BY <1>1
<1>3. /\ ps \in Seq(Pool) /\ Len(ps) = l + 1 /\ \A g \in 1..(l - 1) : ps[g] = pools[g]
      /\ ps[l] = ShutDown(pools[l]) /\ ps[l + 1] = NewPool
  BY <1>1, <1>2, Replaced
<1> HIDE DEF ps
<1>4. /\ pools[l] \in Pool /\ \A g \in 1..(l + 1) : g \in 1..(l - 1) \/ g = l \/ g = l + 1
      /\ \A g \in 1..l : g \in 1..(l + 1)
  BY <1>1, <1>2
<1>5. /\ ps[l].work = pools[l].work /\ ps[l].calls = pools[l].calls
      /\ ps[l].bodies = pools[l].bodies /\ ps[l].dead = pools[l].dead
      /\ ps[l].status = "broken" <=> pools[l].status = "broken"
  BY <1>3, <1>4, ShutDownOK
<1>6. /\ PoolOK(ps[l]) <=> PoolOK(pools[l])
      /\ FuturesOK(ps[l], future) <=> FuturesOK(pools[l], future)
      /\ Held(ps[l]) = Held(pools[l]) /\ (Spoilt(ps[l]) <=> Spoilt(pools[l]))
  BY <1>5 DEF PoolOK, FuturesOK, Held, Handed, Spoilt
<1>7. PoolOK(NewPool) /\ FuturesOK(NewPool, future) /\ Held(NewPool) = {} /\ ~Spoilt(NewPool)
  <2>1. Handed(NewPool) = {} /\ PoolOK(NewPool) /\ Held(NewPool) = {}
    BY NewPoolOK
  <2>2. ToSet(NewPool.work) = {} /\ ~Spoilt(NewPool)
    BY EmptyOnce DEF NewPool, Spoilt
  <2> QED
    BY <2>1, <2>2 DEF FuturesOK
<1>8. \A g \in 1..l : /\ PoolOK(ps[g]) /\ FuturesOK(ps[g], future)
                      /\ Held(ps[g]) = Held(pools[g]) /\ (Spoilt(ps[g]) <=> Spoilt(pools[g]))
  <2> SUFFICES ASSUME NEW g \in 1..l
               PROVE /\ PoolOK(ps[g]) /\ FuturesOK(ps[g], future)
                     /\ Held(ps[g]) = Held(pools[g]) /\ (Spoilt(ps[g]) <=> Spoilt(pools[g]))
    OBVIOUS
  <2>1. PoolOK(pools[g]) /\ FuturesOK(pools[g], future)
    BY <1>1, <1>2 DEF PoolsOK
  <2>2. g = l \/ g \in 1..(l - 1)
    BY <1>2
  <2> QED
    BY <1>3, <1>6, <2>1, <2>2
<1>9. \A g \in 1..(l + 1) : g \in 1..l \/ g = l + 1
  BY <1>2
<1>10. PoolsOK(ps, future)
  <2>1. \A g, h \in 1..l : g # h => Held(pools[g]) \cap Held(pools[h]) \subseteq {Idle}
    BY <1>1, <1>2 DEF PoolsOK
  <2>2. \A g, h \in 1..(l + 1) : g # h => Held(ps[g]) \cap Held(ps[h]) \subseteq {Idle}
    BY <1>3, <1>7, <1>8, <1>9, <2>1
  <2>3. \A g \in 1..(l + 1) : PoolOK(ps[g]) /\ FuturesOK(ps[g], future)
    BY <1>3, <1>7, <1>8, <1>9
  <2>4. l + 1 >= 1
    OBVIOUS
  <2> QED
    BY <1>3, <2>2, <2>3, <2>4 DEF PoolsOK
<1>11. {g \in 1..(l + 1) : Spoilt(ps[g])} = Spoiled
  BY <1>2, <1>3, <1>4, <1>7, <1>8, <1>9 DEF Spoiled
<1> QED
  BY <1>2, <1>3, <1>10, <1>11 DEF ps

LEMMA BrokenKeeps ==
  ASSUME PoolInv, NEW r \in Runs, broken(r)
  PROVE  PoolInv'
<1>1. TypeOK /\ PoolsInv /\ RunsInv /\ DamageInv
  BY DEF PoolInv
<1>2. /\ Waiting(r) /\ future[Awaited(r)] = "broken" /\ pools' = _replace_pool(pools)
      /\ run' = [run EXCEPT ![r] = "ready"] /\ UNCHANGED <<future, attempt, given_up, deaths>>
  BY DEF broken, mark_broken
<1>3. /\ pools' \in Seq(Pool) /\ Len(pools') = Len(pools) + 1 /\ Len(pools) \in Nat
      /\ pools'[Len(pools')] = NewPool /\ PoolsOK(pools', future) /\ Spoiled' = Spoiled
  BY <1>2, ReplacedOK DEF Spoiled, Spoilt
<1>4. /\ run' \in [Runs -> {"ready", "waiting", "done"}] /\ run'[r] = "ready"
      /\ \A q \in Runs : q # r => run'[q] = run[q]
  BY <1>1, <1>2 DEF TypeOK
<1>5. TypeOK'
  <2>1. Last(pools').status = "new"
    BY <1>3 DEF Last, NewPool
  <2> QED
    BY <1>1, <1>2, <1>3, <1>4, <2>1 DEF TypeOK, Current
<1>6. PoolsInv'
  BY <1>2, <1>3 DEF PoolsInv, PoolsOK, PoolOK, FuturesOK, Held, Handed
<1>7. \A a \in Attempt : /\ a[1] \in Runs /\ a = <<a[1], a[2]>>
                         /\ Awaiting(a)' => Awaiting(a) /\ a # Awaited(r)
                         /\ Awaiting(a) => Awaiting(a)' \/ a = Awaited(r)
  BY <1>2, <1>4 DEF Attempt, Awaiting, Awaited
<1>8. Awaited(r) \in Attempt /\ Awaiting(Awaited(r))
  BY <1>1, <1>2 DEF RunsInv, Awaiting, Awaited, Waiting
<1>9. RunsInv'
  <2>1. \A q \in Runs : Waiting(q)' => Awaited(q)' \in Attempt
    BY <1>1, <1>2, <1>4 DEF RunsInv, Waiting, Awaited
  <2>2. \A a \in Attempt : a[2] > attempt'[a[1]] => future'[a] = "none"
    BY <1>1, <1>2 DEF RunsInv
  <2>3. \A a \in Attempt : future'[a] \in {"pending", "running"} => a \in given_up' \/ Awaiting(a)'
    BY <1>1, <1>2, <1>7 DEF RunsInv
  <2> QED
    BY <2>1, <2>2, <2>3 DEF RunsInv
<1>10. DamageInv'
  <2>1. PICK a \in Attempt : a = Awaited(r)
    BY <1>8
  <2>2. Reported' = Reported \cup {a} /\ a \notin Reported
    BY <1>2, <1>7, <1>8, <2>1 DEF Reported
  <2>3. IsFiniteSet(Reported) /\ Cardinality(Reported) \in Nat
    BY <1>1, DamageNumbers
  <2>4. Cardinality(Reported') = Cardinality(Reported) + 1
    BY <2>2, <2>3, FS_AddElement
  <2>5. Spoiled' \ {Len(pools')} = Spoiled
    BY <1>3 DEF Spoiled
  <2>6. /\ Cardinality(Spoiled \ {Len(pools)}) <= Cardinality(Spoiled)
        /\ Cardinality(Spoiled \ {Len(pools)}) \in Nat /\ Cardinality(Spoiled) \in Nat
    BY <1>1, DamageNumbers
  <2>7. Len(pools) <= 1 + Cardinality(Spoiled \ {Len(pools)}) + Cardinality(Reported) /\ Cardinality(Spoiled) <= deaths
    BY <1>1 DEF DamageInv
  <2>8. Len(pools) + 1 <= 1 + Cardinality(Spoiled) + (Cardinality(Reported) + 1)
    BY <1>3, <2>3, <2>6, <2>7
  <2> QED
    BY <1>2, <1>3, <2>4, <2>5, <2>7, <2>8 DEF DamageInv
<1> QED
  BY <1>5, <1>6, <1>9, <1>10 DEF PoolInv

LEMMA PoolSet ==
  ASSUME NEW ps \in Seq(Pool), NEW l \in 1..Len(ps), NEW pool \in Pool
  PROVE  /\ [ps EXCEPT ![l] = pool] \in Seq(Pool) /\ Len([ps EXCEPT ![l] = pool]) = Len(ps)
         /\ [ps EXCEPT ![l] = pool][l] = pool
         /\ \A g \in 1..Len(ps) : g # l => [ps EXCEPT ![l] = pool][g] = ps[g]
  OBVIOUS

\* The current pool, or the one that replaces it, gets the attempt a.
LEMMA Submitted ==
  ASSUME NEW ps \in Seq(Pool), PoolsOK(ps, future), NEW l \in Nat, l = Len(ps), ps[l].status # "broken",
         NEW a \in Attempt, future \in [Attempt -> Future], future[a] = "none",
         future' = [future EXCEPT ![a] = "pending"],
         pools' = [ps EXCEPT ![l] = [ps[l] EXCEPT !.status = "open", !.work = Append(@, a)]]
  PROVE  /\ pools' \in Seq(Pool) /\ Len(pools') = l /\ pools'[l].status = "open"
         /\ PoolsOK(pools', future') /\ Spoiled' = {g \in 1..l : Spoilt(ps[g])}
<1> DEFINE new == [ps[l] EXCEPT !.status = "open", !.work = Append(@, a)]
<1>1. l >= 1 /\ l \in 1..l /\ \A g \in 1..l : ps[g] \in Pool /\ PoolOK(ps[g]) /\ FuturesOK(ps[g], future)
  <2>1. l >= 1 /\ \A g \in 1..l : PoolOK(ps[g]) /\ FuturesOK(ps[g], future)
    BY DEF PoolsOK
  <2> QED
    BY <2>1
<1>2. \A g \in 1..l : a \notin Held(ps[g])
  <2> SUFFICES ASSUME NEW g \in 1..l, a \in Held(ps[g]) PROVE FALSE
    OBVIOUS
  <2> QED
    BY <1>1, HeldFuture, IdleApart
<1>3. ps[l].work \in Seq(Attempt) /\ a \notin ToSet(ps[l].work) /\ IsInjective(ps[l].work)
  BY <1>1, <1>2 DEF Pool, Held, PoolOK
<1>4. /\ Append(ps[l].work, a) \in Seq(Attempt) /\ IsInjective(Append(ps[l].work, a))
      /\ ToSet(Append(ps[l].work, a)) = ToSet(ps[l].work) \cup {a}
  BY <1>3, AppendOnce
<1>5. /\ new \in Pool /\ new.work = Append(ps[l].work, a) /\ new.calls = ps[l].calls
      /\ new.bodies = ps[l].bodies /\ new.dead = ps[l].dead /\ new.status = "open"
  BY <1>1, <1>4 DEF Pool
<1>6. pools' = [ps EXCEPT ![l] = new]
  OBVIOUS
<1> HIDE DEF new
<1>7. /\ pools' \in Seq(Pool) /\ Len(pools') = l /\ pools'[l] = new
      /\ \A g \in 1..l : g # l => pools'[g] = ps[g]
  <2>1. l \in 1..Len(ps) /\ new \in Pool
    BY <1>1, <1>5
  <2>2. /\ [ps EXCEPT ![l] = new] \in Seq(Pool) /\ Len([ps EXCEPT ![l] = new]) = Len(ps)
        /\ [ps EXCEPT ![l] = new][l] = new
        /\ \A g \in 1..Len(ps) : g # l => [ps EXCEPT ![l] = new][g] = ps[g]
    BY <2>1, PoolSet
  <2> QED
    BY <1>6, <2>2
<1>8. PoolOK(new)
  BY <1>1, <1>4, <1>5 DEF PoolOK
<1>9. future'[a] = "pending" /\ \A b \in Attempt : b # a => future'[b] = future[b]
  OBVIOUS
<1>10. \A g \in 1..l : FuturesOK(ps[g], future')
  <2> SUFFICES ASSUME NEW g \in 1..l PROVE FuturesOK(ps[g], future')
    OBVIOUS
  <2>1. ps[g] \in Pool /\ FuturesOK(ps[g], future) /\ a \notin Held(ps[g])
    BY <1>1, <1>2
  <2>2. ToSet(ps[g].work) \subseteq Attempt \cap Held(ps[g]) /\ Handed(ps[g]) \subseteq Attempt \cap Held(ps[g])
    BY <2>1, QueueIn DEF Pool, Held, Handed
  <2> QED
    BY <1>9, <2>1, <2>2 DEF FuturesOK
<1>11. FuturesOK(new, future')
  <2>1. Handed(new) = Handed(ps[l])
    BY <1>5 DEF Handed
  <2> QED
    BY <1>1, <1>4, <1>5, <1>9, <1>10, <2>1 DEF FuturesOK
<1>12. Held(new) = Held(ps[l]) \cup {a}
  BY <1>4, <1>5 DEF Held
<1>13. PoolsOK(pools', future')
  <2>1. \A g \in 1..l : PoolOK(pools'[g]) /\ FuturesOK(pools'[g], future')
    BY <1>1, <1>7, <1>8, <1>10, <1>11
  <2>2. \A g, h \in 1..l : g # h => Held(ps[g]) \cap Held(ps[h]) \subseteq {Idle}
    BY DEF PoolsOK
  <2>3. \A g, h \in 1..l : g # h => Held(pools'[g]) \cap Held(pools'[h]) \subseteq {Idle}
    <3> SUFFICES ASSUME NEW g \in 1..l, NEW h \in 1..l, g # h
                 PROVE Held(pools'[g]) \cap Held(pools'[h]) \subseteq {Idle}
      OBVIOUS
    <3>1. Held(ps[g]) \cap Held(ps[h]) \subseteq {Idle} /\ a \notin Held(ps[g]) /\ a \notin Held(ps[h])
      BY <1>2, <2>2
    <3>2. \A k \in 1..l : k # l => Held(pools'[k]) = Held(ps[k])
      BY <1>7
    <3>3. Held(pools'[l]) = Held(ps[l]) \cup {a}
      BY <1>7, <1>12
    <3>4. CASE g = l
      BY <3>1, <3>2, <3>3, <3>4
    <3>5. CASE h = l
      BY <3>1, <3>2, <3>3, <3>5
    <3>6. CASE g # l /\ h # l
      BY <3>1, <3>2, <3>6
    <3> QED
      BY <3>4, <3>5, <3>6
  <2>4. Len(pools') = l /\ l >= 1
    BY <1>1, <1>7
  <2>5. \A g \in 1..Len(pools') : PoolOK(pools'[g]) /\ FuturesOK(pools'[g], future')
    BY <2>1, <2>4, Zenon
  <2>6. \A g, h \in 1..Len(pools') : g # h => Held(pools'[g]) \cap Held(pools'[h]) \subseteq {Idle}
    <3>1. 1..Len(pools') = 1..l
      BY <2>4, Zenon
    <3> SUFFICES ASSUME NEW g \in 1..Len(pools'), NEW h \in 1..Len(pools'), g # h
                 PROVE Held(pools'[g]) \cap Held(pools'[h]) \subseteq {Idle}
      OBVIOUS
    <3>2. g \in 1..l /\ h \in 1..l
      BY <3>1, Zenon
    <3> QED
      BY <2>3, <3>2, Zenon
  <2>7. Len(pools') >= 1
    BY <2>4
  <2> QED
    BY <2>5, <2>6, <2>7, Zenon DEF PoolsOK
<1>14. \A g \in 1..l : Spoilt(pools'[g]) <=> Spoilt(ps[g])
  BY <1>5, <1>7 DEF Spoilt
<1>15. Spoiled' = {g \in 1..l : Spoilt(ps[g])}
  BY <1>7, <1>14 DEF Spoiled, Spoilt
<1> QED
  BY <1>5, <1>7, <1>13, <1>15

LEMMA SubmitKeeps ==
  ASSUME PoolInv, NEW r \in Runs, submit(r)
  PROVE  PoolInv'
<1> DEFINE a == <<r, attempt[r] + 1>>
           ps == IF Current.status = "broken" THEN _replace_pool(pools) ELSE pools
<1>1. TypeOK /\ PoolsInv /\ RunsInv /\ DamageInv
  BY DEF PoolInv
<1>2. /\ run[r] = "ready" /\ attempt[r] < MaxAttempts
      /\ attempt' = [attempt EXCEPT ![r] = @ + 1] /\ run' = [run EXCEPT ![r] = "waiting"]
      /\ future' = [future EXCEPT ![a] = "pending"] /\ UNCHANGED <<given_up, deaths>>
  BY DEF submit
<1>3. pools' = [ps EXCEPT ![Len(ps)] = [ps[Len(ps)] EXCEPT !.status = "open", !.work = Append(@, a)]]
  <2>1. pools' = [ps EXCEPT ![Len(ps)].status = "open", ![Len(ps)].work = Append(@, a)]
    BY DEF submit
  <2>2. ps \in Seq(Pool) /\ Len(ps) \in 1..Len(ps)
    <3>1. pools \in Seq(Pool) /\ Len(pools) >= 1
      BY <1>1 DEF TypeOK, PoolsInv, PoolsOK
    <3>2. _replace_pool(pools) \in Seq(Pool) /\ Len(_replace_pool(pools)) = Len(pools) + 1
      BY <3>1, Replaced
    <3> QED
      BY <3>1, <3>2
  <2> HIDE DEF ps, a
  <2> QED
    BY <2>1, <2>2
<1>4. /\ attempt[r] \in 0..MaxAttempts /\ future \in [Attempt -> Future]
      /\ pools \in Seq(Pool) /\ Len(pools) \in Nat /\ Len(pools) >= 1 /\ PoolsOK(pools, future)
  <2>1. attempt[r] \in 0..MaxAttempts /\ future \in [Attempt -> Future] /\ pools \in Seq(Pool)
    BY <1>1 DEF TypeOK, Future
  <2>2. PoolsOK(pools, future)
    BY <1>1 DEF PoolsInv
  <2>3. Len(pools) >= 1
    BY <2>2 DEF PoolsOK
  <2> QED
    BY <2>1, <2>2, <2>3
<1>5. PICK b \in Attempt : b = a
  BY <1>2, <1>4, ActivityPoolAssumption DEF Attempt
<1>6. b[1] = r /\ b[2] = attempt[r] + 1 /\ b = <<r, attempt[r] + 1>> /\ future[b] = "none"
  <2>1. b[1] = r /\ b[2] = attempt[r] + 1 /\ b[2] > attempt[b[1]]
    BY <1>4, <1>5
  <2> QED
    BY <1>1, <1>5, <2>1 DEF RunsInv
<1>7. PICK l \in Nat : l = Len(ps) /\ l >= Len(pools)
  <2>1. Len(_replace_pool(pools)) = Len(pools) + 1
    BY <1>4, Replaced
  <2> QED
    BY <1>4, <2>1
<1>8. ps \in Seq(Pool) /\ PoolsOK(ps, future) /\ ps[l].status # "broken" /\ {g \in 1..l : Spoilt(ps[g])} = Spoiled
  <2>1. CASE Current.status = "broken"
    <3>1. /\ _replace_pool(pools) \in Seq(Pool) /\ Len(_replace_pool(pools)) = Len(pools) + 1
          /\ _replace_pool(pools)[Len(pools) + 1] = NewPool /\ PoolsOK(_replace_pool(pools), future)
          /\ {g \in 1..Len(_replace_pool(pools)) : Spoilt(_replace_pool(pools)[g])} = Spoiled
      BY ReplacedOK
    <3>2. ps = _replace_pool(pools) /\ NewPool.status # "broken"
      BY <2>1 DEF NewPool
    <3> QED
      BY <1>7, <3>1, <3>2
  <2>2. CASE Current.status # "broken"
    <3>1. ps = pools /\ pools[l].status # "broken"
      BY <1>7, <2>2 DEF Current, Last
    <3> QED
      BY <1>4, <1>7, <3>1 DEF Spoiled
  <2> QED
    BY <2>1, <2>2
<1>9. Current.status # "broken" => l = Len(pools)
  BY <1>7
<1>10. Current.status = "broken" => l = Len(pools) + 1
  BY <1>4, <1>7, Replaced
<1>11. pools' = [ps EXCEPT ![l] = [ps[l] EXCEPT !.status = "open", !.work = Append(@, b)]]
  BY <1>3, <1>5, <1>7
<1>12. future' = [future EXCEPT ![b] = "pending"]
  BY <1>2, <1>5
<1>13. /\ pools' \in Seq(Pool) /\ Len(pools') = l /\ pools'[l].status = "open"
       /\ PoolsOK(pools', future') /\ Spoiled' = Spoiled
  <2> HIDE DEF ps
  <2>1. /\ pools' \in Seq(Pool) /\ Len(pools') = l /\ pools'[l].status = "open"
        /\ PoolsOK(pools', future') /\ Spoiled' = {g \in 1..l : Spoilt(ps[g])}
    BY <1>4, <1>6, <1>7, <1>8, <1>11, <1>12, Submitted
  <2> QED
    BY <1>8, <2>1
<1> HIDE DEF ps, a
<1>14. /\ attempt' \in [Runs -> 0..MaxAttempts] /\ attempt'[r] = attempt[r] + 1
       /\ \A q \in Runs : q # r => attempt'[q] = attempt[q]
       /\ run' \in [Runs -> {"ready", "waiting", "done"}] /\ run'[r] = "waiting"
       /\ \A q \in Runs : q # r => run'[q] = run[q]
  BY <1>1, <1>2, <1>4, ActivityPoolAssumption DEF TypeOK
<1>15. future' \in [Attempt -> Future] /\ future'[b] = "pending" /\ \A c \in Attempt : c # b => future'[c] = future[c]
  BY <1>4, <1>12 DEF Future
<1>16. TypeOK'
  <2>1. Last(pools').status = "open"
    BY <1>13 DEF Last
  <2> QED
    BY <1>1, <1>2, <1>13, <1>14, <1>15, <2>1 DEF TypeOK, Current, Future
<1>17. PoolsInv'
  BY <1>13 DEF PoolsInv, PoolsOK, PoolOK, FuturesOK, Held, Handed
<1>18. \A c \in Attempt : c[1] \in Runs /\ c[2] \in 1..MaxAttempts /\ c = <<c[1], c[2]>>
  BY DEF Attempt
<1>19. \A c \in Attempt : (c[1] # r => (Awaiting(c)' <=> Awaiting(c))) /\ (c[1] = r => ~Awaiting(c) /\ (Awaiting(c)' => c = b))
  BY <1>2, <1>6, <1>14, <1>18 DEF Awaiting
<1>20. RunsInv'
  <2>1. \A q \in Runs : Waiting(q)' => Awaited(q)' \in Attempt
    <3> SUFFICES ASSUME NEW q \in Runs, run'[q] = "waiting" PROVE <<q, attempt'[q]>> \in Attempt
      BY DEF Waiting, Awaited
    <3>1. CASE q = r
      BY <1>6, <1>14, <3>1
    <3>2. CASE q # r
      BY <1>1, <1>14, <3>2 DEF RunsInv, Waiting, Awaited
    <3> QED
      BY <3>1, <3>2
  <2>2. ASSUME NEW c \in Attempt, c[2] > attempt'[c[1]] PROVE future'[c] = "none"
    <3>1. c # b
      BY <1>6, <1>14, <2>2
    <3>2. c[2] > attempt[c[1]]
      <4>1. attempt'[c[1]] = attempt[c[1]] \/ attempt'[c[1]] = attempt[c[1]] + 1
        BY <1>14, <1>18
      <4>2. c[2] \in Nat /\ attempt[c[1]] \in Nat
        BY <1>1, <1>18, ActivityPoolAssumption DEF TypeOK
      <4> QED
        BY <2>2, <4>1, <4>2
    <3> QED
      BY <1>1, <1>15, <3>1, <3>2 DEF RunsInv
  <2>3. ASSUME NEW c \in Attempt, future'[c] \in {"pending", "running"} PROVE c \in given_up' \/ Awaiting(c)'
    <3>1. CASE c = b
      BY <1>6, <1>14, <3>1 DEF Awaiting
    <3>2. CASE c # b
      <4>1. c \in given_up \/ Awaiting(c)
        BY <1>1, <1>15, <2>3, <3>2 DEF RunsInv
      <4> QED
        BY <1>2, <1>19, <4>1
    <3> QED
      BY <3>1, <3>2
  <2> QED
    BY <2>1, <2>2, <2>3 DEF RunsInv
<1>21. DamageInv'
  <2>1. Reported \subseteq Reported'
    <3> SUFFICES ASSUME NEW c \in Attempt, future[c] = "broken", ~Awaiting(c) PROVE future'[c] = "broken" /\ ~Awaiting(c)'
      BY DEF Reported
    <3>1. c # b
      BY <1>6
    <3> QED
      BY <1>15, <1>19, <3>1
  <2>2. Cardinality(Spoiled') <= deaths'
    BY <1>1, <1>2, <1>13 DEF DamageInv
  <2>3. CASE Current.status # "broken"
    BY <1>1, <1>9, <1>13, <1>16, <2>1, <2>2, <2>3, DamageKept
  <2>4. CASE Current.status = "broken"
    <3>1. Len(pools) \in Spoiled
      BY <1>4, <2>4 DEF Spoiled, Spoilt, Current, Last
    <3>2. Spoiled = (Spoiled \ {Len(pools)}) \cup {Len(pools)}
      BY <3>1
    <3>3. /\ IsFiniteSet(Spoiled \ {Len(pools)}) /\ Cardinality(Spoiled \ {Len(pools)}) \in Nat
          /\ Cardinality(Reported) \in Nat
      BY <1>1, DamageNumbers
    <3>4. Cardinality((Spoiled \ {Len(pools)}) \cup {Len(pools)}) = Cardinality(Spoiled \ {Len(pools)}) + 1
      BY <3>3, FS_AddElement
    <3>5. Cardinality(Spoiled) = Cardinality(Spoiled \ {Len(pools)}) + 1
      BY <3>2, <3>4
    <3>6. Spoiled' \ {Len(pools')} = Spoiled
      BY <1>4, <1>10, <1>13, <2>4 DEF Spoiled
    <3>7. IsFiniteSet(Reported') /\ Cardinality(Reported') \in Nat
      BY <1>16, DamageNumbersNext
    <3>8. Cardinality(Reported) <= Cardinality(Reported')
      BY <2>1, <3>7, FS_Subset
    <3>9. Len(pools) <= 1 + Cardinality(Spoiled \ {Len(pools)}) + Cardinality(Reported)
      BY <1>1 DEF DamageInv
    <3>10. Len(pools) + 1 <= 1 + Cardinality(Spoiled) + Cardinality(Reported')
      BY <1>4, <3>3, <3>5, <3>7, <3>8, <3>9
    <3> QED
      BY <1>10, <1>13, <2>2, <2>4, <3>6, <3>10 DEF DamageInv
  <2> QED
    BY <2>3, <2>4
<1> QED
  BY <1>16, <1>17, <1>20, <1>21 DEF PoolInv

-----------------------------------------------------------------------------
(***************************************************************************)
(* The invariant, and what follows from it.                                *)
(***************************************************************************)
LEMMA InitHolds ==
  ASSUME Init
  PROVE  PoolInv
<1>1. pools = <<NewPool>> /\ pools \in Seq(Pool) /\ Len(pools) = 1 /\ pools[1] = NewPool
  BY NewPoolOK DEF Init
<1>2. TypeOK
  <2>1. Current.status = "new"
    BY <1>1 DEF Current, Last, NewPool
  <2> QED
    BY <1>1, <2>1, ActivityPoolAssumption DEF Init, TypeOK
<1>3. PoolsInv
  <2>1. PoolOK(NewPool) /\ Handed(NewPool) = {} /\ ToSet(NewPool.work) = {}
    BY NewPoolOK, EmptyOnce DEF NewPool
  <2>2. PoolOK(NewPool) /\ FuturesOK(NewPool, future)
    BY <2>1 DEF FuturesOK
  <2>3. \A g \in 1..1 : g = 1
    OBVIOUS
  <2> QED
    BY <1>1, <2>2, <2>3 DEF PoolsInv, PoolsOK
<1>4. RunsInv
  BY DEF Init, RunsInv, Waiting
<1>5. DamageInv
  <2>1. Spoiled = {} /\ Spoiled \ {Len(pools)} = {}
    <3>1. \A g \in 1..1 : g = 1
      OBVIOUS
    <3> QED
      BY <1>1, <3>1 DEF Spoiled, Spoilt, NewPool
  <2>2. Reported = {}
    BY DEF Init, Reported
  <2>3. Cardinality(Spoiled) = 0 /\ Cardinality(Spoiled \ {Len(pools)}) = 0 /\ Cardinality(Reported) = 0
    BY <2>1, <2>2, FS_EmptySet
  <2>4. deaths = 0
    BY DEF Init
  <2> QED
    BY <1>1, <2>3, <2>4 DEF DamageInv
<1> QED
  BY <1>2, <1>3, <1>4, <1>5 DEF PoolInv

LEMMA NextKeeps ==
  ASSUME PoolInv, [Next]_vars
  PROVE  PoolInv'
<1>1. CASE \E r \in Runs : submit(r) \/ Resumes(r) \/ time_out(r)
  <2>1. PICK r \in Runs : submit(r) \/ Resumes(r) \/ time_out(r)
    BY <1>1
  <2> QED
    BY <2>1, SubmitKeeps, StopsKeep, BrokenKeeps DEF Resumes
<1>2. CASE \E g \in 1..Len(pools) : Manages(g) \/ take(g) \/ finish(g) \/ process_dies(g)
  <2>1. PICK g \in 1..Len(pools) : Manages(g) \/ take(g) \/ finish(g) \/ process_dies(g)
    BY <1>2
  <2> QED
    BY <2>1, FeedKeeps, TakeKeeps, FinishKeeps, DeathKeeps, TerminateKeeps, ShuttingDownKeeps DEF Manages
<1>3. CASE UNCHANGED vars
  <2>1. UNCHANGED <<pools, future, run, attempt, given_up, deaths>>
    BY <1>3 DEF vars
  <2>2. TypeOK'
    BY <2>1 DEF PoolInv, TypeOK, Current
  <2>3. PoolsInv' /\ RunsInv'
    BY <2>1 DEF PoolInv, PoolsInv, PoolsOK, PoolOK, FuturesOK, Held, Handed, RunsInv, Waiting, Awaited, Awaiting
  <2>4. DamageInv'
    BY <2>1 DEF PoolInv, DamageInv, Spoiled, Spoilt, Reported, Awaiting
  <2> QED
    BY <2>2, <2>3, <2>4 DEF PoolInv
<1> QED
  BY <1>1, <1>2, <1>3 DEF Next

LEMMA PoolInvariant == Spec => []PoolInv
<1> QED
  BY InitHolds, NextKeeps, PTL DEF Spec

\* activity_pool.py never leaves a shut-down executor behind as the current one: a
\* submission of executor.py meets a pool that is new, open or known to be broken.
THEOREM PoolsTyped == Spec => []TypeOK
<1>1. PoolInv => TypeOK
  BY DEF PoolInv
<1> QED
  BY <1>1, PoolInvariant, PTL

\* Two bodies of one run are executed side by side only if wait_for in executor.py gave
\* the earlier one up, whatever pools break or are replaced and however often.
THEOREM OneBody == Spec => []OneBodyPerRun
<1>1. ASSUME PoolInv, NEW g \in 1..Len(pools), NEW h \in 1..Len(pools),
             NEW a \in pools[g].bodies, NEW b \in pools[h].bodies, a[1] = b[1], a[2] < b[2]
      PROVE  a \in given_up
  <2>1. a \in Attempt /\ b \in Attempt
    BY <1>1, OnePool
  <2>2. future[a] = "running" /\ future[b] = "running"
    BY <1>1 DEF PoolInv, PoolsInv, PoolsOK, FuturesOK, Handed
  <2>3. /\ a \in given_up \/ attempt[a[1]] = a[2]
        /\ ~(b[2] > attempt[b[1]])
    BY <1>1, <2>1, <2>2 DEF PoolInv, RunsInv, Awaiting
  <2> QED
    BY <1>1, <2>3
<1>2. PoolInv => OneBodyPerRun
  BY <1>1 DEF OneBodyPerRun
<1> QED
  BY <1>2, PoolInvariant, PTL

\* activity_pool.mark_broken, which replaces whatever pool is current, cannot run away:
\* there are never more pools than deaths and broken attempts account for.
THEOREM DamageIsBounded == Spec => []DamageBounded
<1>1. ASSUME PoolInv PROVE DamageBounded
  <2> DEFINE B == {a \in Attempt : future[a] = "broken"}
  <2>1. TypeOK /\ DamageInv
    BY <1>1 DEF PoolInv
  <2>2. /\ Len(pools) \in Nat /\ deaths \in Nat /\ Cardinality(Spoiled) \in Nat
        /\ Cardinality(Spoiled \ {Len(pools)}) \in Nat
        /\ Cardinality(Spoiled \ {Len(pools)}) <= Cardinality(Spoiled)
        /\ Cardinality(Reported) \in Nat
    BY <2>1, DamageNumbers
  <2>3. IsFiniteSet(B)
    <3>1. B \subseteq Attempt
      OBVIOUS
    <3> QED
      BY <3>1, AttemptsFinite, FS_Subset
  <2>4. Reported \subseteq B
    BY DEF Reported
  <2> HIDE DEF B
  <2>5. Cardinality(Reported) <= Cardinality(B) /\ Cardinality(B) \in Nat
    BY <2>3, <2>4, FS_Subset, FS_CardinalityType
  <2>6. Len(pools) <= 1 + deaths + Cardinality(B)
    BY <2>1, <2>2, <2>5 DEF DamageInv
  <2> QED
    BY <2>6 DEF DamageBounded, B
<1> QED
  BY <1>1, PoolInvariant, PTL
=============================================================================
