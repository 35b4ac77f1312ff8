------------------------------ MODULE MCEngine ------------------------------
(***************************************************************************)
(* Small instances of Engine: the programs of the workflows, the fleets of *)
(* workers and the fault budgets the configurations choose from.           *)
(***************************************************************************)
EXTENDS EngineDurable, TLC

CONSTANTS p, c, d, g, a, b, r1, r2, q1, q2, s1, s2, w1

Act(call, n) == [op |-> "activity", key |-> call, retries |-> n]
Sleep == [op |-> "sleep", key |-> None, retries |-> 0]
Signal(t) == [op |-> "signal", key |-> t, retries |-> 0]
Spawn(i) == [op |-> "spawn", key |-> i, retries |-> 0]
Join(i) == [op |-> "join", key |-> i, retries |-> 0]
Raise == [op |-> "raise", key |-> None, retries |-> 0]

\* One slot per worker, or one worker with all the slots; either way slots can
\* be permuted.
OneSlotEach == [s \in Slots |-> s]
OneWorker == [s \in Slots |-> w1]
Symmetric == Permutations(Slots)

Fixed(body) == [v \in Versions |-> body]

\* A parent that sleeps, waits for a signal, which may come during the sleep, executes
\* an activity and runs a child, which executes another.
ParentChild == Fixed(
  [i \in Ids |-> IF i = p THEN <<Sleep, Signal(g), Act(a, 1), Spawn(c), Join(c)>> ELSE <<Act(b, 1)>>])

\* A parent with two children it joins in the order opposite to spawning.
FanOut == Fixed(
  [i \in Ids |-> CASE i = p -> <<Spawn(c), Spawn(d), Join(d), Join(c)>>
                    [] i = c -> <<Signal(g)>>
                    [] i = d -> <<Act(a, 0)>>])

\* Version 2 replaces the activity of the parent, which then sleeps, runs a child that
\* raises, and waits for a signal, which may come at any time.
Redeploy ==
  [v \in Versions |->
    [i \in Ids |-> IF i = p THEN <<Act(IF v = 1 THEN a ELSE b, 1), Sleep, Spawn(c), Signal(g), Join(c)>>
                    ELSE <<Raise>>]]

\* The smallest programs with every way of waiting, for the runs with stalls.
Short == Fixed(
  [i \in Ids |-> IF i = p THEN <<Signal(g), Spawn(c), Join(c)>> ELSE <<Act(b, 1)>>])

\* Short programs, each for one disagreement with the documents.
TwoActivities == Fixed([i \in Ids |-> <<Act(a, 1), Act(b, 0)>>])
Unjoined == Fixed([i \in Ids |-> IF i = p THEN <<Spawn(c), Act(a, 0)>> ELSE <<Act(b, 0)>>])

AllRegistered == [v \in Versions |-> Ids]
OnlyVersion1RunsChild == [v \in Versions |-> IF v = 1 THEN Ids ELSE {p}]
ToParent == [q \in Requests |-> p]
ToChild == [q \in Requests |-> c]
OfTypeG == [q \in Requests |-> g]

Budget(crash, error, cancel, late) ==
  [f \in FaultKinds |-> CASE f = "crash" -> crash [] f = "error" -> error
                          [] f = "cancel" -> cancel [] f = "stall" -> late]
NoFaults == Budget(0, 0, 0, 0)
CrashAndCancel == Budget(1, 0, 1, 0)
TwoCrashes == Budget(2, 0, 0, 0)
AnyOneFault == Budget(1, 1, 1, 0)
TwoStalls == Budget(0, 0, 0, 2)
=============================================================================
