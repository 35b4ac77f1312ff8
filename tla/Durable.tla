------------------------------ MODULE Durable ------------------------------
(***************************************************************************)
(* What durable execution promises a workflow: its steps are taken in      *)
(* order, the outcome of each is decided once and for good, it ends once,  *)
(* and its parent learns how.  No worker, lock, log, retry or crash occurs *)
(* here.                                                                   *)
(***************************************************************************)
EXTENDS Naturals, Sequences

CONSTANTS
  Ids,         \* workflow ids
  Roots,       \* those a client starts
  Workflow,    \* Workflow[i]: the steps of workflow i
  Results,     \* what activities return
  Requests,    \* the signals clients send, each its own payload
  SignalTo,    \* SignalTo[q]: the workflow q is sent to
  SignalType,  \* SignalType[q]: its signal type
  None, Done, Failed

VARIABLES
  state,   \* "absent", "live", "completed" or "failed"
  outcome  \* outcome[i][k]: what step k of i has come to, empty until it is decided

vars == <<state, outcome>>

Init ==
  /\ state = [i \in Ids |-> "absent"]
  /\ outcome = [i \in Ids |-> [k \in DOMAIN Workflow[i] |-> {}]]

\* Every step before step k has been decided, and none has failed.
Reached(i, k) ==
  /\ state[i] = "live"
  /\ \A m \in 1..(k - 1) : outcome[i][m] \notin {{}, {Failed}}

At(i, k, op) == Workflow[i][k].op = op /\ Reached(i, k) /\ outcome[i][k] = {}

\* The steps of j that take what arrives under this key and have not got it yet.
Expecting(j, op, key) ==
  {k \in DOMAIN Workflow[j] : Workflow[j][k].op = op /\ Workflow[j][k].key = key /\ outcome[j][k] = {}}

Taken(j, steps, v) == [k \in DOMAIN Workflow[j] |-> IF k \in steps THEN {v} ELSE outcome[j][k]]
Becomes(i, s) == state' = [state EXCEPT ![i] = s]
Decides(i, k, v) == outcome' = [outcome EXCEPT ![i] = Taken(i, {k}, v)]

-----------------------------------------------------------------------------
Start(i) ==
  /\ i \in Roots /\ state[i] = "absent"
  /\ Becomes(i, "live")
  /\ UNCHANGED outcome

Return(i, k) ==
  /\ \/ At(i, k, "activity") /\ \E r \in Results : Decides(i, k, r)
     \/ At(i, k, "sleep") /\ Decides(i, k, None)
  /\ UNCHANGED state

Spawn(i, k) ==
  /\ At(i, k, "spawn")
  /\ LET child == Workflow[i][k].key IN
       /\ state[child] = "absent"
       /\ Becomes(child, "live")
       /\ Decides(i, k, child)

\* A signal is taken also when it comes before its step; a second one of its type
\* changes nothing.
Receive(q) ==
  LET i == SignalTo[q] IN
  /\ state[i] = "live"
  /\ outcome' = [outcome EXCEPT ![i] = Taken(i, Expecting(i, "signal", SignalType[q]), q)]
  /\ UNCHANGED state

\* Whoever joins i learns how it ended at that moment.
Ends(i, s, v) ==
  /\ state[i] = "live"
  /\ Becomes(i, s)
  /\ outcome' = [j \in Ids |-> Taken(j, Expecting(j, "join", i), v)]

Complete(i) == Reached(i, Len(Workflow[i]) + 1) /\ Ends(i, "completed", Done)

\* At the step it has come to: an exception, no retry left, or a child that failed.
Fail(i) ==
  /\ \E k \in DOMAIN Workflow[i] : Reached(i, k) /\ outcome[i][k] \in {{}, {Failed}}
  /\ Ends(i, "failed", Failed)

Next ==
  \/ \E i \in Ids :
       \/ Start(i) \/ Complete(i) \/ Fail(i)
       \/ \E k \in DOMAIN Workflow[i] : Return(i, k) \/ Spawn(i, k)
  \/ \E q \in Requests : Receive(q)

Spec == Init /\ [][Next]_vars
=============================================================================
