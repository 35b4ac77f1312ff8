--------------------------- MODULE MCTransactions ---------------------------
(***************************************************************************)
(* Small instances of Transactions: a parent, its child, and the queries   *)
(* their runs and clients may have under way at the same time.             *)
(***************************************************************************)
EXTENDS Transactions

CONSTANTS parent, child, go, slot1, slot2, req

Call(name, i) == [name |-> name, id |-> i, kin |-> None, key |-> None, event |-> None,
                  n |-> 0, slot |-> None]
Claim(i, s) == [Call("claim_next_workflow", i) EXCEPT !.slot = s]
Mark(i, key) == [Call("mark_workflow_waiting", i) EXCEPT !.key = key]
Signal(i, key) == [Call("write_signal_and_wake_workflow", i) EXCEPT !.event = Event("signal", 0, key, req)]
Marker(i, key) == [Call("write_event", i) EXCEPT !.event = Event("signal", 0, key, Waiting)]
Sleep(i) == [Call("update_workflow_run_at", i) EXCEPT !.n = 1]
Extend(i) == Call("extend_workflow_lock", i)
Spawn(p, c) == [Call("create_child_workflow", p) EXCEPT !.kin = c, !.n = 1]
Complete_(i, p) == [Call("complete_workflow", i) EXCEPT !.kin = p]
Fail(i, p) == [Call("fail_workflow", i) EXCEPT !.kin = p]

Everything ==
  {Claim(parent, slot1), Claim(parent, slot2), Mark(parent, go), Mark(parent, child),
   Signal(parent, go), Marker(parent, go), Sleep(parent), Extend(parent), Spawn(parent, child),
   Complete_(child, parent), Fail(parent, None)}
OnlyParent == {parent}
=============================================================================
