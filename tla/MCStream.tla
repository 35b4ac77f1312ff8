------------------------------ MODULE MCStream ------------------------------
(***************************************************************************)
(* Small instances of Stream: the fault budgets the configurations choose  *)
(* from.                                                                   *)
(***************************************************************************)
EXTENDS Stream

CONSTANTS r, c1

Budget(death, restart, listener) ==
  [f \in FaultKinds |-> CASE f = "death" -> death [] f = "api" -> restart [] f = "listener" -> listener]

\* Any two faults, except a writer and the API process, which restart apart: a stream
\* of the new process reads what either of them has committed.
TwoFaults == {Budget(1, 0, 1), Budget(0, 1, 1), Budget(0, 2, 0)}
=============================================================================
