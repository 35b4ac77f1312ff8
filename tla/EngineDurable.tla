--------------------------- MODULE EngineDurable ---------------------------
(***************************************************************************)
(* Engine as an implementation of Durable.  What is durable is the log: a  *)
(* step is decided as soon as its outcome is in the log, whether or not a  *)
(* run that knows it is alive.                                             *)
(***************************************************************************)
EXTENDS Engine

\* What a child's failure is recorded as is no other outcome of a step.
ASSUME FailedAssumption == Failed \notin Ids \cup Results \cup Requests \cup {None}

\* The body of each workflow, where no worker runs another version.
OnlyBody == Program[CHOOSE v \in Versions : TRUE]

D == INSTANCE Durable WITH
  Workflow <- OnlyBody,
  state <- [i \in Ids |-> IF status[i] \in Live THEN "live" ELSE status[i]],
  outcome <- [i \in Ids |-> [k \in DOMAIN OnlyBody[i] |-> Outcome(i, OnlyBody[i][k], k)]]

\* The engine's promise (README.md, "Execution Model"): whatever crashes, and however
\* often a workflow is replayed, it is executed as if by one worker that never fails.
\* It holds for workflows that take their signals and join their children before they
\* end, while no run loses its lock; NotScheduledAgain and OneTerminalEvent show what
\* the code does with others.
ExecutesDurably == D!Spec
=============================================================================
