------------------------------- MODULE Stream -------------------------------
(***************************************************************************)
(* How the end of a workflow reaches a client: the writers of one          *)
(* workflow's log and their notifications, the LISTEN connection and the   *)
(* event streams of the API process (api/sse.py, api/server.py), and       *)
(* result() of the clients that read them (client.py).                     *)
(*                                                                         *)
(* Unlike Queries this module tells an event's id, which BIGSERIAL assigns *)
(* at INSERT, from the moment it becomes visible, which is COMMIT: log[n]  *)
(* is the row with id n, visible the ids committed.  Writers of one log    *)
(* run side by side: the worker and every request that sends a signal.     *)
(***************************************************************************)
EXTENDS Naturals, Sequences, FiniteSets

CONSTANTS
  Worker,      \* the worker that runs the workflow
  Signallers,  \* API requests that write a signal to it
  Events,      \* number of events the worker writes before the terminal one
  Results,     \* what the workflow function may return
  None,        \* Python None
  Clients,     \* calls of WorkflowHandle.result()
  Impatient,   \* those with a timeout
  FaultLimits  \* bound: the numbers of faults of each kind that may occur together

Writers == {Worker} \cup Signallers
_SSE_MAX_ATTEMPTS == 3
FaultKinds == {"death", "api", "listener"}

ASSUME StreamAssumption ==
  /\ Worker \notin Signallers
  /\ Events \in Nat
  /\ Impatient \subseteq Clients
  /\ FaultLimits \subseteq [FaultKinds -> Nat]

\* A row of the events table: its type, and the result in its payload.
Row == [type : {"event", "workflow_completed", "workflow_failed"}, result : Results \cup {None}]
_TERMINAL_EVENT_TYPES == {"workflow_completed", "workflow_failed"}

VARIABLES
  log,            \* log[n]: the row with id n, committed or not
  visible,        \* ids of the committed rows
  todo,           \* writes a writer still has to do
  txn,            \* id of its uncommitted row, 0 if none
  owed,           \* write_event has inserted and not yet notified
  api,            \* the API process is up
  listening,      \* its LISTEN connection is alive
  notifications,  \* NOTIFYs sent and not yet delivered
  subscribers,    \* the streams with a queue in _subscriber_queues
  queue,          \* number of items in a stream's queue
  batch,          \* ids a stream has fetched and not yet yielded
  last_event_id,  \* the stream's last_event_id
  received,       \* ids the stream has yielded
  missed,         \* ids committed between the snapshot and the registration
  pc,             \* where a client's call, and the stream it reads, is
  attempt,        \* number of attempts begun
  errors,         \* number of attempts that ended in a connection error
  answer,         \* what the call returned or raised
  faults

database == <<log, visible, todo, txn, owed>>
streams == <<subscribers, queue, batch, last_event_id, received, missed>>
calls == <<pc, attempt, errors, answer>>
vars == <<log, visible, todo, txn, owed, api, listening, notifications, subscribers, queue, batch,
          last_event_id, received, missed, pc, attempt, errors, answer, faults>>

Over == {"returned", "failed", "gave_up", "timed_out"}
InStream == {"replay", "wait", "read", "tail"}
PC == {"new", "connect", "backoff"} \cup InStream \cup Over

TypeOK ==
  /\ log \in Seq(Row) /\ visible \subseteq 1..Len(log)
  /\ todo \in [Writers -> 0..(Events + 1)]
  /\ txn \in [Writers -> 0..Len(log)]
  /\ owed \in [Writers -> BOOLEAN]
  /\ api \in BOOLEAN /\ listening \in BOOLEAN /\ notifications \in Nat
  /\ subscribers = {c \in Clients : pc[c] \in {"wait", "read", "tail"}}
  /\ queue \in [Clients -> Nat]
  /\ batch \in [Clients -> SUBSET visible]
  /\ last_event_id \in [Clients -> Nat]
  /\ received \in [Clients -> SUBSET visible]
  /\ missed \in [Clients -> SUBSET visible]
  /\ pc \in [Clients -> PC]
  /\ attempt \in [Clients -> 0.._SSE_MAX_ATTEMPTS]
  /\ errors \in [Clients -> 0.._SSE_MAX_ATTEMPTS]
  /\ answer \in [Clients -> Results \cup {None}]
  /\ faults \in [FaultKinds -> Nat]

Init ==
  /\ log = <<>> /\ visible = {}
  /\ todo = [w \in Writers |-> IF w = Worker THEN Events + 1 ELSE 1]
  /\ txn = [w \in Writers |-> 0]
  /\ owed = [w \in Writers |-> FALSE]
  /\ api = TRUE /\ listening = TRUE /\ notifications = 0
  /\ subscribers = {}
  /\ queue = [c \in Clients |-> 0]
  /\ batch = [c \in Clients |-> {}]
  /\ last_event_id = [c \in Clients |-> 0]
  /\ received = [c \in Clients |-> {}]
  /\ missed = [c \in Clients |-> {}]
  /\ pc = [c \in Clients |-> "new"]
  /\ attempt = [c \in Clients |-> 0]
  /\ errors = [c \in Clients |-> 0]
  /\ answer = [c \in Clients |-> None]
  /\ faults = [f \in FaultKinds |-> 0]

-----------------------------------------------------------------------------
(***************************************************************************)
(* Writers (db/queries.py).  The worker writes its events one after the    *)
(* other with write_event, and its last write is the terminal event.       *)
(***************************************************************************)
Ending(w) == w = Worker /\ todo[w] = 1
TerminalRows ==
  {[type |-> "workflow_failed", result |-> None]}
    \cup {[type |-> "workflow_completed", result |-> r] : r \in Results}
RowsOf(w) == IF Ending(w) THEN TerminalRows ELSE {[type |-> "event", result |-> None]}

insert(w) ==
  /\ todo[w] > 0 /\ txn[w] = 0 /\ ~owed[w]
  /\ \E r \in RowsOf(w) : log' = Append(log, r)
  /\ txn' = [txn EXCEPT ![w] = Len(log) + 1]
  /\ UNCHANGED <<visible, todo, owed, api, listening, notifications, streams, calls, faults>>

\* A NOTIFY reaches the listener only if there is one when it is sent.
Sent == IF listening THEN notifications + 1 ELSE notifications

commit_silently(w) == \* mutant: no pg_notify in a transaction
  /\ txn[w] # 0
  /\ visible' = visible \cup {txn[w]}
  /\ todo' = [todo EXCEPT ![w] = @ - 1]
  /\ txn' = [txn EXCEPT ![w] = 0]
  /\ UNCHANGED <<log, owed, api, listening, notifications, streams, calls, faults>>

\* A transaction notifies as it commits; write_event, which commits its INSERT
\* by itself, notifies in a statement of its own.
commit(w) ==
  /\ txn[w] # 0
  /\ visible' = visible \cup {txn[w]}
  /\ todo' = [todo EXCEPT ![w] = @ - 1]
  /\ txn' = [txn EXCEPT ![w] = 0]
  /\ IF w \in Signallers \/ Ending(w)
     THEN notifications' = Sent /\ UNCHANGED owed
     ELSE owed' = [owed EXCEPT ![w] = TRUE] /\ UNCHANGED notifications
  /\ UNCHANGED <<log, api, listening, streams, calls, faults>>

notify(w) ==
  /\ owed[w]
  /\ owed' = [owed EXCEPT ![w] = FALSE]
  /\ notifications' = Sent
  /\ UNCHANGED <<log, visible, todo, txn, api, listening, streams, calls, faults>>

-----------------------------------------------------------------------------
(***************************************************************************)
(* The API process (api/sse.py, stream_workflow of api/server.py).         *)
(***************************************************************************)
on_notify ==
  /\ notifications > 0
  /\ notifications' = notifications - 1
  /\ queue' = [c \in Clients |-> IF c \in subscribers THEN queue[c] + 1 ELSE queue[c]]
  /\ UNCHANGED <<database, api, listening, subscribers, batch, last_event_id, received, missed,
                 calls, faults>>

open_at_cursor(c) == \* mutant: a new connection resumes after the last id seen
  /\ pc[c] = "connect" /\ api
  /\ batch' = [batch EXCEPT ![c] = {n \in visible : n > last_event_id[c]}]
  /\ pc' = [pc EXCEPT ![c] = "replay"]
  /\ UNCHANGED <<database, api, listening, notifications, subscribers, queue, last_event_id,
                 received, missed, attempt, errors, answer, faults>>

\* The endpoint loads the history and hands it to a new generator.
open(c) ==
  /\ pc[c] = "connect" /\ api
  /\ batch' = [batch EXCEPT ![c] = visible]
  /\ last_event_id' = [last_event_id EXCEPT ![c] = 0]
  /\ received' = [received EXCEPT ![c] = {}]
  /\ missed' = [missed EXCEPT ![c] = {}]
  /\ pc' = [pc EXCEPT ![c] = "replay"]
  /\ UNCHANGED <<database, api, listening, notifications, subscribers, queue, attempt, errors,
                 answer, faults>>

register_late(c) == \* mutant: the queue is created and not appended
  /\ pc[c] = "replay" /\ batch[c] = {}
  /\ pc' = [pc EXCEPT ![c] = "wait"]
  /\ UNCHANGED <<database, api, listening, notifications, streams, attempt, errors, answer, faults>>

\* All existing events have been yielded: the generator registers its queue.
register(c) ==
  /\ pc[c] = "replay" /\ batch[c] = {}
  /\ subscribers' = subscribers \cup {c}
  /\ queue' = [queue EXCEPT ![c] = 0]
  /\ missed' = [missed EXCEPT ![c] = visible \ received[c]]
  /\ pc' = [pc EXCEPT ![c] = "wait"]
  /\ UNCHANGED <<database, api, listening, notifications, batch, last_event_id, received,
                 attempt, errors, answer, faults>>

get(c) ==
  /\ pc[c] = "wait" /\ queue[c] > 0
  /\ queue' = [queue EXCEPT ![c] = @ - 1]
  /\ pc' = [pc EXCEPT ![c] = "read"]
  /\ UNCHANGED <<database, api, listening, notifications, subscribers, batch, last_event_id,
                 received, missed, attempt, errors, answer, faults>>

AllEvents(c) == visible \* mutant: after_event_id is not passed on
After(c) == {n \in visible : n > last_event_id[c]}

load_events_after(c) ==
  /\ pc[c] = "read"
  /\ batch' = [batch EXCEPT ![c] = After(c)]
  /\ pc' = [pc EXCEPT ![c] = "tail"]
  /\ UNCHANGED <<database, api, listening, notifications, subscribers, queue, last_event_id,
                 received, missed, attempt, errors, answer, faults>>

exhausted_and_drained(c) == \* mutant: the notifications queued meanwhile are dropped
  /\ pc[c] = "tail" /\ batch[c] = {}
  /\ queue' = [queue EXCEPT ![c] = 0]
  /\ pc' = [pc EXCEPT ![c] = "wait"]
  /\ UNCHANGED <<database, api, listening, notifications, subscribers, batch, last_event_id,
                 received, missed, attempt, errors, answer, faults>>

exhausted(c) ==
  /\ pc[c] = "tail" /\ batch[c] = {}
  /\ pc' = [pc EXCEPT ![c] = "wait"]
  /\ UNCHANGED <<database, api, listening, notifications, streams, attempt, errors, answer, faults>>

-----------------------------------------------------------------------------
(***************************************************************************)
(* The client (client.py).  A line the server yields is read at once; a    *)
(* connection that breaks loses what a client would read again anyway.     *)
(***************************************************************************)
result(c) ==
  /\ pc[c] = "new"
  /\ pc' = [pc EXCEPT ![c] = "connect"]
  /\ attempt' = [attempt EXCEPT ![c] = 1]
  /\ UNCHANGED <<database, api, listening, notifications, streams, errors, answer, faults>>

\* Where the calls in S go when their attempts end without a terminal event.
Retried(S) ==
  [c \in Clients |-> IF c \notin S THEN pc[c]
                     ELSE IF attempt[c] < _SSE_MAX_ATTEMPTS THEN "backoff" ELSE "gave_up"]

\* The stream of c is at its end: its queue is removed.
Deregister(S) == subscribers' = subscribers \ S

\* The next line of the stream, in the order of ids.
Line(c, n) ==
  /\ pc[c] \in {"replay", "tail"}
  /\ n \in batch[c] /\ \A m \in batch[c] : n <= m
  /\ last_event_id' = [last_event_id EXCEPT ![c] = n]
  /\ received' = [received EXCEPT ![c] = @ \cup {n}]
  /\ UNCHANGED <<database, api, listening, notifications, queue, missed, attempt, errors, faults>>

yield(c, n) ==
  /\ Line(c, n)
  /\ log[n].type \notin _TERMINAL_EVENT_TYPES
  /\ batch' = [batch EXCEPT ![c] = @ \ {n}]
  /\ UNCHANGED <<subscribers, pc, answer>>

\* _result takes a result of None for a stream that closed.
Answered(c, r) == r # None

workflow_completed(c, n) ==
  /\ Line(c, n)
  /\ log[n].type = "workflow_completed"
  /\ batch' = [batch EXCEPT ![c] = {}]
  /\ Deregister({c})
  /\ IF Answered(c, log[n].result)
     THEN /\ pc' = [pc EXCEPT ![c] = "returned"]
          /\ answer' = [answer EXCEPT ![c] = log[n].result]
     ELSE pc' = Retried({c}) /\ UNCHANGED answer

activity_failed(c, n) == \* mutant: any failure in the log counts
  /\ Line(c, n)
  /\ log[n].type # "workflow_completed"
  /\ batch' = [batch EXCEPT ![c] = {}]
  /\ Deregister({c})
  /\ pc' = [pc EXCEPT ![c] = "failed"]
  /\ UNCHANGED answer

workflow_failed(c, n) ==
  /\ Line(c, n)
  /\ log[n].type = "workflow_failed"
  /\ batch' = [batch EXCEPT ![c] = {}]
  /\ Deregister({c})
  /\ pc' = [pc EXCEPT ![c] = "failed"]
  /\ UNCHANGED answer

\* ConnectError while the API is down.
connect_error(c) ==
  /\ pc[c] = "connect" /\ ~api
  /\ errors' = [errors EXCEPT ![c] = @ + 1]
  /\ pc' = Retried({c})
  /\ UNCHANGED <<database, api, listening, notifications, streams, attempt, answer, faults>>

retry(c) ==
  /\ pc[c] = "backoff"
  /\ attempt' = [attempt EXCEPT ![c] = @ + 1]
  /\ pc' = [pc EXCEPT ![c] = "connect"]
  /\ UNCHANGED <<database, api, listening, notifications, streams, errors, answer, faults>>

\* The timeout cancels the call, and with the connection its stream.
time_out(c) ==
  /\ c \in Impatient /\ pc[c] \notin Over \cup {"new"}
  /\ pc' = [pc EXCEPT ![c] = "timed_out"]
  /\ batch' = [batch EXCEPT ![c] = {}]
  /\ Deregister({c})
  /\ UNCHANGED <<database, api, listening, notifications, queue, last_event_id, received, missed,
                 attempt, errors, answer, faults>>

-----------------------------------------------------------------------------
(***************************************************************************)
(* Faults.                                                                 *)
(***************************************************************************)
Fault(f) ==
  /\ faults' = [faults EXCEPT ![f] = @ + 1]
  /\ \E limit \in FaultLimits : \A k \in FaultKinds : faults'[k] <= limit[k]

\* A writer dies: its open transaction rolls back, leaving a gap in the ids, and
\* the notification it owes is never sent.  Another worker does the write again.
die(w) ==
  /\ txn[w] # 0 \/ owed[w]
  /\ Fault("death")
  /\ txn' = [txn EXCEPT ![w] = 0]
  /\ owed' = [owed EXCEPT ![w] = FALSE]
  /\ UNCHANGED <<log, visible, todo, api, listening, notifications, streams, calls>>

\* The API process ends; every stream breaks and notifications find nobody.
stop_api ==
  /\ api
  /\ Fault("api")
  /\ api' = FALSE /\ listening' = FALSE /\ notifications' = 0
  /\ LET broken == {c \in Clients : pc[c] \in InStream} IN
       /\ pc' = Retried(broken)
       /\ errors' = [c \in Clients |-> IF c \in broken THEN errors[c] + 1 ELSE errors[c]]
       /\ batch' = [c \in Clients |-> IF c \in broken THEN {} ELSE batch[c]]
  /\ subscribers' = {}
  /\ UNCHANGED <<database, queue, last_event_id, received, missed, attempt, answer>>

start_api ==
  /\ ~api
  /\ api' = TRUE /\ listening' = TRUE
  /\ UNCHANGED <<database, notifications, streams, calls, faults>>

\* The LISTEN connection is lost; nothing opens it again.
lose_listener ==
  /\ listening
  /\ Fault("listener")
  /\ listening' = FALSE /\ notifications' = 0
  /\ UNCHANGED <<database, api, streams, calls>>

-----------------------------------------------------------------------------
Write(w) == insert(w) \/ commit(w) \/ notify(w)

Serve(c) ==
  \/ open(c) \/ register(c) \/ get(c) \/ load_events_after(c) \/ exhausted(c)
  \/ \E n \in batch[c] : yield(c, n) \/ workflow_completed(c, n) \/ workflow_failed(c, n)

Call(c) == connect_error(c) \/ retry(c)

Next ==
  \/ \E w \in Writers : Write(w) \/ die(w)
  \/ on_notify
  \/ \E c \in Clients : result(c) \/ Serve(c) \/ Call(c) \/ time_out(c)
  \/ stop_api \/ start_api \/ lose_listener

Spec == Init /\ [][Next]_vars

\* Writers finish what they write, Postgres delivers, the API serves and clients
\* go on with a call once made.  Nothing makes a client call, or an API restart.
Fairness ==
  /\ \A w \in Writers : WF_vars(Write(w))
  /\ WF_vars(on_notify)
  /\ \A c \in Clients : WF_vars(Serve(c)) /\ WF_vars(Call(c))

FairSpec == Spec /\ Fairness

-----------------------------------------------------------------------------
(***************************************************************************)
(* Properties.                                                             *)
(***************************************************************************)
Ends == {n \in visible : log[n].type \in _TERMINAL_EVENT_TYPES}
Finished(c) == pc[c] \in Over

\* Within one connection ids only grow: however notifications coalesce, repeat or
\* arrive for events already sent, no event is streamed twice or out of order.
InOrderOnce ==
  [][\A c \in Clients : \A n \in batch[c] : Line(c, n) => \A m \in received[c] : m < n]_vars

\* A call that returns a value returns that of a committed WORKFLOW_COMPLETED,
\* one that raises for a failed workflow has seen a committed WORKFLOW_FAILED, and
\* one that gives up met three connection errors, or a workflow that returned None:
\* a result of None is taken for a stream that closed and read three times.
AnswerIsTrue ==
  \A c \in Clients :
    /\ pc[c] = "returned" => \E n \in Ends : log[n] = [type |-> "workflow_completed", result |-> answer[c]]
    /\ pc[c] = "failed" => \E n \in Ends : log[n].type = "workflow_failed"
    /\ pc[c] = "gave_up" => \/ errors[c] = _SSE_MAX_ATTEMPTS
                            \/ \E n \in Ends : log[n] = [type |-> "workflow_completed", result |-> None]

\* A stream that waits with nothing left to wake it has sent the workflow's end,
\* except for two reasons: the end was committed and announced between the
\* endpoint's read and the registration of the queue, or its id is smaller than
\* one already sent.
MissedForAReason ==
  \A c \in Clients :
    (pc[c] = "wait" /\ queue[c] = 0 /\ notifications = 0 /\ listening) =>
      \A n \in Ends : n \in received[c] \/ n \in missed[c] \/ n < last_event_id[c]

\* Without faults, and without a signal that overtakes the end, a stream that has
\* registered before the workflow ends gets the end to its client.
Undisturbed(c) ==
  /\ \A f \in FaultKinds : faults[f] = 0
  /\ \A n \in Ends : c \in subscribers => n \in received[c] \/ n >= last_event_id[c]
TailingIsAnswered ==
  \A c \in Clients :
    (c \in subscribers /\ Ends \ missed[c] # {}) ~> (Finished(c) \/ ~Undisturbed(c))

\* A client that connects after the workflow ended comes to an end, whatever
\* happens to the API and the LISTEN connection meanwhile.
AnsweredAfterTheEnd == \A c \in Clients : (pc[c] = "connect" /\ Ends # {}) ~> Finished(c)
=============================================================================
