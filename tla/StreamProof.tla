---------------------------- MODULE StreamProof ----------------------------
(***************************************************************************)
(* What Stream keeps for any number of writers, events, clients and        *)
(* faults: the order within a stream, that a call's answer is true, and    *)
(* that an end which a waiting stream has not sent was missed for one of   *)
(* two reasons.                                                            *)
(***************************************************************************)
EXTENDS Stream, TLAPS

\* A writer's uncommitted row is its next write, and an end is its last.
WritersInv ==
  \A w \in Writers : txn[w] # 0 =>
    /\ todo[w] > 0
    /\ log[txn[w]].type \in _TERMINAL_EVENT_TYPES => Ending(w)

\* Where a stream is in the log.
CursorOK(c) ==
  /\ \A m \in received[c] : m <= last_event_id[c]
  /\ last_event_id[c] = 0 \/ last_event_id[c] \in received[c]
  /\ \A m \in batch[c] : last_event_id[c] < m
  /\ pc[c] \in {"wait", "read"} => batch[c] = {}

\* An end not sent is about to be sent or noticed, or lost for a reason.
Noticed(c, n) ==
  \/ n \in received[c] \/ n \in missed[c] \/ n < last_event_id[c]
  \/ pc[c] = "tail" /\ n \in batch[c]
  \/ pc[c] = "read" \/ queue[c] > 0
  \/ notifications > 0 \/ ~listening
WakeOK(c) == pc[c] \in {"wait", "read", "tail"} => \A n \in Ends : Noticed(c, n)

\* Attempts that did not end in a connection error ended with a result of None.
ReturnedNone == \E n \in Ends : log[n] = [type |-> "workflow_completed", result |-> None]
Explained(c, failed) == errors[c] = failed \/ ReturnedNone
AttemptsOK(c) ==
  /\ errors[c] <= attempt[c]
  /\ pc[c] = "new" => attempt[c] = 0
  /\ pc[c] = "connect" \/ pc[c] \in InStream => errors[c] < attempt[c] /\ Explained(c, attempt[c] - 1)
  /\ pc[c] = "backoff" => attempt[c] < _SSE_MAX_ATTEMPTS /\ Explained(c, attempt[c])

AnswerOK(c) ==
  /\ pc[c] = "returned" => \E n \in Ends : log[n] = [type |-> "workflow_completed", result |-> answer[c]]
  /\ pc[c] = "failed" => \E n \in Ends : log[n].type = "workflow_failed"
  /\ pc[c] = "gave_up" => Explained(c, _SSE_MAX_ATTEMPTS)

\* No stream outlives the API process.
ClientOK(c) == CursorOK(c) /\ WakeOK(c) /\ AttemptsOK(c) /\ AnswerOK(c) /\ (~api => pc[c] \notin InStream)

StreamInv == TypeOK /\ WritersInv /\ (listening => api) /\ \A c \in Clients : ClientOK(c)

-----------------------------------------------------------------------------
(***************************************************************************)
(* What concerns a client depends on what it reads only.                   *)
(***************************************************************************)
Same(d) ==
  /\ pc'[d] = pc[d] /\ queue'[d] = queue[d] /\ batch'[d] = batch[d]
  /\ last_event_id'[d] = last_event_id[d] /\ received'[d] = received[d] /\ missed'[d] = missed[d]
  /\ attempt'[d] = attempt[d] /\ errors'[d] = errors[d] /\ answer'[d] = answer[d]

LEMMA SameClient ==
  ASSUME NEW d, ClientOK(d), Same(d), UNCHANGED <<log, visible, api, listening, notifications>>
  PROVE  ClientOK(d)'
<1>1. CursorOK(d)'
  BY DEF ClientOK, Same, CursorOK
<1>2. WakeOK(d)'
  BY DEF ClientOK, Same, WakeOK, Noticed, Ends
<1>3. AttemptsOK(d)'
  BY DEF ClientOK, Same, AttemptsOK, Explained, ReturnedNone, Ends
<1>4. AnswerOK(d)'
  BY DEF ClientOK, Same, AnswerOK, Explained, ReturnedNone, Ends
<1> QED
  BY <1>1, <1>2, <1>3, <1>4 DEF ClientOK, Same

\* A step of one client.
LEMMA ClientSteps ==
  ASSUME StreamInv, TypeOK', NEW c \in Clients, ClientOK(c)', \A d \in Clients \ {c} : Same(d),
         UNCHANGED <<database, api, listening, notifications>>
  PROVE  StreamInv'
<1>1. UNCHANGED <<log, visible, todo, txn, owed, api, listening, notifications>>
  BY DEF database
<1>2. \A d \in Clients : ClientOK(d)'
  BY <1>1, SameClient DEF StreamInv
<1>3. WritersInv'
  BY <1>1 DEF StreamInv, WritersInv, Ending
<1> QED
  BY <1>1, <1>2, <1>3 DEF StreamInv

LEMMA OneClient ==
  ASSUME StreamInv, NEW c \in Clients
  PROVE  /\ TypeOK /\ ClientOK(c) /\ visible \subseteq 1..Len(log) /\ Len(log) \in Nat
         /\ pc[c] \in PC /\ queue[c] \in Nat /\ batch[c] \subseteq visible /\ received[c] \subseteq visible
         /\ missed[c] \subseteq visible /\ last_event_id[c] \in Nat
         /\ attempt[c] \in 0.._SSE_MAX_ATTEMPTS /\ errors[c] \in 0.._SSE_MAX_ATTEMPTS
         /\ \A n \in visible : n \in Nat /\ n > 0 /\ log[n] \in Row
<1>1. TypeOK /\ ClientOK(c)
  BY DEF StreamInv
<1>2. visible \subseteq 1..Len(log) /\ Len(log) \in Nat /\ \A n \in 1..Len(log) : log[n] \in Row
  BY <1>1 DEF TypeOK
<1> QED
  BY <1>1, <1>2 DEF TypeOK

-----------------------------------------------------------------------------
(***************************************************************************)
(* The event stream of a client.                                           *)
(***************************************************************************)
LEMMA OpenKeeps ==
  ASSUME StreamInv, NEW c \in Clients, open(c)
  PROVE  StreamInv'
<1>1. /\ TypeOK /\ ClientOK(c) /\ \A n \in visible : n \in Nat /\ n > 0
      /\ pc[c] = "connect" /\ api
  BY OneClient DEF open
<1>2. /\ batch' = [batch EXCEPT ![c] = visible] /\ last_event_id' = [last_event_id EXCEPT ![c] = 0]
      /\ received' = [received EXCEPT ![c] = {}] /\ missed' = [missed EXCEPT ![c] = {}]
      /\ pc' = [pc EXCEPT ![c] = "replay"]
      /\ UNCHANGED <<log, visible, todo, txn, owed, api, listening, notifications, subscribers, queue,
                     attempt, errors, answer, faults>>
  BY DEF open, database
<1>3. TypeOK'
  BY <1>1, <1>2 DEF TypeOK, PC, InStream
<1>4. \A d \in Clients \ {c} : Same(d)
  BY <1>1, <1>2 DEF TypeOK, Same
<1>5. /\ batch'[c] = visible /\ last_event_id'[c] = 0 /\ received'[c] = {} /\ pc'[c] = "replay"
      /\ attempt'[c] = attempt[c] /\ errors'[c] = errors[c]
  BY <1>1, <1>2 DEF TypeOK
<1>6. CursorOK(c)'
  BY <1>1, <1>5 DEF CursorOK
<1>7. WakeOK(c)' /\ AnswerOK(c)'
  BY <1>5 DEF WakeOK, AnswerOK
<1>8. AttemptsOK(c)'
  BY <1>1, <1>2, <1>5 DEF ClientOK, AttemptsOK, Explained, ReturnedNone, Ends, InStream
<1>9. ClientOK(c)'
  BY <1>1, <1>2, <1>6, <1>7, <1>8 DEF ClientOK
<1>10. UNCHANGED <<database, api, listening, notifications>>
  BY <1>2 DEF database
<1> QED
  BY <1>3, <1>4, <1>9, <1>10, ClientSteps

LEMMA RegisterKeeps ==
  ASSUME StreamInv, NEW c \in Clients, register(c)
  PROVE  StreamInv'
<1>1. TypeOK /\ ClientOK(c) /\ pc[c] = "replay" /\ batch[c] = {}
  BY OneClient DEF register
<1>2. /\ subscribers' = subscribers \cup {c} /\ queue' = [queue EXCEPT ![c] = 0]
      /\ missed' = [missed EXCEPT ![c] = visible \ received[c]] /\ pc' = [pc EXCEPT ![c] = "wait"]
      /\ UNCHANGED <<log, visible, todo, txn, owed, api, listening, notifications, batch, last_event_id,
                     received, attempt, errors, answer, faults>>
  BY DEF register, database
<1>3. TypeOK'
  BY <1>1, <1>2 DEF TypeOK, PC, InStream
<1>4. \A d \in Clients \ {c} : Same(d)
  BY <1>1, <1>2 DEF TypeOK, Same
<1>5. missed'[c] = visible \ received[c] /\ pc'[c] = "wait"
  BY <1>1, <1>2 DEF TypeOK
<1>6. CursorOK(c)'
  BY <1>1, <1>2, <1>5 DEF ClientOK, CursorOK
<1>7. WakeOK(c)' /\ AnswerOK(c)'
  BY <1>2, <1>5 DEF WakeOK, AnswerOK, Noticed, Ends
<1>8. AttemptsOK(c)'
  BY <1>1, <1>2, <1>5 DEF ClientOK, AttemptsOK, Explained, ReturnedNone, Ends, InStream
<1>9. ClientOK(c)'
  BY <1>1, <1>2, <1>5, <1>6, <1>7, <1>8 DEF ClientOK, InStream
<1>10. UNCHANGED <<database, api, listening, notifications>>
  BY <1>2 DEF database
<1> QED
  BY <1>3, <1>4, <1>9, <1>10, ClientSteps

LEMMA GetKeeps ==
  ASSUME StreamInv, NEW c \in Clients, get(c)
  PROVE  StreamInv'
<1>1. TypeOK /\ ClientOK(c) /\ pc[c] = "wait" /\ queue[c] > 0
  BY OneClient DEF get
<1>2. /\ queue' = [queue EXCEPT ![c] = @ - 1] /\ pc' = [pc EXCEPT ![c] = "read"]
      /\ UNCHANGED <<log, visible, todo, txn, owed, api, listening, notifications, subscribers, batch,
                     last_event_id, received, missed, attempt, errors, answer, faults>>
  BY DEF get, database
<1>3. TypeOK'
  BY <1>1, <1>2 DEF TypeOK, PC, InStream
<1>4. \A d \in Clients \ {c} : Same(d)
  BY <1>1, <1>2 DEF TypeOK, Same
<1>5. pc'[c] = "read"
  BY <1>1, <1>2 DEF TypeOK
<1>6. CursorOK(c)'
  BY <1>1, <1>2, <1>5 DEF ClientOK, CursorOK
<1>7. WakeOK(c)' /\ AnswerOK(c)'
  BY <1>5 DEF WakeOK, AnswerOK, Noticed
<1>8. AttemptsOK(c)'
  BY <1>1, <1>2, <1>5 DEF ClientOK, AttemptsOK, Explained, ReturnedNone, Ends, InStream
<1>9. ClientOK(c)'
  BY <1>1, <1>2, <1>5, <1>6, <1>7, <1>8 DEF ClientOK, InStream
<1>10. UNCHANGED <<database, api, listening, notifications>>
  BY <1>2 DEF database
<1> QED
  BY <1>3, <1>4, <1>9, <1>10, ClientSteps

\* Of the ends a stream does not read after its cursor, the last it sent is one, and
\* the others are smaller.
LEMMA LoadKeeps ==
  ASSUME StreamInv, NEW c \in Clients, load_events_after(c)
  PROVE  StreamInv'
<1>1. /\ TypeOK /\ ClientOK(c) /\ pc[c] = "read" /\ last_event_id[c] \in Nat
      /\ \A n \in visible : n \in Nat /\ n > 0
  BY OneClient DEF load_events_after
<1>2. /\ batch' = [batch EXCEPT ![c] = After(c)] /\ pc' = [pc EXCEPT ![c] = "tail"]
      /\ UNCHANGED <<log, visible, todo, txn, owed, api, listening, notifications, subscribers, queue,
                     last_event_id, received, missed, attempt, errors, answer, faults>>
  BY DEF load_events_after, database
<1>3. TypeOK'
  <2>1. After(c) \subseteq visible
    BY DEF After
  <2> QED
    BY <1>1, <1>2, <2>1 DEF TypeOK, PC, InStream
<1>4. \A d \in Clients \ {c} : Same(d)
  BY <1>1, <1>2 DEF TypeOK, Same
<1>5. batch'[c] = {n \in visible : n > last_event_id[c]} /\ pc'[c] = "tail"
  BY <1>1, <1>2 DEF TypeOK, After
<1>6. CursorOK(c)'
  BY <1>1, <1>2, <1>5 DEF ClientOK, CursorOK
<1>7. WakeOK(c)'
  <2> SUFFICES ASSUME NEW n \in Ends PROVE n \in received[c] \/ n < last_event_id[c] \/ n \in batch'[c]
    BY <1>2, <1>5 DEF WakeOK, Noticed, Ends
  <2>1. n \in visible /\ n \in Nat /\ n > 0
    BY <1>1 DEF Ends
  <2>2. n > last_event_id[c] \/ n < last_event_id[c] \/ n = last_event_id[c]
    BY <1>1, <2>1
  <2> QED
    BY <1>1, <1>5, <2>1, <2>2 DEF ClientOK, CursorOK
<1>8. AttemptsOK(c)' /\ AnswerOK(c)'
  BY <1>1, <1>2, <1>5 DEF ClientOK, AttemptsOK, AnswerOK, Explained, ReturnedNone, Ends, InStream
<1>9. ClientOK(c)'
  BY <1>1, <1>2, <1>5, <1>6, <1>7, <1>8 DEF ClientOK, InStream
<1>10. UNCHANGED <<database, api, listening, notifications>>
  BY <1>2 DEF database
<1> QED
  BY <1>3, <1>4, <1>9, <1>10, ClientSteps

LEMMA ExhaustedKeeps ==
  ASSUME StreamInv, NEW c \in Clients, exhausted(c)
  PROVE  StreamInv'
<1>1. TypeOK /\ ClientOK(c) /\ pc[c] = "tail" /\ batch[c] = {}
  BY OneClient DEF exhausted
<1>2. /\ pc' = [pc EXCEPT ![c] = "wait"]
      /\ UNCHANGED <<log, visible, todo, txn, owed, api, listening, notifications, subscribers, queue, batch,
                     last_event_id, received, missed, attempt, errors, answer, faults>>
  BY DEF exhausted, database, streams
<1>3. TypeOK'
  BY <1>1, <1>2 DEF TypeOK, PC, InStream
<1>4. \A d \in Clients \ {c} : Same(d)
  BY <1>1, <1>2 DEF TypeOK, Same
<1>5. pc'[c] = "wait"
  BY <1>1, <1>2 DEF TypeOK
<1>6. CursorOK(c)'
  BY <1>1, <1>2, <1>5 DEF ClientOK, CursorOK
<1>7. WakeOK(c)'
  BY <1>1, <1>2, <1>5 DEF ClientOK, WakeOK, Noticed, Ends
<1>8. AttemptsOK(c)' /\ AnswerOK(c)'
  BY <1>1, <1>2, <1>5 DEF ClientOK, AttemptsOK, AnswerOK, Explained, ReturnedNone, Ends, InStream
<1>9. ClientOK(c)'
  BY <1>1, <1>2, <1>5, <1>6, <1>7, <1>8 DEF ClientOK, InStream
<1>10. UNCHANGED <<database, api, listening, notifications>>
  BY <1>2 DEF database
<1> QED
  BY <1>3, <1>4, <1>9, <1>10, ClientSteps

\* A line moves the cursor to a larger id.
LEMMA LineRead ==
  ASSUME StreamInv, NEW c \in Clients, NEW n \in batch[c], Line(c, n)
  PROVE  /\ TypeOK /\ ClientOK(c) /\ n \in visible /\ n \in Nat /\ log[n] \in Row
         /\ pc[c] \in {"replay", "tail"} /\ last_event_id[c] < n /\ last_event_id[c] \in Nat
         /\ last_event_id' = [last_event_id EXCEPT ![c] = n]
         /\ received' = [received EXCEPT ![c] = @ \cup {n}]
         /\ UNCHANGED <<log, visible, todo, txn, owed, api, listening, notifications, queue, missed,
                        attempt, errors, faults>>
         /\ last_event_id'[c] = n /\ received'[c] = received[c] \cup {n}
         /\ \A m \in received[c] : m \in Nat /\ m <= last_event_id[c] /\ m < n
         /\ \A m \in batch[c] : m \in Nat /\ (m # n => n < m)
<1>1. /\ TypeOK /\ ClientOK(c) /\ batch[c] \subseteq visible /\ received[c] \subseteq visible
      /\ last_event_id[c] \in Nat /\ \A m \in visible : m \in Nat /\ log[m] \in Row
  BY OneClient
<1>2. /\ last_event_id[c] < n
      /\ \A m \in received[c] : m <= last_event_id[c]
  BY <1>1 DEF ClientOK, CursorOK
<1>3. /\ pc[c] \in {"replay", "tail"} /\ \A m \in batch[c] : n <= m
      /\ last_event_id' = [last_event_id EXCEPT ![c] = n]
      /\ received' = [received EXCEPT ![c] = @ \cup {n}]
      /\ UNCHANGED <<log, visible, todo, txn, owed, api, listening, notifications, queue, missed,
                     attempt, errors, faults>>
  BY DEF Line, database
<1>4. last_event_id'[c] = n /\ received'[c] = received[c] \cup {n}
  BY <1>1, <1>3 DEF TypeOK
<1>5. \A m \in received[c] : m \in Nat /\ m <= last_event_id[c] /\ m < n
  BY <1>1, <1>2
<1>6. \A m \in batch[c] : m \in Nat /\ (m # n => n < m)
  BY <1>1, <1>3
<1> QED
  BY <1>1, <1>2, <1>3, <1>4, <1>5, <1>6

LEMMA YieldKeeps ==
  ASSUME StreamInv, NEW c \in Clients, NEW n \in batch[c], yield(c, n)
  PROVE  StreamInv'
<1>1. Line(c, n) /\ batch' = [batch EXCEPT ![c] = @ \ {n}] /\ UNCHANGED <<subscribers, pc, answer>>
  BY DEF yield
<1>2. /\ TypeOK /\ ClientOK(c) /\ n \in visible /\ n \in Nat
      /\ pc[c] \in {"replay", "tail"} /\ last_event_id[c] < n /\ last_event_id[c] \in Nat
      /\ last_event_id' = [last_event_id EXCEPT ![c] = n]
      /\ received' = [received EXCEPT ![c] = @ \cup {n}]
      /\ UNCHANGED <<log, visible, todo, txn, owed, api, listening, notifications, queue, missed,
                     attempt, errors, faults>>
      /\ last_event_id'[c] = n /\ received'[c] = received[c] \cup {n}
      /\ \A m \in received[c] : m \in Nat /\ m <= last_event_id[c] /\ m < n
      /\ \A m \in batch[c] : m \in Nat /\ (m # n => n < m)
  BY <1>1, LineRead
<1>3. batch'[c] = batch[c] \ {n}
  BY <1>1, <1>2 DEF TypeOK
<1>4. TypeOK'
  BY <1>1, <1>2 DEF TypeOK
<1>5. \A d \in Clients \ {c} : Same(d)
  BY <1>1, <1>2 DEF TypeOK, Same
<1>6. CursorOK(c)'
  BY <1>1, <1>2, <1>3 DEF CursorOK
<1>7. WakeOK(c)'
  <2> SUFFICES ASSUME NEW m \in Ends, pc[c] = "tail" PROVE Noticed(c, m)'
    BY <1>1, <1>2 DEF WakeOK, Ends
  <2>1. Noticed(c, m)
    BY <1>2 DEF ClientOK, WakeOK
  <2>2. m < last_event_id[c] => m < n
    <3>1. m \in Nat
      BY OneClient DEF Ends
    <3> QED
      BY <1>2, <3>1
  <2> QED
    BY <1>1, <1>2, <1>3, <2>1, <2>2 DEF Noticed
<1>8. AttemptsOK(c)' /\ AnswerOK(c)'
  BY <1>1, <1>2 DEF ClientOK, AttemptsOK, AnswerOK, Explained, ReturnedNone, Ends, InStream
<1>9. ClientOK(c)'
  BY <1>1, <1>2, <1>6, <1>7, <1>8 DEF ClientOK
<1>10. UNCHANGED <<database, api, listening, notifications>>
  BY <1>2 DEF database
<1> QED
  BY <1>4, <1>5, <1>9, <1>10, ClientSteps

\* The call of c leaves its stream: for an answer, or for a further attempt.
LEMMA RetriedAt ==
  ASSUME TypeOK, NEW S, NEW c \in Clients
  PROVE  /\ Retried(S) \in [Clients -> PC]
         /\ c \notin S => Retried(S)[c] = pc[c]
         /\ c \in S => Retried(S)[c] = IF attempt[c] < _SSE_MAX_ATTEMPTS THEN "backoff" ELSE "gave_up"
  BY DEF TypeOK, Retried, PC, Over

LEMMA EndRead ==
  ASSUME StreamInv, NEW c \in Clients, NEW n \in batch[c],
         workflow_completed(c, n) \/ workflow_failed(c, n)
  PROVE  StreamInv'
<1>1. Line(c, n) /\ batch' = [batch EXCEPT ![c] = {}] /\ subscribers' = subscribers \ {c}
  BY DEF workflow_completed, workflow_failed, Deregister
<1>2. /\ TypeOK /\ ClientOK(c) /\ n \in visible /\ n \in Nat /\ log[n] \in Row
      /\ pc[c] \in {"replay", "tail"} /\ last_event_id[c] < n /\ last_event_id[c] \in Nat
      /\ last_event_id' = [last_event_id EXCEPT ![c] = n]
      /\ received' = [received EXCEPT ![c] = @ \cup {n}]
      /\ UNCHANGED <<log, visible, todo, txn, owed, api, listening, notifications, queue, missed,
                     attempt, errors, faults>>
      /\ last_event_id'[c] = n /\ received'[c] = received[c] \cup {n}
      /\ \A m \in received[c] : m \in Nat /\ m <= last_event_id[c] /\ m < n
      /\ \A m \in batch[c] : m \in Nat /\ (m # n => n < m)
  BY <1>1, LineRead
<1>3. batch'[c] = {}
  BY <1>1, <1>2 DEF TypeOK
<1>4. /\ attempt[c] \in 0.._SSE_MAX_ATTEMPTS /\ errors[c] \in 0.._SSE_MAX_ATTEMPTS /\ errors[c] <= attempt[c]
      /\ errors[c] = attempt[c] - 1 \/ ReturnedNone
  BY <1>2 DEF TypeOK, ClientOK, AttemptsOK, Explained, InStream
<1>5. UNCHANGED <<database, api, listening, notifications>>
  BY <1>2 DEF database
<1>6. CASE workflow_completed(c, n) /\ log[n].result # None
  <2>1. /\ pc' = [pc EXCEPT ![c] = "returned"] /\ answer' = [answer EXCEPT ![c] = log[n].result]
        /\ log[n].type = "workflow_completed"
    BY <1>6 DEF workflow_completed, Answered
  <2>2. pc'[c] = "returned" /\ answer'[c] = log[n].result /\ log[n].result \in Results \cup {None}
    BY <1>2, <2>1 DEF TypeOK, Row
  <2>3. TypeOK'
    BY <1>1, <1>2, <2>1, <2>2 DEF TypeOK, PC, Over, InStream
  <2>4. \A d \in Clients \ {c} : Same(d)
    BY <1>1, <1>2, <2>1 DEF TypeOK, Same
  <2>5. CursorOK(c)' /\ WakeOK(c)' /\ AttemptsOK(c)'
    BY <1>2, <1>3, <1>4, <2>2 DEF CursorOK, WakeOK, AttemptsOK, InStream
  <2>6. AnswerOK(c)'
    <3>1. log[n] = [type |-> "workflow_completed", result |-> answer'[c]]
      BY <1>2, <2>1, <2>2 DEF Row
    <3>2. n \in Ends
      BY <1>2, <2>1 DEF Ends, _TERMINAL_EVENT_TYPES
    <3> QED
      BY <1>2, <2>2, <3>1, <3>2 DEF AnswerOK, Ends
  <2>7. ClientOK(c)'
    BY <2>2, <2>5, <2>6 DEF ClientOK, InStream
  <2> QED
    BY <1>5, <2>3, <2>4, <2>7, ClientSteps
<1>7. CASE workflow_completed(c, n) /\ log[n].result = None
  <2>1. pc' = Retried({c}) /\ answer' = answer /\ log[n].type = "workflow_completed"
    BY <1>7 DEF workflow_completed, Answered
  <2>2. /\ pc' \in [Clients -> PC] /\ \A d \in Clients \ {c} : pc'[d] = pc[d]
        /\ pc'[c] = IF attempt[c] < _SSE_MAX_ATTEMPTS THEN "backoff" ELSE "gave_up"
    BY <1>2, <2>1, RetriedAt
  <2>3. TypeOK'
    BY <1>1, <1>2, <2>1, <2>2 DEF TypeOK
  <2>4. \A d \in Clients \ {c} : Same(d)
    BY <1>1, <1>2, <2>1, <2>2 DEF TypeOK, Same
  <2>5. ReturnedNone'
    <3>1. log[n] = [type |-> "workflow_completed", result |-> None]
      BY <1>2, <1>7, <2>1 DEF Row
    <3>2. n \in Ends
      BY <1>2, <2>1 DEF Ends, _TERMINAL_EVENT_TYPES
    <3> QED
      BY <1>2, <3>1, <3>2 DEF ReturnedNone, Ends
  <2>6. CursorOK(c)' /\ WakeOK(c)'
    BY <1>2, <1>3, <2>2 DEF CursorOK, WakeOK
  <2>7. AttemptsOK(c)' /\ AnswerOK(c)'
    BY <1>2, <1>4, <2>2, <2>5 DEF AttemptsOK, AnswerOK, Explained, InStream
  <2>8. ClientOK(c)'
    BY <2>2, <2>6, <2>7 DEF ClientOK, InStream
  <2> QED
    BY <1>5, <2>3, <2>4, <2>8, ClientSteps
<1>8. CASE workflow_failed(c, n)
  <2>1. pc' = [pc EXCEPT ![c] = "failed"] /\ answer' = answer /\ log[n].type = "workflow_failed"
    BY <1>8 DEF workflow_failed
  <2>2. pc'[c] = "failed"
    BY <1>2, <2>1 DEF TypeOK
  <2>3. TypeOK'
    BY <1>1, <1>2, <2>1 DEF TypeOK, PC, Over, InStream
  <2>4. \A d \in Clients \ {c} : Same(d)
    BY <1>1, <1>2, <2>1 DEF TypeOK, Same
  <2>5. CursorOK(c)' /\ WakeOK(c)' /\ AttemptsOK(c)'
    BY <1>2, <1>3, <1>4, <2>2 DEF CursorOK, WakeOK, AttemptsOK, InStream
  <2>6. AnswerOK(c)'
    BY <1>2, <2>1, <2>2 DEF AnswerOK, Ends, _TERMINAL_EVENT_TYPES
  <2>7. ClientOK(c)'
    BY <2>2, <2>5, <2>6 DEF ClientOK, InStream
  <2> QED
    BY <1>5, <2>3, <2>4, <2>7, ClientSteps
<1> QED
  BY <1>6, <1>7, <1>8

-----------------------------------------------------------------------------
(***************************************************************************)
(* The call of a client.                                                   *)
(***************************************************************************)
LEMMA ResultKeeps ==
  ASSUME StreamInv, NEW c \in Clients, result(c)
  PROVE  StreamInv'
<1>1. TypeOK /\ ClientOK(c) /\ pc[c] = "new"
  BY OneClient DEF result
<1>2. /\ pc' = [pc EXCEPT ![c] = "connect"] /\ attempt' = [attempt EXCEPT ![c] = 1]
      /\ UNCHANGED <<log, visible, todo, txn, owed, api, listening, notifications, subscribers, queue, batch,
                     last_event_id, received, missed, errors, answer, faults>>
  BY DEF result, database, streams
<1>3. TypeOK'
  BY <1>1, <1>2 DEF TypeOK, PC, InStream, _SSE_MAX_ATTEMPTS
<1>4. \A d \in Clients \ {c} : Same(d)
  BY <1>1, <1>2 DEF TypeOK, Same
<1>5. pc'[c] = "connect" /\ attempt'[c] = 1 /\ errors'[c] = 0
  <2>1. errors[c] \in 0.._SSE_MAX_ATTEMPTS /\ errors[c] <= attempt[c] /\ attempt[c] = 0
    BY <1>1, OneClient DEF ClientOK, AttemptsOK
  <2>2. errors[c] = 0
    BY <2>1 DEF _SSE_MAX_ATTEMPTS
  <2> QED
    BY <1>1, <1>2, <2>2 DEF TypeOK
<1>6. CursorOK(c)' /\ WakeOK(c)' /\ AnswerOK(c)'
  BY <1>1, <1>2, <1>5 DEF ClientOK, CursorOK, WakeOK, AnswerOK
<1>7. AttemptsOK(c)'
  BY <1>5 DEF AttemptsOK, Explained
<1>8. ClientOK(c)'
  BY <1>5, <1>6, <1>7 DEF ClientOK, InStream
<1>9. UNCHANGED <<database, api, listening, notifications>>
  BY <1>2 DEF database
<1> QED
  BY <1>3, <1>4, <1>8, <1>9, ClientSteps

LEMMA ConnectErrorKeeps ==
  ASSUME StreamInv, NEW c \in Clients, connect_error(c)
  PROVE  StreamInv'
<1>1. TypeOK /\ ClientOK(c) /\ pc[c] = "connect"
  BY OneClient DEF connect_error
<1>2. /\ errors' = [errors EXCEPT ![c] = @ + 1] /\ pc' = Retried({c})
      /\ UNCHANGED <<log, visible, todo, txn, owed, api, listening, notifications, subscribers, queue, batch,
                     last_event_id, received, missed, attempt, answer, faults>>
  BY DEF connect_error, database, streams
<1>3. /\ pc' \in [Clients -> PC] /\ \A d \in Clients \ {c} : pc'[d] = pc[d]
      /\ pc'[c] = IF attempt[c] < _SSE_MAX_ATTEMPTS THEN "backoff" ELSE "gave_up"
  BY <1>1, <1>2, RetriedAt
<1>4. /\ attempt[c] \in 0.._SSE_MAX_ATTEMPTS /\ errors[c] \in 0.._SSE_MAX_ATTEMPTS /\ errors[c] < attempt[c]
      /\ errors'[c] = errors[c] + 1 /\ (errors[c] = attempt[c] - 1 \/ ReturnedNone)
  BY <1>1, <1>2 DEF TypeOK, ClientOK, AttemptsOK, Explained
<1>5. TypeOK'
  <2>1. errors' \in [Clients -> 0.._SSE_MAX_ATTEMPTS]
    BY <1>1, <1>2, <1>4 DEF TypeOK, _SSE_MAX_ATTEMPTS
  <2> QED
    BY <1>1, <1>2, <1>3, <2>1 DEF TypeOK
<1>6. \A d \in Clients \ {c} : Same(d)
  BY <1>1, <1>2, <1>3 DEF TypeOK, Same
<1>7. CursorOK(c)' /\ WakeOK(c)'
  BY <1>1, <1>2, <1>3 DEF ClientOK, CursorOK, WakeOK
<1>8. AttemptsOK(c)' /\ AnswerOK(c)'
  BY <1>2, <1>3, <1>4 DEF AttemptsOK, AnswerOK, Explained, ReturnedNone, Ends, InStream, _SSE_MAX_ATTEMPTS
<1>9. ClientOK(c)'
  BY <1>3, <1>7, <1>8 DEF ClientOK, InStream
<1>10. UNCHANGED <<database, api, listening, notifications>>
  BY <1>2 DEF database
<1> QED
  BY <1>5, <1>6, <1>9, <1>10, ClientSteps

LEMMA RetryKeeps ==
  ASSUME StreamInv, NEW c \in Clients, retry(c)
  PROVE  StreamInv'
<1>1. TypeOK /\ ClientOK(c) /\ pc[c] = "backoff"
  BY OneClient DEF retry
<1>2. /\ attempt' = [attempt EXCEPT ![c] = @ + 1] /\ pc' = [pc EXCEPT ![c] = "connect"]
      /\ UNCHANGED <<log, visible, todo, txn, owed, api, listening, notifications, subscribers, queue, batch,
                     last_event_id, received, missed, errors, answer, faults>>
  BY DEF retry, database, streams
<1>3. /\ attempt[c] \in 0.._SSE_MAX_ATTEMPTS /\ attempt[c] < _SSE_MAX_ATTEMPTS
      /\ errors[c] \in 0.._SSE_MAX_ATTEMPTS /\ errors[c] <= attempt[c]
      /\ errors[c] = attempt[c] \/ ReturnedNone
  BY <1>1 DEF TypeOK, ClientOK, AttemptsOK, Explained
<1>4. pc'[c] = "connect" /\ attempt'[c] = attempt[c] + 1
  BY <1>1, <1>2 DEF TypeOK
<1>5. TypeOK'
  <2>1. attempt' \in [Clients -> 0.._SSE_MAX_ATTEMPTS]
    BY <1>1, <1>2, <1>3 DEF TypeOK, _SSE_MAX_ATTEMPTS
  <2> QED
    BY <1>1, <1>2, <2>1 DEF TypeOK, PC, InStream
<1>6. \A d \in Clients \ {c} : Same(d)
  BY <1>1, <1>2 DEF TypeOK, Same
<1>7. CursorOK(c)' /\ WakeOK(c)' /\ AnswerOK(c)'
  BY <1>1, <1>2, <1>4 DEF ClientOK, CursorOK, WakeOK, AnswerOK
<1>8. AttemptsOK(c)'
  BY <1>2, <1>3, <1>4 DEF AttemptsOK, Explained, ReturnedNone, Ends
<1>9. ClientOK(c)'
  BY <1>4, <1>7, <1>8 DEF ClientOK, InStream
<1>10. UNCHANGED <<database, api, listening, notifications>>
  BY <1>2 DEF database
<1> QED
  BY <1>5, <1>6, <1>9, <1>10, ClientSteps

LEMMA TimeOutKeeps ==
  ASSUME StreamInv, NEW c \in Clients, time_out(c)
  PROVE  StreamInv'
<1>1. TypeOK /\ ClientOK(c)
  BY OneClient
<1>2. /\ pc' = [pc EXCEPT ![c] = "timed_out"] /\ batch' = [batch EXCEPT ![c] = {}] /\ subscribers' = subscribers \ {c}
      /\ UNCHANGED <<log, visible, todo, txn, owed, api, listening, notifications, queue, last_event_id,
                     received, missed, attempt, errors, answer, faults>>
  BY DEF time_out, Deregister, database
<1>3. TypeOK'
  BY <1>1, <1>2 DEF TypeOK, PC, Over
<1>4. \A d \in Clients \ {c} : Same(d)
  BY <1>1, <1>2 DEF TypeOK, Same
<1>5. pc'[c] = "timed_out" /\ batch'[c] = {}
  BY <1>1, <1>2 DEF TypeOK
<1>6. CursorOK(c)' /\ WakeOK(c)' /\ AnswerOK(c)' /\ AttemptsOK(c)'
  BY <1>1, <1>2, <1>5 DEF ClientOK, CursorOK, WakeOK, AnswerOK, AttemptsOK, InStream
<1>7. ClientOK(c)'
  BY <1>5, <1>6 DEF ClientOK, InStream
<1>8. UNCHANGED <<database, api, listening, notifications>>
  BY <1>2 DEF database
<1> QED
  BY <1>3, <1>4, <1>7, <1>8, ClientSteps

-----------------------------------------------------------------------------
(***************************************************************************)
(* The writers and the LISTEN connection: ends that were visible stay, and *)
(* one that becomes visible is announced.                                  *)
(***************************************************************************)
LEMMA ClientUntouched ==
  ASSUME NEW d, ClientOK(d), Same(d), api' = api,
         \A n \in Ends : n \in Ends' /\ log'[n] = log[n],
         \A n \in Ends' \ Ends : notifications' > 0 \/ ~listening',
         notifications > 0 \/ ~listening => notifications' > 0 \/ ~listening'
  PROVE  ClientOK(d)'
<1>1. CursorOK(d)'
  BY DEF ClientOK, Same, CursorOK
<1>2. WakeOK(d)'
  BY DEF ClientOK, Same, WakeOK, Noticed
<1>3. ReturnedNone => ReturnedNone'
  BY DEF ReturnedNone
<1>4. AttemptsOK(d)'
  BY <1>3 DEF ClientOK, Same, AttemptsOK, Explained
<1>5. AnswerOK(d)'
  BY <1>3 DEF ClientOK, Same, AnswerOK, Explained
<1> QED
  BY <1>1, <1>2, <1>4, <1>5 DEF ClientOK, Same

LEMMA InsertKeeps ==
  ASSUME StreamInv, NEW w \in Writers, insert(w)
  PROVE  StreamInv'
<1>1. PICK r \in RowsOf(w) : log' = Append(log, r)
  BY DEF insert
<1>2. /\ todo[w] > 0 /\ txn' = [txn EXCEPT ![w] = Len(log) + 1]
      /\ UNCHANGED <<visible, todo, owed, api, listening, notifications, subscribers, queue, batch,
                     last_event_id, received, missed, pc, attempt, errors, answer, faults>>
  BY DEF insert, streams, calls
<1>3. TypeOK /\ log \in Seq(Row) /\ Len(log) \in Nat /\ visible \subseteq 1..Len(log)
  BY DEF StreamInv, TypeOK
<1>4. r \in Row /\ (r.type \in _TERMINAL_EVENT_TYPES => Ending(w))
  BY DEF RowsOf, TerminalRows, Row, _TERMINAL_EVENT_TYPES
<1>5. /\ log' \in Seq(Row) /\ Len(log') = Len(log) + 1 /\ log'[Len(log) + 1] = r
      /\ \A n \in 1..Len(log) : log'[n] = log[n]
  BY <1>1, <1>3, <1>4
<1>6. TypeOK'
  <2>1. visible' \subseteq 1..Len(log')
    BY <1>2, <1>3, <1>5
  <2>2. txn' \in [Writers -> 0..Len(log')]
    BY <1>2, <1>3, <1>5 DEF TypeOK
  <2> QED
    BY <1>2, <1>3, <1>5, <2>1, <2>2 DEF TypeOK
<1>7. Ends' = Ends /\ \A n \in Ends : log'[n] = log[n]
  BY <1>2, <1>3, <1>5 DEF Ends
<1>8. \A d \in Clients : ClientOK(d)'
  <2> SUFFICES ASSUME NEW d \in Clients PROVE ClientOK(d)'
    OBVIOUS
  <2>1. ClientOK(d) /\ Same(d)
    BY <1>2 DEF StreamInv, Same
  <2> QED
    BY <1>2, <1>7, <2>1, ClientUntouched
<1>9. WritersInv'
  <2> SUFFICES ASSUME NEW v \in Writers, txn'[v] # 0
               PROVE  todo[v] > 0 /\ (log'[txn'[v]].type \in _TERMINAL_EVENT_TYPES => Ending(v))
    BY <1>2 DEF WritersInv, Ending
  <2>1. CASE v = w
    <3>1. txn'[v] = Len(log) + 1
      BY <1>2, <1>3, <2>1 DEF TypeOK
    <3> QED
      BY <1>2, <1>4, <1>5, <2>1, <3>1
  <2>2. CASE v # w
    <3>1. txn'[v] = txn[v] /\ txn[v] \in 1..Len(log)
      BY <1>2, <1>3, <2>2 DEF TypeOK
    <3> QED
      BY <1>5, <3>1 DEF StreamInv, WritersInv
  <2> QED
    BY <2>1, <2>2
<1> QED
  BY <1>2, <1>6, <1>8, <1>9 DEF StreamInv

LEMMA CommitKeeps ==
  ASSUME StreamInv, NEW w \in Writers, commit(w)
  PROVE  StreamInv'
<1>1. /\ txn[w] # 0 /\ visible' = visible \cup {txn[w]}
      /\ todo' = [todo EXCEPT ![w] = @ - 1] /\ txn' = [txn EXCEPT ![w] = 0]
      /\ UNCHANGED <<log, api, listening, subscribers, queue, batch, last_event_id, received, missed,
                     pc, attempt, errors, answer, faults>>
  BY DEF commit, streams, calls
<1>2. /\ TypeOK /\ notifications \in Nat /\ listening \in BOOLEAN /\ txn[w] \in 1..Len(log)
      /\ todo[w] \in 1..(Events + 1) /\ todo[w] > 0
      /\ log[txn[w]].type \in _TERMINAL_EVENT_TYPES => Ending(w)
  <2>1. todo[w] > 0 /\ (log[txn[w]].type \in _TERMINAL_EVENT_TYPES => Ending(w))
    BY <1>1 DEF StreamInv, WritersInv
  <2> QED
    BY <1>1, <2>1 DEF StreamInv, TypeOK
<1>3. /\ notifications' \in Nat /\ owed' \in [Writers -> BOOLEAN]
      /\ notifications > 0 \/ ~listening => notifications' > 0 \/ ~listening
      /\ Ending(w) => notifications' > 0 \/ ~listening
  <2>1. CASE w \in Signallers \/ Ending(w)
    <3>1. notifications' = Sent /\ owed' = owed
      BY <2>1 DEF commit
    <3> QED
      BY <1>2, <3>1 DEF Sent, TypeOK
  <2>2. CASE ~(w \in Signallers \/ Ending(w))
    <3>1. notifications' = notifications /\ owed' = [owed EXCEPT ![w] = TRUE]
      BY <2>2 DEF commit
    <3> QED
      BY <1>2, <2>2, <3>1 DEF TypeOK
  <2> QED
    BY <2>1, <2>2
<1>4. TypeOK'
  <2>1. todo' \in [Writers -> 0..(Events + 1)]
    BY <1>1, <1>2, StreamAssumption DEF TypeOK, StreamAssumption
  <2>2. /\ batch' \in [Clients -> SUBSET visible'] /\ received' \in [Clients -> SUBSET visible']
        /\ missed' \in [Clients -> SUBSET visible'] /\ visible' \subseteq 1..Len(log)
    BY <1>1, <1>2 DEF TypeOK
  <2>3. txn' \in [Writers -> 0..Len(log)]
    BY <1>1, <1>2 DEF TypeOK
  <2> QED
    BY <1>1, <1>2, <1>3, <2>1, <2>2, <2>3 DEF TypeOK
<1>5. /\ \A n \in Ends : n \in Ends' /\ log'[n] = log[n]
      /\ \A n \in Ends' \ Ends : notifications' > 0 \/ ~listening'
  BY <1>1, <1>2, <1>3 DEF Ends
<1>6. \A d \in Clients : ClientOK(d)'
  <2> SUFFICES ASSUME NEW d \in Clients PROVE ClientOK(d)'
    OBVIOUS
  <2>1. ClientOK(d) /\ Same(d)
    BY <1>1 DEF StreamInv, Same
  <2> QED
    BY <1>1, <1>3, <1>5, <2>1, ClientUntouched
<1>7. WritersInv'
  BY <1>1, <1>2 DEF StreamInv, WritersInv, Ending, TypeOK
<1> QED
  BY <1>1, <1>4, <1>6, <1>7 DEF StreamInv

LEMMA NotifyKeeps ==
  ASSUME StreamInv, NEW w \in Writers, notify(w)
  PROVE  StreamInv'
<1>1. /\ owed' = [owed EXCEPT ![w] = FALSE] /\ notifications' = Sent
      /\ UNCHANGED <<log, visible, todo, txn, api, listening, subscribers, queue, batch, last_event_id,
                     received, missed, pc, attempt, errors, answer, faults>>
  BY DEF notify, streams, calls
<1>2. TypeOK /\ notifications \in Nat /\ listening \in BOOLEAN
  BY DEF StreamInv, TypeOK
<1>3. /\ notifications' \in Nat
      /\ notifications > 0 \/ ~listening => notifications' > 0 \/ ~listening
  BY <1>1, <1>2 DEF Sent
<1>4. TypeOK'
  BY <1>1, <1>2, <1>3 DEF TypeOK
<1>5. Ends' = Ends
  BY <1>1 DEF Ends
<1>6. \A d \in Clients : ClientOK(d)'
  <2> SUFFICES ASSUME NEW d \in Clients PROVE ClientOK(d)'
    OBVIOUS
  <2>1. ClientOK(d) /\ Same(d)
    BY <1>1 DEF StreamInv, Same
  <2> QED
    BY <1>1, <1>3, <1>5, <2>1, ClientUntouched
<1>7. WritersInv'
  BY <1>1 DEF StreamInv, WritersInv, Ending
<1> QED
  BY <1>1, <1>4, <1>6, <1>7 DEF StreamInv

LEMMA DieKeeps ==
  ASSUME StreamInv, NEW w \in Writers, die(w)
  PROVE  StreamInv'
<1>1. /\ txn' = [txn EXCEPT ![w] = 0] /\ owed' = [owed EXCEPT ![w] = FALSE]
      /\ faults' = [faults EXCEPT !["death"] = @ + 1]
      /\ UNCHANGED <<log, visible, todo, api, listening, notifications, subscribers, queue, batch,
                     last_event_id, received, missed, pc, attempt, errors, answer>>
  BY DEF die, Fault, streams, calls
<1>2. TypeOK
  BY DEF StreamInv
<1>3. TypeOK'
  <2>1. txn' \in [Writers -> 0..Len(log)] /\ owed' \in [Writers -> BOOLEAN]
    <3>1. Len(log) \in Nat
      BY <1>2 DEF TypeOK
    <3> QED
      BY <1>1, <1>2, <3>1 DEF TypeOK
  <2>2. faults' \in [FaultKinds -> Nat]
    BY <1>1, <1>2 DEF TypeOK, FaultKinds
  <2> QED
    BY <1>1, <1>2, <2>1, <2>2 DEF TypeOK
<1>4. Ends' = Ends
  BY <1>1 DEF Ends
<1>5. \A d \in Clients : ClientOK(d)'
  <2> SUFFICES ASSUME NEW d \in Clients PROVE ClientOK(d)'
    OBVIOUS
  <2>1. ClientOK(d) /\ Same(d)
    BY <1>1 DEF StreamInv, Same
  <2> QED
    BY <1>1, <1>4, <2>1, ClientUntouched
<1>6. WritersInv'
  BY <1>1, <1>2 DEF StreamInv, WritersInv, Ending, TypeOK
<1> QED
  BY <1>1, <1>3, <1>5, <1>6 DEF StreamInv

LEMMA LoseKeeps ==
  ASSUME StreamInv, lose_listener
  PROVE  StreamInv'
<1>1. /\ listening' = FALSE /\ notifications' = 0 /\ faults' = [faults EXCEPT !["listener"] = @ + 1]
      /\ UNCHANGED <<log, visible, todo, txn, owed, api, subscribers, queue, batch, last_event_id,
                     received, missed, pc, attempt, errors, answer>>
  BY DEF lose_listener, Fault, database, streams, calls
<1>2. TypeOK'
  <2>1. faults' \in [FaultKinds -> Nat]
    BY <1>1 DEF StreamInv, TypeOK, FaultKinds
  <2> QED
    BY <1>1, <2>1 DEF StreamInv, TypeOK
<1>3. Ends' = Ends
  BY <1>1 DEF Ends
<1>4. \A d \in Clients : ClientOK(d)'
  <2> SUFFICES ASSUME NEW d \in Clients PROVE ClientOK(d)'
    OBVIOUS
  <2>1. ClientOK(d) /\ Same(d)
    BY <1>1 DEF StreamInv, Same
  <2> QED
    BY <1>1, <1>3, <2>1, ClientUntouched
<1>5. WritersInv'
  BY <1>1 DEF StreamInv, WritersInv, Ending
<1> QED
  BY <1>1, <1>2, <1>4, <1>5 DEF StreamInv

-----------------------------------------------------------------------------
(***************************************************************************)
(* The API process.                                                        *)
(***************************************************************************)
\* A notification ends as an item in the queue of every stream that waits for one.
LEMMA OnNotifyKeeps ==
  ASSUME StreamInv, on_notify
  PROVE  StreamInv'
<1>1. /\ notifications > 0 /\ notifications' = notifications - 1
      /\ queue' = [c \in Clients |-> IF c \in subscribers THEN queue[c] + 1 ELSE queue[c]]
      /\ UNCHANGED <<log, visible, todo, txn, owed, api, listening, subscribers, batch, last_event_id,
                     received, missed, pc, attempt, errors, answer, faults>>
  BY DEF on_notify, database, calls
<1>2. TypeOK
  BY DEF StreamInv
<1>3. TypeOK'
  <2>1. notifications' \in Nat /\ queue' \in [Clients -> Nat]
    BY <1>1, <1>2 DEF TypeOK
  <2> QED
    BY <1>1, <1>2, <2>1 DEF TypeOK
<1>4. \A c \in Clients : ClientOK(c)'
  <2> SUFFICES ASSUME NEW c \in Clients PROVE ClientOK(c)'
    OBVIOUS
  <2>1. ClientOK(c)
    BY DEF StreamInv
  <2>2. WakeOK(c)'
    <3>1. pc[c] \in {"wait", "read", "tail"} => queue'[c] > 0
      BY <1>1, <1>2 DEF TypeOK
    <3> QED
      BY <1>1, <3>1 DEF WakeOK, Noticed
  <2>3. CursorOK(c)' /\ AttemptsOK(c)' /\ AnswerOK(c)'
    BY <1>1, <2>1 DEF ClientOK, CursorOK, AttemptsOK, AnswerOK, Explained, ReturnedNone, Ends
  <2> QED
    BY <1>1, <2>1, <2>2, <2>3 DEF ClientOK
<1>5. WritersInv'
  BY <1>1 DEF StreamInv, WritersInv, Ending
<1> QED
  BY <1>1, <1>3, <1>4, <1>5 DEF StreamInv

\* Every stream breaks, and its call has one connection error more.
LEMMA StopKeeps ==
  ASSUME StreamInv, stop_api
  PROVE  StreamInv'
<1> DEFINE broken == {c \in Clients : pc[c] \in InStream}
<1>1. /\ api' = FALSE /\ listening' = FALSE /\ notifications' = 0 /\ subscribers' = {}
      /\ faults' = [faults EXCEPT !["api"] = @ + 1]
      /\ pc' = Retried(broken)
      /\ errors' = [c \in Clients |-> IF c \in broken THEN errors[c] + 1 ELSE errors[c]]
      /\ batch' = [c \in Clients |-> IF c \in broken THEN {} ELSE batch[c]]
      /\ UNCHANGED <<log, visible, todo, txn, owed, queue, last_event_id, received, missed, attempt, answer>>
  BY DEF stop_api, Fault, database
<1>2. TypeOK
  BY DEF StreamInv
<1>3. pc' \in [Clients -> PC]
  BY <1>1, <1>2 DEF TypeOK, Retried, PC, Over
<1>4. \A c \in Clients :
        /\ pc[c] \in InStream =>
             /\ pc'[c] = IF attempt[c] < _SSE_MAX_ATTEMPTS THEN "backoff" ELSE "gave_up"
             /\ errors'[c] = errors[c] + 1 /\ batch'[c] = {}
        /\ pc[c] \notin InStream => pc'[c] = pc[c] /\ errors'[c] = errors[c] /\ batch'[c] = batch[c]
        /\ pc'[c] \notin InStream
  <2> SUFFICES ASSUME NEW c \in Clients
               PROVE  /\ pc[c] \in InStream =>
                           /\ pc'[c] = IF attempt[c] < _SSE_MAX_ATTEMPTS THEN "backoff" ELSE "gave_up"
                           /\ errors'[c] = errors[c] + 1 /\ batch'[c] = {}
                      /\ pc[c] \notin InStream => pc'[c] = pc[c] /\ errors'[c] = errors[c] /\ batch'[c] = batch[c]
                      /\ pc'[c] \notin InStream
    OBVIOUS
  <2>1. c \in broken <=> pc[c] \in InStream
    OBVIOUS
  <2>2. CASE pc[c] \in InStream
    <3>1. pc'[c] = IF attempt[c] < _SSE_MAX_ATTEMPTS THEN "backoff" ELSE "gave_up"
      BY <1>1, <1>2, <2>1, <2>2, RetriedAt
    <3> QED
      BY <1>1, <2>1, <2>2, <3>1 DEF InStream
  <2>3. CASE pc[c] \notin InStream
    <3>1. pc'[c] = pc[c]
      BY <1>1, <1>2, <2>1, <2>3, RetriedAt
    <3> QED
      BY <1>1, <2>1, <2>3, <3>1
  <2> QED
    BY <2>2, <2>3
<1> HIDE DEF broken
<1>5. \A c \in Clients :
        /\ ClientOK(c) /\ attempt[c] \in 0.._SSE_MAX_ATTEMPTS /\ errors[c] \in 0.._SSE_MAX_ATTEMPTS
        /\ pc[c] \in InStream => errors[c] < attempt[c] /\ (errors[c] = attempt[c] - 1 \/ ReturnedNone)
  BY <1>2 DEF StreamInv, TypeOK, ClientOK, AttemptsOK, Explained
<1>6. TypeOK'
  <2>1. errors' \in [Clients -> 0.._SSE_MAX_ATTEMPTS]
    <3>1. \A c \in Clients : errors'[c] \in 0.._SSE_MAX_ATTEMPTS
      BY <1>4, <1>5 DEF _SSE_MAX_ATTEMPTS
    <3> QED
      BY <1>1, <3>1
  <2>2. batch' \in [Clients -> SUBSET visible]
    <3>1. \A c \in Clients : batch'[c] \in SUBSET visible
      BY <1>2, <1>4 DEF TypeOK
    <3> QED
      BY <1>1, <3>1
  <2>3. subscribers' = {c \in Clients : pc'[c] \in {"wait", "read", "tail"}}
    BY <1>1, <1>4 DEF InStream
  <2>4. faults' \in [FaultKinds -> Nat]
    BY <1>1, <1>2 DEF TypeOK, FaultKinds
  <2> QED
    BY <1>1, <1>2, <1>3, <2>1, <2>2, <2>3, <2>4 DEF TypeOK
<1>7. ReturnedNone' = ReturnedNone /\ Ends' = Ends
  BY <1>1 DEF ReturnedNone, Ends
<1>8. \A c \in Clients : ClientOK(c)'
  <2> SUFFICES ASSUME NEW c \in Clients PROVE ClientOK(c)'
    OBVIOUS
  <2>1. pc'[c] \notin InStream /\ ClientOK(c)
    BY <1>4, <1>5
  <2>2. CursorOK(c)' /\ WakeOK(c)'
    BY <1>1, <1>4, <2>1 DEF ClientOK, CursorOK, WakeOK, InStream
  <2>3. AttemptsOK(c)' /\ AnswerOK(c)'
    <3>1. CASE pc[c] \in InStream
      BY <1>1, <1>4, <1>5, <1>7, <3>1 DEF AttemptsOK, AnswerOK, Explained, InStream, _SSE_MAX_ATTEMPTS
    <3>2. CASE pc[c] \notin InStream
      BY <1>1, <1>4, <1>7, <2>1, <3>2 DEF ClientOK, AttemptsOK, AnswerOK, Explained
    <3> QED
      BY <3>1, <3>2
  <2> QED
    BY <2>1, <2>2, <2>3 DEF ClientOK
<1>9. WritersInv'
  BY <1>1 DEF StreamInv, WritersInv, Ending
<1> QED
  BY <1>1, <1>6, <1>8, <1>9 DEF StreamInv

LEMMA StartKeeps ==
  ASSUME StreamInv, start_api
  PROVE  StreamInv'
<1>1. /\ ~api /\ api' = TRUE /\ listening' = TRUE
      /\ UNCHANGED <<log, visible, todo, txn, owed, notifications, subscribers, queue, batch, last_event_id,
                     received, missed, pc, attempt, errors, answer, faults>>
  BY DEF start_api, database, streams, calls
<1>2. TypeOK'
  BY <1>1 DEF StreamInv, TypeOK
<1>3. \A c \in Clients : ClientOK(c)'
  <2> SUFFICES ASSUME NEW c \in Clients PROVE ClientOK(c)'
    OBVIOUS
  <2>1. ClientOK(c) /\ pc[c] \notin InStream
    BY <1>1 DEF StreamInv, ClientOK
  <2>2. WakeOK(c)'
    BY <1>1, <2>1 DEF WakeOK, InStream
  <2>3. CursorOK(c)' /\ AttemptsOK(c)' /\ AnswerOK(c)'
    BY <1>1, <2>1 DEF ClientOK, CursorOK, AttemptsOK, AnswerOK, Explained, ReturnedNone, Ends
  <2> QED
    BY <1>1, <2>1, <2>2, <2>3 DEF ClientOK
<1>4. WritersInv'
  BY <1>1 DEF StreamInv, WritersInv, Ending
<1> QED
  BY <1>1, <1>2, <1>3, <1>4 DEF StreamInv

-----------------------------------------------------------------------------
LEMMA InitHolds ==
  ASSUME Init
  PROVE  StreamInv
<1>1. TypeOK
  <2>1. todo \in [Writers -> 0..(Events + 1)]
    BY StreamAssumption DEF Init, StreamAssumption
  <2>2. log \in Seq(Row) /\ Len(log) = 0
    BY DEF Init
  <2>3. /\ visible \subseteq 1..Len(log) /\ txn \in [Writers -> 0..Len(log)] /\ owed \in [Writers -> BOOLEAN]
        /\ api \in BOOLEAN /\ listening \in BOOLEAN /\ notifications \in Nat
        /\ faults \in [FaultKinds -> Nat]
    BY <2>2 DEF Init
  <2>4. /\ subscribers = {c \in Clients : pc[c] \in {"wait", "read", "tail"}}
        /\ queue \in [Clients -> Nat] /\ batch \in [Clients -> SUBSET visible]
        /\ last_event_id \in [Clients -> Nat] /\ received \in [Clients -> SUBSET visible]
        /\ missed \in [Clients -> SUBSET visible] /\ pc \in [Clients -> PC]
    BY DEF Init, PC
  <2>5. /\ attempt \in [Clients -> 0.._SSE_MAX_ATTEMPTS] /\ errors \in [Clients -> 0.._SSE_MAX_ATTEMPTS]
        /\ answer \in [Clients -> Results \cup {None}]
    BY DEF Init, _SSE_MAX_ATTEMPTS
  <2> QED
    BY <2>1, <2>2, <2>3, <2>4, <2>5 DEF TypeOK
<1>2. \A c \in Clients : ClientOK(c)
  BY DEF Init, ClientOK, CursorOK, WakeOK, AttemptsOK, AnswerOK, InStream
<1>3. WritersInv
  BY DEF Init, WritersInv
<1> QED
  BY <1>1, <1>2, <1>3 DEF Init, StreamInv

LEMMA StreamSteps ==
  ASSUME StreamInv, [Next]_vars
  PROVE  StreamInv'
<1>1. ASSUME NEW w \in Writers, Write(w) \/ die(w)
      PROVE  StreamInv'
  BY <1>1, InsertKeeps, CommitKeeps, NotifyKeeps, DieKeeps DEF Write
<1>2. ASSUME NEW c \in Clients, Serve(c)
      PROVE  StreamInv'
  <2>1. CASE open(c) \/ register(c) \/ get(c) \/ load_events_after(c) \/ exhausted(c)
    BY <2>1, OpenKeeps, RegisterKeeps, GetKeeps, LoadKeeps, ExhaustedKeeps
  <2>2. CASE \E n \in batch[c] : yield(c, n) \/ workflow_completed(c, n) \/ workflow_failed(c, n)
    BY <2>2, YieldKeeps, EndRead
  <2> QED
    BY <1>2, <2>1, <2>2 DEF Serve
<1>3. ASSUME NEW c \in Clients, result(c) \/ Call(c) \/ time_out(c)
      PROVE  StreamInv'
  BY <1>3, ResultKeeps, ConnectErrorKeeps, RetryKeeps, TimeOutKeeps DEF Call
<1>4. CASE UNCHANGED vars
  <2>1. TypeOK'
    BY <1>4 DEF StreamInv, TypeOK, vars
  <2>2. \A c \in Clients : ClientOK(c)'
    <3> SUFFICES ASSUME NEW c \in Clients PROVE ClientOK(c)'
      OBVIOUS
    <3>1. ClientOK(c) /\ Same(c)
      BY <1>4 DEF StreamInv, Same, vars
    <3> QED
      BY <1>4, <3>1, SameClient DEF vars
  <2>3. WritersInv'
    BY <1>4 DEF StreamInv, WritersInv, Ending, vars
  <2> QED
    BY <1>4, <2>1, <2>2, <2>3 DEF StreamInv, vars
<1> QED
  BY <1>1, <1>2, <1>3, <1>4, OnNotifyKeeps, StopKeeps, StartKeeps, LoseKeeps DEF Next

LEMMA StreamInvariant == Spec => []StreamInv
<1>1. Init => StreamInv
  BY InitHolds
<1>2. StreamInv /\ [Next]_vars => StreamInv'
  BY StreamSteps
<1> QED
  BY <1>1, <1>2, PTL DEF Spec

-----------------------------------------------------------------------------
(***************************************************************************)
(* Theorems.                                                               *)
(***************************************************************************)
\* The log, the transactions of its writers, the queues of the API process and the
\* calls of the clients stay well formed; a stream has a queue exactly while it
\* is registered, and never holds an id that is not committed.
THEOREM StreamTyped == Spec => []TypeOK
<1>1. StreamInv => TypeOK
  BY DEF StreamInv
<1> QED
  BY <1>1, StreamInvariant, PTL

\* result() tells the truth: what it returns is the result of a committed
\* WORKFLOW_COMPLETED, what it raises for a failed workflow follows a committed
\* WORKFLOW_FAILED, and it gives up only after three connection errors or for a
\* workflow that returned None.
THEOREM AnswersAreTrue == Spec => []AnswerIsTrue
<1>1. StreamInv => AnswerIsTrue
  BY DEF StreamInv, ClientOK, AnswerOK, AnswerIsTrue, Explained, ReturnedNone
<1> QED
  BY <1>1, StreamInvariant, PTL

\* A stream that waits with nothing left to wake it, while the listener listens,
\* has sent the end of the workflow, or missed it between the read of the history
\* and the registration of its queue, or has sent a larger id.
THEOREM MissesHaveAReason == Spec => []MissedForAReason
<1>1. StreamInv => MissedForAReason
  <2> SUFFICES ASSUME StreamInv, NEW c \in Clients, pc[c] = "wait", queue[c] = 0, notifications = 0,
                      listening, NEW n \in Ends
               PROVE  n \in received[c] \/ n \in missed[c] \/ n < last_event_id[c]
    BY DEF MissedForAReason
  <2>1. Noticed(c, n)
    BY DEF StreamInv, ClientOK, WakeOK
  <2> QED
    BY <2>1 DEF Noticed
<1> QED
  BY <1>1, StreamInvariant, PTL

\* Within one connection an event follows all events sent before it: none is sent
\* twice or out of order, whatever the notifications did.
THEOREM StreamsInOrder == Spec => InOrderOnce
<1>1. StreamInv /\ [Next]_vars =>
        [\A c \in Clients : \A n \in batch[c] : Line(c, n) => \A m \in received[c] : m < n]_vars
  <2> SUFFICES ASSUME StreamInv, NEW c \in Clients, NEW n \in batch[c], Line(c, n), NEW m \in received[c]
               PROVE  m < n
    OBVIOUS
  <2> QED
    BY LineRead
<1> QED
  BY <1>1, StreamInvariant, PTL DEF Spec, InOrderOnce
=============================================================================
