------------------------------ MODULE AlertsProofs ------------------------------
(***************************************************************************)
(* Proofs about the push of alerts, for every number of callers, seconds,  *)
(* tasks, retries and faults, and about the lists and secrets of a user,   *)
(* for every set of items, number of requests and length of a list.        *)
(***************************************************************************)
EXTENDS MCAlerts, FiniteSetTheorems, WellFoundedInduction, TLAPS

\* What tasks and callers in progress name is there.
Placed == /\ \A t \in Tasks : /\ task[t].status = "none" <=> task[t].key = 0
                              /\ task[t].at # "none" => task[t].status = "running"
          /\ \A c \in Callers : /\ call[c].at # "idle" => call[c].key \in Keys
                                /\ call[c].at \in {"payload", "annotate"} => call[c].task \in Tasks

\* A task that is about to record "sent" has sent its message.
Ran == \A t \in Tasks : task[t].at = "record" /\ task[t].result = "sent" => sent[task[t].key] > 0

IInv == TypeOK /\ Placed /\ Ran /\ SentIsTruthful /\ FailureIsNotified

LEMMA KeysPositive == Keys \subseteq Nat /\ 0 \notin Keys /\ 0 \in 0..MaxTasks /\ 0 \in 0..MaxRetries /\ Tasks \subseteq 0..MaxTasks
BY PushAssumption DEF Tasks

THEOREM InitIInv == Init => IInv
<1> SUFFICES ASSUME Init PROVE IInv
    OBVIOUS
<1> USE DEF Init
<1>1. NoRow \in RowType /\ NoTask \in TaskType /\ Idle \in CallType
    BY KeysPositive DEF NoRow, RowType, NoTask, TaskType, Idle, CallType
<1>2. TypeOK
    BY <1>1, PushAssumption DEF TypeOK, ChannelKinds
<1>3. Placed /\ Ran /\ SentIsTruthful /\ FailureIsNotified
    BY DEF Placed, Ran, SentIsTruthful, FailureIsNotified, NoRow, NoTask, Idle
<1> QED BY <1>2, <1>3 DEF IInv

-----------------------------------------------------------------------------
\* The steps of time, channels and callers.
LEMMA StillSteps ==
    ASSUME IInv, Tick \/ Configure \/ UNCHANGED vars
    PROVE  IInv'
<1> USE DEF IInv
<1>1. TypeOK'
    BY PushAssumption DEF Tick, Configure, vars, TypeOK, ChannelKinds
<1>2. Placed' /\ Ran' /\ SentIsTruthful' /\ FailureIsNotified'
    BY DEF Tick, Configure, vars, Placed, Ran, SentIsTruthful, FailureIsNotified
<1> QED BY <1>1, <1>2

\* A step of a caller that leaves tasks, rows and notices alone.
LEMMA CallerMoves ==
    ASSUME IInv, NEW c \in Callers, NEW d \in CallType, call' = [call EXCEPT ![c] = d],
           d.at # "idle" => d.key \in Keys,
           d.at \in {"payload", "annotate"} => d.task \in Tasks
    PROVE  /\ call' \in [Callers -> CallType]
           /\ \A b \in Callers : /\ call'[b].at # "idle" => call'[b].key \in Keys
                                 /\ call'[b].at \in {"payload", "annotate"} => call'[b].task \in Tasks
BY DEF IInv, TypeOK, Placed

LEMMA AlertStep ==
    ASSUME IInv, NEW c \in Callers, Alert(c)
    PROVE  IInv'
<1> DEFINE d == [Idle EXCEPT !.at = "row", !.key = now]
<1>1. d \in CallType /\ d.at = "row" /\ d.key \in Keys
    BY KeysPositive DEF IInv, TypeOK, Idle, CallType
<1>2. call' = [call EXCEPT ![c] = d]
    BY DEF Alert
<1> HIDE DEF d
<1>3. /\ call' \in [Callers -> CallType]
      /\ \A b \in Callers : /\ call'[b].at # "idle" => call'[b].key \in Keys
                            /\ call'[b].at \in {"payload", "annotate"} => call'[b].task \in Tasks
    BY <1>1, <1>2, CallerMoves
<1> QED BY <1>3 DEF Alert, IInv, TypeOK, Placed, Ran, SentIsTruthful, FailureIsNotified

LEMMA RetryStep ==
    ASSUME IInv, NEW c \in Callers, NEW k \in Keys, Retry(c, k)
    PROVE  IInv'
<1>1. CASE channel = "missing"
  <2>1. row' = [row EXCEPT ![k].status = "skipped"] /\ UNCHANGED <<now, task, call, channel, sent, notice, faults, joined>>
    BY <1>1 DEF Retry
  <2>2. row' \in [Keys -> RowType]
    BY <2>1 DEF IInv, TypeOK, RowType, Statuses
  <2>3. \A j \in Keys : row'[j].status = row[j].status \/ row'[j].status = "skipped"
    BY <2>1 DEF IInv, TypeOK, RowType
  <2> QED BY <2>1, <2>2, <2>3 DEF IInv, TypeOK, Placed, Ran, SentIsTruthful, FailureIsNotified
<1>2. CASE channel # "missing"
  <2> DEFINE d == [Idle EXCEPT !.at = "row", !.key = k, !.retry = row[k].retry + 1]
  <2>r. row[k].retry + 1 \in Nat
    BY DEF IInv, TypeOK, RowType
  <2>1. d \in CallType /\ d.at = "row" /\ d.key = k
    BY <2>r, KeysPositive DEF Idle, CallType
  <2>2. call' = [call EXCEPT ![c] = d] /\ UNCHANGED <<now, row, task, channel, sent, notice, faults, joined>>
    BY <1>2 DEF Retry
  <2> HIDE DEF d
  <2>3. /\ call' \in [Callers -> CallType]
        /\ \A b \in Callers : /\ call'[b].at # "idle" => call'[b].key \in Keys
                              /\ call'[b].at \in {"payload", "annotate"} => call'[b].task \in Tasks
    BY <2>1, <2>2, CallerMoves
  <2> QED BY <2>2, <2>3 DEF IInv, TypeOK, Placed, Ran, SentIsTruthful, FailureIsNotified
<1> QED BY <1>1, <1>2

LEMMA QueueRowStep ==
    ASSUME IInv, NEW c \in Callers, QueueRow(c)
    PROVE  IInv'
<1> DEFINE d == [call[c] EXCEPT !.at = "enqueue"]
           n == [status |-> "queued", task |-> 0, retry |-> call[c].retry]
<1>1. d \in CallType /\ d.at = "enqueue" /\ d.key \in Keys /\ d.key = call[c].key
    BY DEF QueueRow, IInv, TypeOK, CallType, Placed
<1>2. n \in RowType /\ n.status = "queued"
    BY KeysPositive DEF IInv, TypeOK, CallType, RowType, Statuses
<1>3. call' = [call EXCEPT ![c] = d] /\ row' = [row EXCEPT ![call[c].key] = n]
    BY DEF QueueRow
<1> HIDE DEF d, n
<1>4. /\ call' \in [Callers -> CallType]
      /\ \A b \in Callers : /\ call'[b].at # "idle" => call'[b].key \in Keys
                            /\ call'[b].at \in {"payload", "annotate"} => call'[b].task \in Tasks
    BY <1>1, <1>3, CallerMoves
<1>5. row' \in [Keys -> RowType] /\ \A j \in Keys : row'[j].status = row[j].status \/ row'[j].status = "queued"
    BY <1>1, <1>2, <1>3 DEF IInv, TypeOK
<1> QED BY <1>4, <1>5 DEF QueueRow, IInv, TypeOK, Placed, Ran, SentIsTruthful, FailureIsNotified

\* A step that replaces one task that recorded nothing yet.
LEMMA TaskMoves ==
    ASSUME IInv, NEW t \in Tasks, NEW u \in TaskType, task' = [task EXCEPT ![t] = u]
    PROVE  task' \in [Tasks -> TaskType] /\ task'[t] = u /\ \A s \in Tasks \ {t} : task'[s] = task[s]
BY DEF IInv, TypeOK

LEMMA EnqueueStep ==
    ASSUME IInv, NEW c \in Callers, Enqueue(c)
    PROVE  IInv'
<1>0. call[c].key \in Keys /\ call[c] \in CallType
    BY DEF Enqueue, IInv, Placed, TypeOK
<1>1. CASE ActiveOf(call[c].key) # {}
  <2>1. PICK t \in ActiveOf(call[c].key) : call' = [call EXCEPT ![c].at = "annotate", ![c].task = t]
    BY <1>1 DEF Enqueue
  <2> DEFINE d == [call[c] EXCEPT !.at = "annotate", !.task = t]
  <2>2. t \in Tasks /\ t \in 0..MaxTasks
    BY KeysPositive DEF ActiveOf
  <2>3. d \in CallType /\ d.key \in Keys /\ d.task \in Tasks
    BY <1>0, <2>2 DEF CallType
  <2>4. call' = [call EXCEPT ![c] = d]
    BY <2>1
  <2> HIDE DEF d
  <2>5. /\ call' \in [Callers -> CallType]
        /\ \A b \in Callers : /\ call'[b].at # "idle" => call'[b].key \in Keys
                              /\ call'[b].at \in {"payload", "annotate"} => call'[b].task \in Tasks
    BY <2>3, <2>4, CallerMoves
  <2> QED BY <1>0, <1>1, <2>5 DEF Enqueue, IInv, TypeOK, Placed, Ran, SentIsTruthful, FailureIsNotified
<1>2. CASE ActiveOf(call[c].key) = {}
  <2>1. PICK t \in Tasks \ Made :
          /\ task' = [task EXCEPT ![t] = [NoTask EXCEPT !.key = call[c].key, !.status = "pending"]]
          /\ call' = [call EXCEPT ![c].at = IF SharedPayload THEN "payload" ELSE "annotate", ![c].task = t]
          /\ UNCHANGED joined
    BY <1>2 DEF Enqueue
  <2> DEFINE d == [call[c] EXCEPT !.at = IF SharedPayload THEN "payload" ELSE "annotate", !.task = t]
             u == [NoTask EXCEPT !.key = call[c].key, !.status = "pending"]
  <2>2. t \in Tasks /\ t \in 0..MaxTasks /\ task[t].key = 0
    BY KeysPositive DEF Made, IInv, Placed
  <2>3. d \in CallType /\ d.key \in Keys /\ d.task \in Tasks
    BY <1>0, <2>2 DEF CallType
  <2>4. u \in TaskType /\ u.key \in Keys /\ u.status = "pending" /\ u.at = "none"
    BY <1>0, KeysPositive DEF NoTask, TaskType
  <2>5. call' = [call EXCEPT ![c] = d] /\ task' = [task EXCEPT ![t] = u]
    BY <2>1
  <2> HIDE DEF d, u
  <2>6. /\ call' \in [Callers -> CallType]
        /\ \A b \in Callers : /\ call'[b].at # "idle" => call'[b].key \in Keys
                              /\ call'[b].at \in {"payload", "annotate"} => call'[b].task \in Tasks
    BY <2>3, <2>5, CallerMoves
  <2>7. task' \in [Tasks -> TaskType] /\ task'[t] = u /\ \A s \in Tasks \ {t} : task'[s] = task[s]
    BY <2>2, <2>4, <2>5, TaskMoves
  <2>8. TypeOK'
    BY <2>1, <2>6, <2>7 DEF Enqueue, IInv, TypeOK
  <2>9. Placed' /\ Ran' /\ SentIsTruthful'
    BY <2>4, <2>6, <2>7, KeysPositive DEF Enqueue, IInv, Placed, Ran, SentIsTruthful
  <2>10. FailureIsNotified'
    BY <2>2, <2>7, KeysPositive DEF Enqueue, IInv, FailureIsNotified
  <2> QED BY <2>8, <2>9, <2>10 DEF IInv
<1> QED BY <1>1, <1>2

LEMMA FillPayloadStep ==
    ASSUME IInv, NEW c \in Callers, FillPayload(c)
    PROVE  IInv'
<1> DEFINE d == [call[c] EXCEPT !.at = "annotate"]
           t == call[c].task
           u == [task[t] EXCEPT !.id = t, !.retry = call[c].retry]
<1>1. t \in Tasks /\ t \in 0..MaxTasks /\ call[c].key \in Keys /\ call[c].retry \in Nat
    BY KeysPositive DEF FillPayload, IInv, Placed, TypeOK, CallType
<1>2. d \in CallType /\ d.key \in Keys /\ d.task \in Tasks
    BY <1>1 DEF IInv, TypeOK, CallType
<1>3. u \in TaskType /\ u.key = task[t].key /\ u.status = task[t].status /\ u.at = task[t].at /\ u.result = task[t].result
    BY <1>1 DEF IInv, TypeOK, TaskType
<1>4. call' = [call EXCEPT ![c] = d]
    BY DEF FillPayload
<1>5. task' = [task EXCEPT ![t] = u]
    BY DEF FillPayload
<1> HIDE DEF d, u
<1>6. /\ call' \in [Callers -> CallType]
      /\ \A b \in Callers : /\ call'[b].at # "idle" => call'[b].key \in Keys
                            /\ call'[b].at \in {"payload", "annotate"} => call'[b].task \in Tasks
    BY <1>2, <1>4, CallerMoves
<1>7. task' \in [Tasks -> TaskType] /\ task'[t] = u /\ \A s \in Tasks \ {t} : task'[s] = task[s]
    BY <1>1, <1>3, <1>5, TaskMoves
<1>8. TypeOK'
    BY <1>6, <1>7 DEF FillPayload, IInv, TypeOK
<1>9. \A s \in Tasks : /\ task'[s].key = task[s].key /\ task'[s].status = task[s].status
                       /\ task'[s].at = task[s].at /\ task'[s].result = task[s].result
    BY <1>3, <1>7
<1> HIDE DEF t
<1>u. UNCHANGED <<row, sent, notice>>
    BY DEF FillPayload
<1>10. Placed'
    BY <1>6, <1>9 DEF IInv, Placed
<1>11. Ran'
    BY <1>9, <1>u DEF IInv, Ran
<1>12. SentIsTruthful'
    BY <1>u DEF IInv, SentIsTruthful
<1>13. FailureIsNotified'
    BY <1>9, <1>u DEF IInv, FailureIsNotified
<1> QED BY <1>8, <1>10, <1>11, <1>12, <1>13 DEF IInv

LEMMA AnnotateStep ==
    ASSUME IInv, NEW c \in Callers, Annotate(c)
    PROVE  IInv'
<1> DEFINE k == call[c].key
           m == Max({call[c].retry, task[call[c].task].attempt})
<1>1. k \in Keys /\ call[c].task \in Tasks /\ call[c].task \in 0..MaxTasks /\ call[c].retry \in Nat
    BY KeysPositive DEF Annotate, IInv, Placed, TypeOK, CallType
<1>2. task[call[c].task].attempt \in Nat
    BY <1>1, PushAssumption DEF IInv, TypeOK, TaskType
<1>3. m \in Nat
  <2>1. \A a, b \in Nat : Max({a, b}) \in {a, b}
    <3>1. \A a, b \in Nat : \E x \in {a, b} : \A y \in {a, b} : x >= y
        OBVIOUS
    <3> QED BY <3>1 DEF Max
  <2> QED BY <2>1, <1>1, <1>2
<1>4. row' = [row EXCEPT ![k].task = call[c].task, ![k].retry = m] /\ call' = [call EXCEPT ![c] = Idle]
    BY DEF Annotate
<1> HIDE DEF m
<1>5. row' \in [Keys -> RowType] /\ \A j \in Keys : row'[j].status = row[j].status
    BY <1>1, <1>3, <1>4 DEF IInv, TypeOK, RowType
<1>6. Idle \in CallType /\ Idle.at = "idle"
    BY KeysPositive DEF Idle, CallType
<1>7. /\ call' \in [Callers -> CallType]
      /\ \A b \in Callers : /\ call'[b].at # "idle" => call'[b].key \in Keys
                            /\ call'[b].at \in {"payload", "annotate"} => call'[b].task \in Tasks
    BY <1>4, <1>6, CallerMoves
<1> QED BY <1>5, <1>7 DEF Annotate, IInv, TypeOK, Placed, Ran, SentIsTruthful, FailureIsNotified

LEMMA CallerDiesStep ==
    ASSUME IInv, NEW c \in Callers, CallerDies(c)
    PROVE  IInv'
<1>1. Idle \in CallType /\ Idle.at = "idle"
    BY KeysPositive DEF Idle, CallType
<1>2. /\ call' \in [Callers -> CallType]
      /\ \A b \in Callers : /\ call'[b].at # "idle" => call'[b].key \in Keys
                            /\ call'[b].at \in {"payload", "annotate"} => call'[b].task \in Tasks
    BY <1>1, CallerMoves DEF CallerDies
<1>3. faults' \in 0..MaxFaults
    BY PushAssumption DEF CallerDies, IInv, TypeOK
<1> QED BY <1>2, <1>3 DEF CallerDies, IInv, TypeOK, Placed, Ran, SentIsTruthful, FailureIsNotified

-----------------------------------------------------------------------------
\* The steps of tasks.
LEMMA DispatchStep ==
    ASSUME IInv, NEW t \in Tasks, Dispatch(t)
    PROVE  IInv'
<1>1. PICK o \in Outcomes :
        /\ task' = [task EXCEPT ![t].status = "running", ![t].at = "record", ![t].result = o.status]
        /\ sent' = [sent EXCEPT ![task[t].key] = @ + o.arrived]
    BY DEF Dispatch
<1>2. o.status \in Statuses /\ o.arrived \in {0, 1} /\ (o.status = "sent" => o.arrived = 1)
    BY DEF Outcomes, Transport, Refused, Statuses, IInv, TypeOK, ChannelKinds
<1> DEFINE u == [task[t] EXCEPT !.status = "running", !.at = "record", !.result = o.status]
<1>3. u \in TaskType /\ u.key = task[t].key /\ u.status = "running" /\ u.at = "record" /\ u.result = o.status
    BY <1>2 DEF IInv, TypeOK, TaskType
<1>4. task' = [task EXCEPT ![t] = u]
    BY <1>1
<1>5. task[t].key \in Keys /\ task[t].status = "pending"
    BY KeysPositive DEF Dispatch, IInv, Placed, TypeOK, TaskType
<1> HIDE DEF u
<1>6. task' \in [Tasks -> TaskType] /\ task'[t] = u /\ \A s \in Tasks \ {t} : task'[s] = task[s]
    BY <1>3, <1>4, TaskMoves
<1>7. /\ sent' \in [Keys -> Nat] /\ \A k \in Keys : sent'[k] >= sent[k]
      /\ sent'[task[t].key] = sent[task[t].key] + o.arrived
    BY <1>1, <1>2, <1>5 DEF IInv, TypeOK
<1>8. TypeOK'
    BY <1>6, <1>7 DEF Dispatch, IInv, TypeOK
<1>9. Placed' /\ FailureIsNotified'
    BY <1>3, <1>5, <1>6, KeysPositive DEF Dispatch, IInv, Placed, FailureIsNotified
<1>10. \A k \in Keys : sent[k] > 0 => sent'[k] > 0
    BY <1>7 DEF IInv, TypeOK
<1>11. SentIsTruthful'
    BY <1>10 DEF Dispatch, IInv, SentIsTruthful
<1>12. Ran'
  <2>1. u.result = "sent" => sent'[task[t].key] > 0
    BY <1>2, <1>3, <1>5, <1>7 DEF IInv, TypeOK
  <2>2. ASSUME NEW s \in Tasks \ {t}, task[s].at = "record", task[s].result = "sent" PROVE sent'[task[s].key] > 0
    <3>1. task[s].key \in Keys
        BY <2>2, KeysPositive DEF IInv, Placed, TypeOK, TaskType
    <3> QED BY <2>2, <3>1, <1>10 DEF IInv, Ran
  <2> QED BY <2>1, <2>2, <1>3, <1>6 DEF Ran
<1> QED BY <1>8, <1>9, <1>11, <1>12 DEF IInv

\* What every other step of a task does: the task keeps its key, stays among those
\* that were made and no longer has a result to record.
LEMMA TaskSettles ==
    ASSUME IInv, NEW t \in Tasks, NEW u \in TaskType, task' = [task EXCEPT ![t] = u], UNCHANGED <<call, sent>>,
           u.key = task[t].key, task[t].status # "none", u.status # "none",
           u.at \in {"none", "notify"}, u.at = "notify" => u.status = "running"
    PROVE  /\ task' \in [Tasks -> TaskType] /\ Placed' /\ Ran'
           /\ task[t].key \in Keys /\ task'[t] = u /\ \A s \in Tasks \ {t} : task'[s] = task[s]
<1>1. task' \in [Tasks -> TaskType] /\ task'[t] = u /\ \A s \in Tasks \ {t} : task'[s] = task[s]
    BY TaskMoves
<1>2. task[t].key \in Keys
    BY KeysPositive DEF IInv, Placed, TypeOK, TaskType
<1>3. Placed'
    BY <1>1, <1>2, KeysPositive DEF IInv, Placed
<1>4. Ran'
    BY <1>1 DEF IInv, Ran
<1> QED BY <1>1, <1>2, <1>3, <1>4

LEMMA RecordStep ==
    ASSUME IInv, NEW t \in Tasks, Record(t)
    PROVE  IInv'
<1> DEFINE k == task[t].key
           u == IF task[t].result = "failed" THEN [task[t] EXCEPT !.at = "notify"]
                ELSE [task[t] EXCEPT !.status = "completed", !.at = "none"]
<1>1. task[t].at = "record" /\ task[t].status = "running" /\ task[t] \in TaskType
    BY DEF Record, IInv, Placed, TypeOK
<1>2. /\ u \in TaskType /\ u.key = k /\ u.status # "none" /\ u.at \in {"none", "notify"}
      /\ u.at = "notify" => u.status = "running"
      /\ task[t].result = "failed" => u.status = "running"
    BY <1>1 DEF TaskType
<1>3. task' = [task EXCEPT ![t] = u]
    BY DEF Record, Finish
<1> HIDE DEF u
<1>4. /\ task' \in [Tasks -> TaskType] /\ Placed' /\ Ran'
      /\ k \in Keys /\ task'[t] = u /\ \A s \in Tasks \ {t} : task'[s] = task[s]
    BY <1>1, <1>2, <1>3, TaskSettles DEF Record
<1>5. /\ row' \in [Keys -> RowType] /\ row'[k].status = task[t].result
      /\ \A j \in Keys \ {k} : row'[j].status = row[j].status
  <2>1. row' = [row EXCEPT ![k].status = task[t].result,
                           ![k].task = IF task[t].id # 0 THEN task[t].id ELSE @,
                           ![k].retry = task[t].retry]
    BY DEF Record
  <2> DEFINE i == IF task[t].id # 0 THEN task[t].id ELSE row[k].task
             n == [row[k] EXCEPT !.status = task[t].result, !.task = i, !.retry = task[t].retry]
  <2>4. row[k] \in RowType /\ i \in 0..MaxTasks
    BY <1>1, <1>4 DEF IInv, TypeOK, RowType, TaskType
  <2> HIDE DEF i
  <2>2. n \in RowType /\ n.status = task[t].result
    BY <2>4, <1>1 DEF RowType, TaskType
  <2> USE DEF i
  <2>3. row' = [row EXCEPT ![k] = n]
    BY <2>1
  <2> HIDE DEF n
  <2> QED BY <2>2, <2>3, <1>4 DEF IInv, TypeOK
<1>6. TypeOK'
    BY <1>4, <1>5 DEF Record, IInv, TypeOK
<1>7. SentIsTruthful'
    BY <1>1, <1>5 DEF Record, IInv, SentIsTruthful, Ran
<1>8. FailureIsNotified'
  <2> SUFFICES ASSUME NEW j \in Keys, row'[j].status = "failed"
               PROVE  j \in notice \/ \E s \in Tasks : task'[s].key = j /\ task'[s].status # "completed"
    BY DEF FailureIsNotified, Record
  <2>1. CASE j = k
    BY <2>1, <1>2, <1>4, <1>5
  <2>2. CASE j # k
    <3>1. j \in notice \/ \E s \in Tasks : task[s].key = j /\ task[s].status # "completed"
        BY <2>2, <1>5 DEF IInv, FailureIsNotified
    <3> QED BY <2>2, <3>1, <1>4
  <2> QED BY <2>1, <2>2
<1> QED BY <1>4, <1>6, <1>7, <1>8 DEF IInv

LEMMA NotifyStep ==
    ASSUME IInv, NEW t \in Tasks, Notify(t)
    PROVE  IInv'
<1> DEFINE u == [task[t] EXCEPT !.status = "completed", !.at = "none"]
<1>1. task[t].status = "running"
    BY DEF Notify, IInv, Placed
<1>2. u \in TaskType /\ u.key = task[t].key /\ u.status = "completed" /\ u.at = "none"
    BY DEF IInv, TypeOK, TaskType
<1>3. task' = [task EXCEPT ![t] = u]
    BY DEF Notify, Finish
<1> HIDE DEF u
<1>4. /\ task' \in [Tasks -> TaskType] /\ Placed' /\ Ran'
      /\ task[t].key \in Keys /\ task'[t] = u /\ \A s \in Tasks \ {t} : task'[s] = task[s]
    BY <1>1, <1>2, <1>3, TaskSettles DEF Notify
<1>5. TypeOK' /\ SentIsTruthful'
    BY <1>4 DEF Notify, IInv, TypeOK, SentIsTruthful
<1>6. FailureIsNotified'
    BY <1>4 DEF Notify, IInv, FailureIsNotified
<1> QED BY <1>4, <1>5, <1>6 DEF IInv

LEMMA FaultSteps ==
    ASSUME IInv, NEW t \in Tasks, Raise(t) \/ WorkerDies(t)
    PROVE  IInv'
<1>1. \E u \in TaskType : /\ task' = [task EXCEPT ![t] = u]
                          /\ u.key = task[t].key /\ u.status \in {"pending", "failed", "stale"} /\ u.at = "none"
  <2>t. task[t] \in TaskType
    BY DEF IInv, TypeOK
  <2>1. CASE Raise(t) /\ task[t].attempt < MaxRetries
    <3> DEFINE u == [task[t] EXCEPT !.at = "none", !.status = "pending", !.attempt = @ + 1]
    <3>1. u \in TaskType /\ u.key = task[t].key /\ u.status = "pending" /\ u.at = "none"
      <4>1. task[t].attempt + 1 \in 0..MaxRetries
        BY <2>1, <2>t, PushAssumption DEF TaskType
      <4> QED BY <4>1, <2>t DEF TaskType
    <3>2. task' = [task EXCEPT ![t] = u]
        BY <2>1 DEF Raise
    <3> QED BY <3>1, <3>2
  <2>2. CASE Raise(t) /\ ~(task[t].attempt < MaxRetries)
    <3> DEFINE u == [task[t] EXCEPT !.at = "none", !.status = "failed"]
    <3>1. u \in TaskType /\ u.key = task[t].key /\ u.status = "failed" /\ u.at = "none"
        BY <2>t DEF TaskType
    <3>2. task' = [task EXCEPT ![t] = u]
        BY <2>2 DEF Raise
    <3> QED BY <3>1, <3>2
  <2>3. CASE WorkerDies(t)
    <3> DEFINE u == [task[t] EXCEPT !.status = "stale", !.at = "none"]
    <3>1. u \in TaskType /\ u.key = task[t].key /\ u.status = "stale" /\ u.at = "none"
        BY <2>t DEF TaskType
    <3>2. task' = [task EXCEPT ![t] = u]
        BY <2>3 DEF WorkerDies
    <3> QED BY <3>1, <3>2
  <2> QED BY <2>1, <2>2, <2>3
<1>2. PICK u \in TaskType : /\ task' = [task EXCEPT ![t] = u]
                            /\ u.key = task[t].key /\ u.status \in {"pending", "failed", "stale"} /\ u.at = "none"
    BY <1>1
<1>3. task[t].status = "running" /\ UNCHANGED <<now, row, call, channel, sent, notice, joined>> /\ faults' = faults + 1 /\ faults < MaxFaults
    BY DEF Raise, WorkerDies, IInv, Placed
<1>4. /\ task' \in [Tasks -> TaskType] /\ Placed' /\ Ran'
      /\ task[t].key \in Keys /\ task'[t] = u /\ \A s \in Tasks \ {t} : task'[s] = task[s]
    BY <1>2, <1>3, TaskSettles
<1>5. TypeOK'
    BY <1>3, <1>4, PushAssumption DEF IInv, TypeOK
<1>6. SentIsTruthful' /\ FailureIsNotified'
    BY <1>2, <1>3, <1>4 DEF IInv, SentIsTruthful, FailureIsNotified
<1> QED BY <1>4, <1>5, <1>6 DEF IInv

-----------------------------------------------------------------------------
THEOREM NextIInv == IInv /\ [Next]_vars => IInv'
<1> SUFFICES ASSUME IInv, [Next]_vars PROVE IInv'
    OBVIOUS
<1>1. CASE Tick \/ Configure \/ UNCHANGED vars
    BY <1>1, StillSteps
<1>2. ASSUME NEW c \in Callers,
             \/ Alert(c) \/ QueueRow(c) \/ Enqueue(c) \/ FillPayload(c) \/ Annotate(c) \/ CallerDies(c)
             \/ \E k \in Keys : Retry(c, k)
      PROVE  IInv'
    BY <1>2, AlertStep, QueueRowStep, EnqueueStep, FillPayloadStep, AnnotateStep, CallerDiesStep, RetryStep
<1>3. ASSUME NEW t \in Tasks, Dispatch(t) \/ Record(t) \/ Notify(t) \/ Raise(t) \/ WorkerDies(t)
      PROVE  IInv'
    BY <1>3, DispatchStep, RecordStep, NotifyStep, FaultSteps
<1> QED BY <1>1, <1>2, <1>3 DEF Next

THEOREM Invariant == Spec => []IInv
BY InitIInv, NextIInv, PTL DEF Spec

(* Rows, tasks and calls keep their types.                                     *)
THEOREM TypeCorrect == Spec => []TypeOK
<1>1. IInv => TypeOK
    BY DEF IInv
<1> QED BY <1>1, Invariant, PTL

(* The deliveries table tells the truth under every interleaving of requests,  *)
(* retries, tasks, edits of the channel, crashes and database errors.          *)
THEOREM TableIsTruthful == Spec => []DeliveriesTruthful
<1>1. IInv => DeliveriesTruthful
    BY DEF IInv, DeliveriesTruthful
<1> QED BY <1>1, Invariant, PTL
-------------------------------------------------------------------------------
(* The lists of a user.  What Without leaves of a list is shown by induction   *)
(* over the list, as the absence of a least place up to which it fails.        *)

Unique(s) == \A i, j \in DOMAIN s : s[i].id = s[j].id => i = j

LEMMA LeastIsThere == ASSUME NEW S, S \subseteq Nat, S # {} PROVE \E x \in S : \A y \in S : x <= y
<1>1. PICK x \in S : \A y \in S : ~(<<y, x>> \in OpToRel(<, Nat))
    BY NatLessThanWellFounded, WFMin
<1>2. \A y \in S : ~(y < x)
    BY <1>1 DEF OpToRel
<1> QED BY <1>2

LEMMA Filtered ==
    ASSUME NEW s \in Seq(Kept!Item), NEW id
    PROVE  /\ Kept!Without(s, id) \in Seq(Kept!Item)
           /\ \A i \in DOMAIN Kept!Without(s, id) : Kept!Without(s, id)[i].id # id /\ \E j \in DOMAIN s : Kept!Without(s, id)[i] = s[j]
           /\ Unique(s) => Unique(Kept!Without(s, id))
<1> DEFINE Step(g, n) == IF n = 0 THEN <<>> ELSE IF s[n].id = id THEN g[n - 1] ELSE Append(g[n - 1], s[n])
           Table(g, m) == g = [n \in 0..m |-> Step(g, n)]
           f == CHOOSE g : Table(g, Len(s))
<1>0. Len(s) \in Nat /\ DOMAIN s = 1..Len(s) /\ \A n \in 1..Len(s) : s[n] \in Kept!Item
    OBVIOUS
<1>1. Kept!Without(s, id) = f[Len(s)]
    BY DEF Kept!Without
<1>2. \E g : Table(g, Len(s))
    <2> DEFINE Has(m) == \E g : Table(g, m)
               T == {m \in 0..Len(s) : ~Has(m)}
    <2>1. Has(0)
        <3> DEFINE g == [n \in 0..0 |-> <<>>]
        <3>1. \A n \in 0..0 : Step(g, n) = <<>>
            OBVIOUS
        <3>2. Table(g, 0)
            <4> HIDE DEF Step
            <4> QED BY <3>1
        <3> QED BY <3>2
    <2>2. ASSUME NEW m \in 1..Len(s), Has(m - 1) PROVE Has(m)
        <3>1. PICK g : Table(g, m - 1)
            BY <2>2
        <3> DEFINE h == [n \in 0..m |-> IF n = m THEN Step(g, m) ELSE g[n]]
        <3>2. ASSUME NEW n \in 0..m, n # m PROVE h[n] = Step(h, n)
            <4>1. n \in 0..(m - 1) /\ (n # 0 => n - 1 \in 0..m /\ n - 1 # m)
                BY <1>0, <3>2
            <4>2. g[n] = Step(g, n)
                BY <3>1, <4>1
            <4> QED BY <3>2, <4>1, <4>2
        <3>3. h[m] = Step(h, m)
            <4>1. m # 0 /\ m \in 0..m /\ m - 1 \in 0..m /\ m - 1 # m
                BY <1>0
            <4> QED BY <4>1
        <3>4. Table(h, m)
            <4>1. \A n \in 0..m : h[n] = Step(h, n)
                BY <3>2, <3>3
            <4> HIDE DEF Step
            <4> QED BY <4>1
        <3> QED BY <3>4
    <2> HIDE DEF Has
    <2>3. ASSUME NEW m \in T, \A k \in T : m <= k PROVE FALSE
        <3>1. m \in 1..Len(s) /\ m - 1 \in 0..Len(s)
            BY <1>0, <2>1, <2>3
        <3>2. m - 1 \notin T
            BY <1>0, <2>3
        <3> QED BY <2>2, <3>1, <3>2
    <2>4. T = {}
        <3>1. T \subseteq Nat
            BY <1>0
        <3> HIDE DEF T
        <3> QED BY <2>3, <3>1, LeastIsThere
    <2>5. Has(Len(s))
        BY <1>0, <2>4
    <2> QED BY <2>5 DEF Has
<1>3. Table(f, Len(s))
    BY <1>2
<1> HIDE DEF f
<1>4. \A n \in 0..Len(s) : f[n] = Step(f, n)
    BY <1>3
<1> DEFINE Good(n) == /\ f[n] \in Seq(Kept!Item)
                      /\ \A i \in DOMAIN f[n] : f[n][i].id # id /\ \E j \in 1..n : f[n][i] = s[j]
                      /\ Unique(s) => Unique(f[n])
           Bad == {n \in 0..Len(s) : ~Good(n)}
<1>5. ASSUME NEW n \in Bad, \A k \in Bad : n <= k PROVE FALSE
    <2>1. CASE n = 0
        <3>1. f[n] = <<>>
            BY <1>0, <1>4, <2>1
        <3>2. <<>> \in Seq(Kept!Item) /\ DOMAIN <<>> = {}
            OBVIOUS
        <3>3. Good(n)
            BY <3>1, <3>2 DEF Unique
        <3> QED BY <1>5, <3>3
    <2>2. CASE n # 0
        <3>1. n - 1 \in 0..Len(s) /\ Good(n - 1) /\ n \in 1..Len(s)
            BY <1>0, <1>5, <2>2
        <3>2. CASE s[n].id = id
            <4>1. f[n] = f[n - 1]
                BY <1>4, <2>2, <3>1, <3>2
            <4>2. \A j \in 1..(n - 1) : j \in 1..n
                BY <1>0, <3>1
            <4>3. Good(n)
                BY <3>1, <4>1, <4>2
            <4> QED BY <1>5, <4>3
        <3>3. CASE s[n].id # id
            <4> DEFINE r == f[n - 1]
            <4>1. f[n] = Append(r, s[n])
                BY <1>4, <2>2, <3>1, <3>3
            <4>2. /\ r \in Seq(Kept!Item) /\ s[n] \in Kept!Item
                  /\ \A i \in DOMAIN r : r[i].id # id /\ \E j \in 1..(n - 1) : r[i] = s[j]
                  /\ Unique(s) => Unique(r)
                BY <1>0, <3>1
            <4> HIDE DEF r
            <4>3. /\ f[n] \in Seq(Kept!Item) /\ Len(r) \in Nat /\ DOMAIN r = 1..Len(r)
                  /\ DOMAIN f[n] = 1..(Len(r) + 1)
                  /\ \A i \in 1..Len(r) : f[n][i] = r[i]
                  /\ f[n][Len(r) + 1] = s[n]
                BY <4>1, <4>2
            <4>4. \A i \in DOMAIN f[n] : f[n][i].id # id /\ \E j \in 1..n : f[n][i] = s[j]
                <5>1. ASSUME NEW i \in 1..Len(r) PROVE f[n][i].id # id /\ \E j \in 1..n : f[n][i] = s[j]
                    <6>1. PICK j \in 1..(n - 1) : r[i] = s[j]
                        BY <4>2, <4>3
                    <6>2. j \in 1..n
                        BY <1>0, <3>1
                    <6> QED BY <4>2, <4>3, <6>1, <6>2
                <5>2. n \in 1..n
                    BY <1>0, <3>1
                <5> QED BY <3>3, <4>3, <5>1, <5>2
            <4>5. ASSUME Unique(s) PROVE Unique(f[n])
                <5>1. \A i \in 1..Len(r) : r[i].id # s[n].id
                    <6>1. ASSUME NEW i \in 1..Len(r), r[i].id = s[n].id PROVE FALSE
                        <7>1. PICK j \in 1..(n - 1) : r[i] = s[j]
                            BY <4>2, <4>3
                        <7>2. j \in DOMAIN s /\ n \in DOMAIN s /\ j # n
                            BY <1>0, <3>1
                        <7> QED BY <4>5, <6>1, <7>1, <7>2 DEF Unique
                    <6> QED BY <6>1
                <5>2. \A i, j \in 1..Len(r) : r[i].id = r[j].id => i = j
                    BY <4>2, <4>3, <4>5 DEF Unique
                <5> QED BY <4>3, <5>1, <5>2 DEF Unique
            <4>6. Good(n)
                BY <4>3, <4>4, <4>5
            <4> QED BY <1>5, <4>6
        <3> QED BY <3>2, <3>3
    <2> QED BY <2>1, <2>2
<1>6. Bad = {}
    <2>1. Bad \subseteq Nat
        BY <1>0
    <2> HIDE DEF Bad
    <2> QED BY <1>5, <2>1, LeastIsThere
<1>7. Good(Len(s))
    BY <1>0, <1>6
<1> QED BY <1>0, <1>1, <1>7

\* The first item of an id, and the base of an upsert.
LEMMA FirstIsThere == ASSUME NEW s \in Seq(Kept!Item), NEW id, Kept!HasId(s, id)
                      PROVE  Kept!First(s, id) \in DOMAIN s /\ s[Kept!First(s, id)].id = id
<1> DEFINE S == {i \in DOMAIN s : s[i].id = id}
<1>1. Len(s) \in Nat /\ DOMAIN s = 1..Len(s) /\ S \subseteq Nat /\ S # {}
    BY DEF Kept!HasId
<1>2. PICK i \in S : \A j \in S : i <= j
    BY <1>1, LeastIsThere
<1>3. \A j \in 1..i-1 : s[j].id # id
    BY <1>1, <1>2
<1> QED BY <1>2, <1>3 DEF Kept!First

LEMMA BaseFacts == ASSUME NEW s \in Seq(Kept!Item), NEW id \in Ids
                   PROVE  LET b == Kept!BaseOf(s, id)
                          IN b \in Kept!Item /\ b.id = id /\ (b.count = 0 \/ \E i \in DOMAIN s : b = s[i])
<1>1. CASE Kept!HasId(s, id)
    BY <1>1, FirstIsThere DEF Kept!BaseOf
<1>2. CASE ~Kept!HasId(s, id)
    BY <1>2 DEF Kept!BaseOf, Kept!New, Kept!Item
<1> QED BY <1>1, <1>2

\* An item put at the head in place of those of its id.
LEMMA PutFacts ==
    ASSUME NEW s \in Seq(Kept!Item), NEW it \in Kept!Item
    PROVE  LET r == <<it>> \o Kept!Without(s, it.id)
           IN /\ r \in Seq(Kept!Item) /\ (Unique(s) => Unique(r))
              /\ \A i \in DOMAIN r : r[i] = it \/ \E j \in DOMAIN s : r[i] = s[j]
<1> DEFINE w == Kept!Without(s, it.id)
           r == <<it>> \o w
<1>1. /\ w \in Seq(Kept!Item)
      /\ \A i \in DOMAIN w : w[i].id # it.id /\ \E j \in DOMAIN s : w[i] = s[j]
      /\ Unique(s) => Unique(w)
    BY Filtered
<1> HIDE DEF w
<1>2. /\ r \in Seq(Kept!Item) /\ Len(w) \in Nat /\ DOMAIN w = 1..Len(w) /\ DOMAIN r = 1..(Len(w) + 1)
      /\ r[1] = it /\ \A i \in 2..(Len(w) + 1) : i - 1 \in DOMAIN w /\ r[i] = w[i - 1]
    <2>1. <<it>> \in Seq(Kept!Item) /\ Len(<<it>>) = 1 /\ <<it>>[1] = it
        OBVIOUS
    <2>2. Len(w) \in Nat /\ DOMAIN w = 1..Len(w) /\ r \in Seq(Kept!Item) /\ Len(r) = Len(w) + 1
        BY <1>1, <2>1
    <2>3. DOMAIN r = 1..(Len(w) + 1) /\ r[1] = it
        BY <1>1, <2>1, <2>2
    <2>4. ASSUME NEW i \in 2..(Len(w) + 1) PROVE i - 1 \in DOMAIN w /\ r[i] = w[i - 1]
        BY <1>1, <2>1, <2>2
    <2> QED BY <2>2, <2>3, <2>4
<1> HIDE DEF r
<1>3. \A i \in DOMAIN r : i = 1 \/ i \in 2..(Len(w) + 1)
    BY <1>2
<1>4. ASSUME NEW i \in DOMAIN r PROVE r[i] = it \/ \E j \in DOMAIN s : r[i] = s[j]
    <2>1. i = 1 \/ (i - 1 \in DOMAIN w /\ r[i] = w[i - 1])
        BY <1>2, <1>3
    <2> QED BY <1>1, <1>2, <2>1
<1>5. ASSUME Unique(s) PROVE Unique(r)
    <2>1. ASSUME NEW i \in DOMAIN r, NEW j \in DOMAIN r, r[i].id = r[j].id PROVE i = j
        <3>1. CASE i = 1 /\ j = 1
            BY <3>1
        <3>2. CASE i # 1 /\ j # 1
            <4>1. /\ i \in 2..(Len(w) + 1) /\ j \in 2..(Len(w) + 1)
                  /\ i - 1 \in DOMAIN w /\ j - 1 \in DOMAIN w /\ r[i] = w[i - 1] /\ r[j] = w[j - 1]
                BY <1>2, <1>3, <3>2
            <4>2. i - 1 = j - 1
                BY <1>1, <1>5, <2>1, <4>1 DEF Unique
            <4> QED BY <1>2, <4>1, <4>2
        <3>3. CASE i = 1 /\ j # 1
            BY <1>1, <1>2, <1>3, <2>1, <3>3
        <3>4. CASE i # 1 /\ j = 1
            BY <1>1, <1>2, <1>3, <2>1, <3>4
        <3> QED BY <3>1, <3>2, <3>3, <3>4
    <2> QED BY <2>1 DEF Unique
<1> QED BY <1>2, <1>4, <1>5 DEF r, w

LEMMA MarkFacts ==
    ASSUME NEW s \in Seq(Kept!Item), NEW id, NEW m \in BOOLEAN
    PROVE  LET r == Kept!Marked(s, id, m)
           IN /\ r \in Seq(Kept!Item) /\ DOMAIN r = DOMAIN s
              /\ \A i \in DOMAIN s : r[i].id = s[i].id /\ r[i].count = s[i].count
<1>1. CASE Kept!HasId(s, id)
    <2> DEFINE f == Kept!First(s, id)
               r == [s EXCEPT ![f].mark = m]
    <2>1. f \in DOMAIN s /\ Len(s) \in Nat /\ DOMAIN s = 1..Len(s) /\ s \in [1..Len(s) -> Kept!Item]
        BY <1>1, FirstIsThere
    <2> HIDE DEF f
    <2>2. DOMAIN r = DOMAIN s /\ \A i \in DOMAIN s : r[i] = IF i = f THEN [s[i] EXCEPT !.mark = m] ELSE s[i]
        BY <2>1
    <2>3. \A i \in DOMAIN s : r[i] \in Kept!Item /\ r[i].id = s[i].id /\ r[i].count = s[i].count
        BY <2>1, <2>2 DEF Kept!Item
    <2>4. r \in [1..Len(s) -> Kept!Item]
        BY <2>1, <2>2, <2>3
    <2> QED BY <1>1, <2>1, <2>2, <2>3, <2>4 DEF Kept!Marked, f
<1>2. CASE ~Kept!HasId(s, id)
    BY <1>2 DEF Kept!Marked
<1> QED BY <1>1, <1>2

LEMMA CutFacts ==
    ASSUME NEW s \in Seq(Kept!Item)
    PROVE  LET r == Kept!Shortened(s)
           IN /\ r \in Seq(Kept!Item) /\ (Unique(s) => Unique(r))
              /\ \A i \in DOMAIN r : \E j \in DOMAIN s : r[i] = s[j]
<1> DEFINE r == Kept!Shortened(s)
<1>1. Len(s) \in Nat /\ Cap \in Nat
    BY ListAssumption
<1>2. /\ r \in Seq(Kept!Item) /\ DOMAIN s = 1..Len(s) /\ DOMAIN r \subseteq DOMAIN s
      /\ \A i \in DOMAIN r : r[i] = s[i]
    BY <1>1 DEF Kept!Shortened
<1> QED BY <1>2 DEF Unique

\* What an operation makes of a list: items keep their id, and of the counts
\* only that of the item notified about grows, by one.
Entry(s, id, op, it) ==
    \/ \E j \in DOMAIN s : it.id = s[j].id /\ it.count = s[j].count
    \/ it.id = id /\ it.count = 0
    \/ op = "notify" /\ it.id = id /\ (it.count = 1 \/ \E j \in DOMAIN s : s[j].id = id /\ it.count = s[j].count + 1)

LEMMA ChangeFacts ==
    ASSUME NEW s \in Seq(Kept!Item), NEW id \in Ids, NEW v \in Kept!Choices,
           NEW op \in {"view", "delete", "rule", "trigger", "notify", "read", "unread"}
    PROVE  LET r == Kept!Changed(s, op, id, v)
           IN r \in Seq(Kept!Item) /\ (Unique(s) => Unique(r)) /\ \A i \in DOMAIN r : Entry(s, id, op, r[i])
<1> DEFINE b == Kept!BaseOf(s, id)
           r == Kept!Changed(s, op, id, v)
<1>1. b \in Kept!Item /\ b.id = id /\ (b.count = 0 \/ \E i \in DOMAIN s : b = s[i])
    BY BaseFacts
<1>2. CASE op = "view"
    <2>1. r = <<b>> \o Kept!Without(s, b.id)
        BY <1>1, <1>2 DEF Kept!Changed, Kept!ViewUpserted
    <2> HIDE DEF b, r
    <2>2. r \in Seq(Kept!Item) /\ (Unique(s) => Unique(r))
        BY <1>1, <2>1, PutFacts
    <2>3. \A i \in DOMAIN r : r[i] = b \/ \E j \in DOMAIN s : r[i] = s[j]
        BY <1>1, <2>1, PutFacts
    <2>4. \A i \in DOMAIN r : Entry(s, id, op, r[i])
        BY <1>1, <2>3 DEF Entry
    <2> QED BY <2>2, <2>4 DEF r
<1>3. CASE op = "rule"
    <2> DEFINE it == [b EXCEPT !.on = IF v = "keep" THEN @ ELSE v]
    <2>1. it \in Kept!Item /\ it.id = id /\ it.count = b.count
        BY <1>1 DEF Kept!Item, Kept!Choices
    <2>2. r = <<it>> \o Kept!Without(s, it.id)
        BY <1>1, <1>3, <2>1 DEF Kept!Changed, Kept!RuleUpserted
    <2> HIDE DEF it, b, r
    <2>3. r \in Seq(Kept!Item) /\ (Unique(s) => Unique(r))
        BY <2>1, <2>2, PutFacts
    <2>4. \A i \in DOMAIN r : r[i] = it \/ \E j \in DOMAIN s : r[i] = s[j]
        BY <2>1, <2>2, PutFacts
    <2>5. \A i \in DOMAIN r : Entry(s, id, op, r[i])
        BY <1>1, <2>1, <2>4 DEF Entry
    <2> QED BY <2>3, <2>5 DEF r
<1>4. CASE op = "notify"
    <2> DEFINE it == [b EXCEPT !.count = @ + 1]
    <2>1. it \in Kept!Item /\ it.id = id /\ it.count = b.count + 1 /\ b.count \in Nat
        BY <1>1 DEF Kept!Item
    <2>2. r = <<it>> \o Kept!Without(s, it.id)
        BY <1>1, <1>4, <2>1 DEF Kept!Changed, Kept!Noted
    <2> HIDE DEF it, b, r
    <2>3. r \in Seq(Kept!Item) /\ (Unique(s) => Unique(r))
        BY <2>1, <2>2, PutFacts
    <2>4. \A i \in DOMAIN r : r[i] = it \/ \E j \in DOMAIN s : r[i] = s[j]
        BY <2>1, <2>2, PutFacts
    <2>5. \A i \in DOMAIN r : Entry(s, id, op, r[i])
        BY <1>1, <1>4, <2>1, <2>4 DEF Entry
    <2> QED BY <2>3, <2>5 DEF r
<1>5. CASE op = "delete"
    <2>1. r = Kept!Without(s, id)
        BY <1>5 DEF Kept!Changed
    <2> QED BY <2>1, Filtered DEF Entry
<1>6. CASE op \in {"trigger", "read", "unread"}
    <2>1. PICK m \in BOOLEAN : r = Kept!Marked(s, id, m)
        BY <1>6 DEF Kept!Changed
    <2> HIDE DEF r
    <2> QED BY <2>1, MarkFacts DEF Entry, Unique, r
<1> QED BY <1>2, <1>3, <1>4, <1>5, <1>6

Seven == {"view", "delete", "rule", "trigger", "notify", "read", "unread"}
EditType == [at : {"idle", "save"}, kind : Kept!Kinds, op : Seven, id : Ids \cup {""}, value : Kept!Choices, copy : Seq(Kept!Item)]
ListTypes ==
    /\ items \in [Kept!Kinds -> Seq(Kept!Item)] /\ DOMAIN ideal = Kept!Kinds
    /\ edits \in [Procs -> EditType] /\ events \in [Ids -> Nat] /\ clean \subseteq Kept!Kinds
    /\ \A p \in Procs : edits[p].at = "save" => edits[p].id \in Ids

\* Rows and copies have no item twice.
NoneTwice == /\ \A k \in Kept!Kinds : Unique(items[k])
             /\ \A p \in Procs : edits[p].at = "save" => Unique(edits[p].copy)

\* No row or copy counts more than happened; one a notification is about to be
\* counted in has not counted it.
Counted(s) == \A i \in DOMAIN s : s[i].count <= events[s[i].id]
Uncounted(s, id) == events[id] > 0 /\ \A i \in DOMAIN s : s[i].id = id => s[i].count < events[id]
CountsKept ==
    /\ Counted(items["notes"])
    /\ \A p \in Procs : edits[p].at = "save" /\ edits[p].kind = "notes" =>
           Counted(edits[p].copy) /\ (edits[p].op = "notify" => Uncounted(edits[p].copy, edits[p].id))
    /\ \A p \in Procs : edits[p].at = "save" /\ edits[p].op = "notify" => edits[p].kind = "notes"

\* A list no two operations of which overlapped is what it should be, and the
\* one operation on it under way has a copy of it as it is.
Undisturbed == \A k \in clean :
    /\ items[k] = ideal[k]
    /\ \A p \in Procs : edits[p].at = "save" /\ edits[p].kind = k =>
          edits[p].copy = items[k] /\ \A q \in Procs : edits[q].at = "save" /\ edits[q].kind = k => q = p

\* The secret that is stored is the one typed in, be it readable or not.
Faithful == /\ ~ruined => stored.value = typed
            /\ stored.form \in {"plain", "sealed"}
            /\ stored.form = "plain" => stored.under = "none"
            /\ stored.form = "sealed" => stored.under # "none"

ListInv == ListTypes /\ NoneTwice /\ CountsKept /\ Undisturbed
SettingsInv == ListInv /\ Faithful

LEMMA ItemFacts == ASSUME NEW s \in Seq(Kept!Item) PROVE \A i \in DOMAIN s : s[i].id \in Ids /\ s[i].count \in Nat
<1>1. \A i \in DOMAIN s : s[i] \in Kept!Item
    OBVIOUS
<1> QED BY <1>1 DEF Kept!Item

LEMMA ListsInit == Kept!ListInit => ListInv
<1> SUFFICES ASSUME Kept!ListInit PROVE ListInv
    OBVIOUS
<1> USE DEF Kept!ListInit
<1>1. <<>> \in Seq(Kept!Item) /\ DOMAIN <<>> = {} /\ "notes" \in Kept!Kinds
    BY DEF Kept!Kinds
<1>2. Kept!Idle \in EditType /\ Kept!Idle.at = "idle"
    BY <1>1 DEF Kept!Idle, EditType, Seven, Kept!Kinds, Kept!Choices
<1>3. ListTypes
    BY <1>1, <1>2 DEF ListTypes
<1>4. NoneTwice /\ CountsKept /\ Undisturbed
    BY <1>1, <1>2 DEF NoneTwice, CountsKept, Undisturbed, Unique, Counted
<1> QED BY <1>3, <1>4 DEF ListInv

\* A list is loaded.
LEMMA LoadStep ==
    ASSUME ListInv, NEW p \in Procs, NEW k \in Kept!Kinds, NEW op \in Kept!Ops[k], NEW id \in Ids,
           NEW v \in Kept!Choices, Kept!Load(p, k, op, id, v)
    PROVE  ListInv'
<1> USE DEF ListInv
<1> DEFINE made == [at |-> "save", kind |-> k, op |-> op, id |-> id, value |-> v, copy |-> items[k]]
<1>1. /\ UNCHANGED <<items, ideal>>
      /\ edits' = [edits EXCEPT ![p] = made] \/ edits' = edits
      /\ clean' = IF \E q \in Procs : edits[q].at = "save" /\ edits[q].kind = k THEN clean \ {k} ELSE clean
      /\ events' = IF op = "notify" THEN [events EXCEPT ![id] = @ + 1] ELSE events
      /\ edits[p].at = "idle"
    BY DEF Kept!Load
<1>2. op \in Seven /\ (op = "notify" => k = "notes")
    BY DEF Kept!Ops, Seven, Kept!Kinds
<1>3. made \in EditType
    BY <1>2 DEF EditType, ListTypes
<1>4. \A q \in Procs : edits'[q] = edits[q] \/ (q = p /\ edits'[q] = made)
    BY <1>1 DEF ListTypes
<1>5. /\ events' \in [Ids -> Nat] /\ \A i \in Ids : events[i] <= events'[i]
      /\ op = "notify" => events'[id] = events[id] + 1
    BY <1>1 DEF ListTypes
<1>6. ListTypes'
    <2>1. edits' \in [Procs -> EditType] /\ clean' \subseteq Kept!Kinds
        BY <1>1, <1>3 DEF ListTypes
    <2>2. \A q \in Procs : edits'[q].at = "save" => edits'[q].id \in Ids
        BY <1>4 DEF ListTypes
    <2> QED BY <1>1, <1>5, <2>1, <2>2 DEF ListTypes
<1>7. NoneTwice'
    BY <1>1, <1>4 DEF NoneTwice
<1>8. ASSUME NEW s \in Seq(Kept!Item), Counted(s) PROVE Counted(s)' /\ (op = "notify" => Uncounted(s, id)')
    <2>1. \A i \in DOMAIN s : s[i].id \in Ids /\ s[i].count \in Nat
        BY ItemFacts
    <2>2. \A i \in Ids : events[i] \in Nat /\ events'[i] \in Nat
        BY <1>5 DEF ListTypes
    <2>3. Counted(s)'
        BY <1>5, <1>8, <2>1, <2>2 DEF Counted
    <2>4. op = "notify" => Uncounted(s, id)'
        BY <1>5, <1>8, <2>1, <2>2 DEF Counted, Uncounted
    <2> QED BY <2>3, <2>4
<1>9. ASSUME NEW s \in Seq(Kept!Item), NEW i \in Ids, Uncounted(s, i) PROVE Uncounted(s, i)'
    <2>1. \A n \in DOMAIN s : s[n].count \in Nat
        BY ItemFacts
    <2>2. events[i] \in Nat /\ events'[i] \in Nat /\ events[i] <= events'[i]
        BY <1>5 DEF ListTypes
    <2> QED BY <1>9, <2>1, <2>2 DEF Uncounted
<1>10. CountsKept'
    <2>1. Counted(items["notes"])'
        BY <1>1, <1>8 DEF CountsKept, ListTypes, Kept!Kinds
    <2>2. ASSUME NEW q \in Procs, edits'[q].at = "save", edits'[q].kind = "notes"
          PROVE  Counted(edits[q].copy)' /\ (edits'[q].op = "notify" => Uncounted(edits[q].copy, edits[q].id)')
        <3>1. CASE edits'[q] = edits[q]
            <4>1. /\ edits[q].copy \in Seq(Kept!Item) /\ edits[q].id \in Ids /\ Counted(edits[q].copy)
                  /\ edits[q].op = "notify" => Uncounted(edits[q].copy, edits[q].id)
                BY <2>2, <3>1 DEF ListTypes, EditType, CountsKept
            <4> QED BY <1>8, <1>9, <3>1, <4>1 DEF Counted, Uncounted
        <3>2. CASE edits'[q] = made
            <4>1. items["notes"] \in Seq(Kept!Item) /\ Counted(items["notes"]) /\ k = "notes"
                BY <2>2, <3>2 DEF ListTypes, CountsKept
            <4>2. edits'[q].copy = items["notes"] /\ edits'[q].id = id /\ edits'[q].op = op
                BY <3>2, <4>1
            <4> QED BY <1>8, <4>1, <4>2 DEF Counted, Uncounted
        <3> QED BY <1>4, <3>1, <3>2
    <2>3. \A q \in Procs : edits'[q].at = "save" /\ edits'[q].op = "notify" => edits'[q].kind = "notes"
        BY <1>2, <1>4 DEF CountsKept
    <2> QED BY <2>1, <2>2, <2>3 DEF CountsKept
<1>11. Undisturbed'
    <2> SUFFICES ASSUME NEW c \in clean'
                 PROVE  /\ items'[c] = ideal'[c]
                        /\ \A q \in Procs : edits'[q].at = "save" /\ edits'[q].kind = c =>
                              /\ edits'[q].copy = items'[c]
                              /\ \A r \in Procs : edits'[r].at = "save" /\ edits'[r].kind = c => r = q
        BY DEF Undisturbed
    <2>1. c \in clean /\ (c = k => \A q \in Procs : ~(edits[q].at = "save" /\ edits[q].kind = k))
        BY <1>1
    <2>2. CASE c = k
        <3>1. \A q \in Procs : edits'[q].at = "save" /\ edits'[q].kind = k => q = p /\ edits'[q].copy = items[k]
            BY <1>4, <2>1, <2>2
        <3> QED BY <1>1, <2>1, <2>2, <3>1 DEF Undisturbed
    <2>3. CASE c # k
        <3>1. \A q \in Procs : edits'[q].at = "save" /\ edits'[q].kind = c => edits'[q] = edits[q]
            BY <1>4, <2>3
        <3> QED BY <1>1, <2>1, <3>1 DEF Undisturbed
    <2> QED BY <2>2, <2>3
<1> QED BY <1>6, <1>7, <1>10, <1>11

\* The changed copy is written back.
LEMMA SaveStep == ASSUME ListInv, NEW p \in Procs, Kept!Save(p) PROVE ListInv'
<1> USE DEF ListInv
<1> DEFINE c == edits[p]
           ch == Kept!Changed(c.copy, c.op, c.id, c.value)
           r == Kept!Shortened(ch)
<1>1. /\ c.at = "save" /\ c \in EditType /\ c.id \in Ids /\ Unique(c.copy)
      /\ c.kind \in Kept!Kinds /\ c.op \in Seven /\ c.value \in Kept!Choices /\ c.copy \in Seq(Kept!Item)
    BY DEF Kept!Save, ListTypes, EditType, NoneTwice
<1>2. /\ items' = [items EXCEPT ![c.kind] = r]
      /\ ideal' = [ideal EXCEPT ![c.kind] = Kept!Shortened(Kept!Changed(ideal[c.kind], c.op, c.id, c.value))]
      /\ edits' = [edits EXCEPT ![p] = Kept!Idle] /\ UNCHANGED <<events, begun, clean>>
    BY DEF Kept!Save
<1>3. ch \in Seq(Kept!Item) /\ Unique(ch) /\ \A i \in DOMAIN ch : Entry(c.copy, c.id, c.op, ch[i])
    BY <1>1, ChangeFacts DEF Seven
<1> HIDE DEF ch
<1>4. r \in Seq(Kept!Item) /\ Unique(r) /\ \A i \in DOMAIN r : \E j \in DOMAIN ch : r[i] = ch[j]
    BY <1>3, CutFacts
<1> HIDE DEF r
<1>5. Kept!Idle \in EditType /\ Kept!Idle.at = "idle"
    BY DEF Kept!Idle, EditType, Seven, Kept!Kinds, Kept!Choices
<1>6. \A q \in Procs : edits'[q] = IF q = p THEN Kept!Idle ELSE edits[q]
    BY <1>2 DEF ListTypes
<1>7. \A k \in Kept!Kinds : items'[k] = IF k = c.kind THEN r ELSE items[k]
    BY <1>2 DEF ListTypes
<1>8. ListTypes'
    BY <1>1, <1>2, <1>4, <1>5, <1>6 DEF ListTypes
<1>9. NoneTwice'
    BY <1>4, <1>5, <1>6, <1>7 DEF NoneTwice
<1>10. CountsKept'
    <2>1. ASSUME c.kind = "notes" PROVE Counted(r)
        <3>1. Counted(c.copy) /\ (c.op = "notify" => Uncounted(c.copy, c.id))
            BY <1>1, <2>1 DEF CountsKept
        <3>2. \A i \in DOMAIN c.copy : c.copy[i].count \in Nat /\ c.copy[i].id \in Ids
            BY <1>1, ItemFacts
        <3>3. \A i \in Ids : events[i] \in Nat
            BY DEF ListTypes
        <3>4. ASSUME NEW i \in DOMAIN ch PROVE ch[i].count <= events[ch[i].id]
            <4>1. CASE \E j \in DOMAIN c.copy : ch[i].id = c.copy[j].id /\ ch[i].count = c.copy[j].count
                BY <3>1, <4>1 DEF Counted
            <4>2. CASE ch[i].id = c.id /\ ch[i].count = 0
                BY <1>1, <3>3, <4>2
            <4>3. CASE /\ c.op = "notify" /\ ch[i].id = c.id
                       /\ ch[i].count = 1 \/ \E j \in DOMAIN c.copy : c.copy[j].id = c.id /\ ch[i].count = c.copy[j].count + 1
                BY <1>1, <3>1, <3>2, <3>3, <4>3 DEF Uncounted
            <4> QED BY <1>3, <4>1, <4>2, <4>3 DEF Entry
        <3> QED BY <1>4, <3>4 DEF Counted
    <2>2. Counted(items["notes"])'
        BY <1>2, <1>7, <2>1 DEF CountsKept, Counted, Kept!Kinds
    <2>3. \A q \in Procs : edits'[q].at = "save" => edits'[q] = edits[q]
        BY <1>5, <1>6
    <2> QED BY <1>2, <2>2, <2>3 DEF CountsKept, Counted, Uncounted
<1>11. Undisturbed'
    <2> SUFFICES ASSUME NEW k \in clean
                 PROVE  /\ items'[k] = ideal'[k]
                        /\ \A q \in Procs : edits'[q].at = "save" /\ edits'[q].kind = k =>
                              /\ edits'[q].copy = items'[k]
                              /\ \A u \in Procs : edits'[u].at = "save" /\ edits'[u].kind = k => u = q
        BY <1>2 DEF Undisturbed
    <2>1. k \in Kept!Kinds /\ items[k] = ideal[k]
        BY DEF ListTypes, Undisturbed
    <2>2. \A q \in Procs : edits'[q].at = "save" => edits'[q] = edits[q] /\ q # p
        BY <1>5, <1>6
    <2>3. CASE k = c.kind
        <3>1. c.copy = items[k] /\ \A q \in Procs : edits[q].at = "save" /\ edits[q].kind = k => q = p
            BY <1>1, <2>3 DEF Undisturbed
        <3>2. items'[k] = ideal'[k]
            BY <1>2, <1>7, <2>1, <2>3, <3>1 DEF ListTypes, r, ch
        <3> QED BY <2>2, <3>1, <3>2
    <2>4. CASE k # c.kind
        <3>1. items'[k] = items[k] /\ ideal'[k] = ideal[k]
            BY <1>2, <1>7, <2>1, <2>4 DEF ListTypes
        <3> QED BY <2>1, <2>2, <3>1 DEF Undisturbed
    <2> QED BY <2>3, <2>4
<1> QED BY <1>8, <1>9, <1>10, <1>11

LEMMA DieStep == ASSUME ListInv, NEW p \in Procs, Kept!Die(p) PROVE ListInv'
<1> USE DEF ListInv
<1>1. edits' = [edits EXCEPT ![p] = Kept!Idle] /\ UNCHANGED <<items, events, begun, ideal, clean>>
    BY DEF Kept!Die
<1>2. Kept!Idle \in EditType /\ Kept!Idle.at = "idle"
    BY DEF Kept!Idle, EditType, Seven, Kept!Kinds, Kept!Choices
<1>3. \A q \in Procs : edits'[q] = IF q = p THEN Kept!Idle ELSE edits[q]
    BY <1>1 DEF ListTypes
<1>4. \A q \in Procs : edits'[q].at = "save" => edits'[q] = edits[q]
    BY <1>2, <1>3
<1>5. ListTypes'
    BY <1>1, <1>2, <1>4 DEF ListTypes
<1>6. NoneTwice' /\ Undisturbed'
    BY <1>1, <1>4 DEF NoneTwice, Undisturbed
<1>7. CountsKept'
    BY <1>1, <1>4 DEF CountsKept, Counted, Uncounted
<1> QED BY <1>5, <1>6, <1>7

LEMMA ListsStill == ListInv /\ UNCHANGED listVars => ListInv'
BY DEF listVars, ListInv, ListTypes, NoneTwice, CountsKept, Counted, Uncounted, Undisturbed

LEMMA SecretSteps == Faithful /\ (Kept!SecretNext \/ UNCHANGED secretVars) => Faithful'
<1> SUFFICES ASSUME Faithful, Kept!SecretNext \/ UNCHANGED secretVars PROVE Faithful'
    OBVIOUS
<1>1. CASE UNCHANGED secretVars \/ Kept!Rekey
    BY <1>1 DEF secretVars, Kept!Rekey, Faithful
<1>2. CASE Kept!Edit
    <2> DEFINE o == Kept!Opened(stored)
    <2>1. PICK v : /\ stored' = Kept!Sealed(Kept!Merged(o, v))
                   /\ typed' = IF v = Kept!Placeholder THEN typed ELSE v
                   /\ ruined' = (v = Kept!Placeholder /\ (ruined \/ o # typed))
        BY <1>2 DEF Kept!Edit
    <2> HIDE DEF o
    <2>2. ~ruined' => Kept!Merged(o, v) = typed'
        BY <2>1 DEF Kept!Merged
    <2>3. /\ stored'.value = Kept!Merged(o, v) /\ stored'.form \in {"plain", "sealed"}
          /\ stored'.form = "plain" <=> stored'.under = "none"
        BY <2>1 DEF Kept!Sealed, Kept!Plain
    <2> QED BY <2>2, <2>3 DEF Faithful
<1> QED BY <1>1, <1>2 DEF Kept!SecretNext

LEMMA SettingsAlways == AlertSpec => []SettingsInv
<1>1. AlertInit => SettingsInv
    <2>1. AlertInit => Kept!ListInit /\ Kept!SecretInit
        BY DEF AlertInit, Kept!Init
    <2>2. Kept!SecretInit => Faithful
        BY DEF Kept!SecretInit, Kept!Plain, Faithful
    <2> QED BY <2>1, <2>2, ListsInit DEF SettingsInv
<1>2. SettingsInv /\ [AlertNext]_alertVars => SettingsInv'
    <2> SUFFICES ASSUME SettingsInv, [AlertNext]_alertVars PROVE SettingsInv'
        OBVIOUS
    <2>1. Kept!ListNext \/ UNCHANGED listVars
        BY DEF AlertNext, alertVars
    <2>2. Kept!SecretNext \/ UNCHANGED secretVars
        BY DEF AlertNext, alertVars
    <2>3. ListInv'
        <3>1. CASE Kept!ListNext
            BY <3>1, LoadStep, SaveStep, DieStep DEF Kept!ListNext, SettingsInv
        <3> QED BY <2>1, <3>1, ListsStill DEF SettingsInv
    <2> QED BY <2>2, <2>3, SecretSteps DEF SettingsInv
<1> QED BY <1>1, <1>2, PTL DEF AlertSpec

(* Lists, counts and secrets are kept: however the requests of a user and the  *)
(* alert task overlap or die half way, no list has an item twice, no count     *)
(* exceeds what happened, a list left in peace is exact, and forms sent back   *)
(* untouched leave the secret as it was.                                       *)
THEOREM SettingsStayKept == AlertSpec => []SettingsKept
<1>1. SettingsInv => SettingsKept
    <2> SUFFICES ASSUME SettingsInv PROVE SettingsKept
        OBVIOUS
    <2>1. Kept!UniqueItems
        BY DEF SettingsInv, ListInv, NoneTwice, Unique, Kept!UniqueItems
    <2>2. Kept!CountsAreReal
        BY DEF SettingsInv, ListInv, CountsKept, Counted, Kept!CountsAreReal
    <2>3. Kept!SerialListIsExact
        BY DEF SettingsInv, ListInv, Undisturbed, Kept!SerialListIsExact
    <2>4. Kept!SecretSurvivesEdits
        BY DEF SettingsInv, Faithful, Kept!SecretSurvivesEdits, Kept!Opened
    <2> QED BY <2>1, <2>2, <2>3, <2>4 DEF SettingsKept
<1> QED BY <1>1, SettingsAlways, PTL
-----------------------------------------------------------------------------
(* The evaluation of rules: what a rule chooses is of its tenant, and what it  *)
(* chose of the data there are has been noted.                                 *)

\* Of numbered things, any number of those with the greatest numbers.
LEMMA NewestExist ==
    ASSUME NEW S, IsFiniteSet(S), \A c \in S : c.id \in Nat /\ \A d \in S : c.id = d.id => c = d,
           NEW n \in 0..Cardinality(S)
    PROVE  \E T \in SUBSET S : Cardinality(T) = n /\ \A c \in T, d \in S \ T : c.id > d.id
<1> DEFINE Oldest(T) == \A c \in S \ T, d \in T : c.id > d.id
           Has(m) == \E T \in SUBSET S : Cardinality(T) = m /\ Oldest(T)
           Lacking == {m \in 0..Cardinality(S) : ~Has(m)}
<1>1. Cardinality(S) \in Nat
    BY FS_CardinalityType
<1>2. Has(0)
    <2>1. {} \in SUBSET S /\ Cardinality({}) = 0 /\ Oldest({})
        BY FS_EmptySet
    <2> QED BY <2>1
<1>3. ASSUME NEW m \in 1..Cardinality(S), Has(m - 1) PROVE Has(m)
    <2>1. PICK T \in SUBSET S : Cardinality(T) = m - 1 /\ Oldest(T)
        BY <1>3
    <2>2. IsFiniteSet(T) /\ S \ T # {}
        <3>1. IsFiniteSet(T)
            BY FS_Subset
        <3>2. T # S
            BY <1>1, <2>1
        <3> QED BY <3>1, <3>2
    <2> DEFINE Ids0 == {c.id : c \in S \ T}
    <2>3. PICK i \in Ids0 : \A j \in Ids0 : i <= j
        <3>1. Ids0 \subseteq Nat /\ Ids0 # {}
            BY <2>2
        <3> QED BY <3>1, LeastIsThere
    <2>4. PICK c \in S \ T : c.id = i
        BY <2>3
    <2>5. \A d \in S \ (T \cup {c}) : d.id > c.id
        <3>1. ASSUME NEW d \in S \ T, d # c PROVE d.id > c.id
            <4>1. d.id \in Ids0 /\ d.id \in Nat /\ c.id \in Nat /\ d.id # c.id
                BY <3>1
            <4> QED BY <2>3, <2>4, <4>1
        <3> QED BY <3>1
    <2>6. Oldest(T \cup {c})
        BY <2>1, <2>5
    <2>7. Cardinality(T \cup {c}) = m
        <3>1. c \notin T
            OBVIOUS
        <3>2. Cardinality(T \cup {c}) = Cardinality(T) + 1
            BY <2>2, <3>1, FS_AddElement
        <3> QED BY <2>1, <3>2
    <2> HIDE DEF Oldest
    <2> QED BY <2>6, <2>7
<1> HIDE DEF Has
<1>4. ASSUME NEW m \in Lacking, \A k \in Lacking : m <= k PROVE FALSE
    <2>1. m \in 1..Cardinality(S) /\ m - 1 \in 0..Cardinality(S)
        BY <1>1, <1>2
    <2>2. m - 1 \notin Lacking
        BY <1>1, <1>4
    <2> QED BY <1>3, <2>1, <2>2
<1>5. Lacking = {}
    <2>1. Lacking \subseteq Nat
        BY <1>1
    <2> HIDE DEF Lacking
    <2> QED BY <1>4, <2>1, LeastIsThere
<1>6. Has(Cardinality(S) - n)
    BY <1>1, <1>5
<1>7. PICK R \in SUBSET S : Cardinality(R) = Cardinality(S) - n /\ Oldest(R)
    BY <1>6 DEF Has
<1>8. S \cap R = R /\ S \ (S \ R) = R /\ S \ R \in SUBSET S
    OBVIOUS
<1>9. Cardinality(S \ R) = n
    <2>1. Cardinality(S \ R) = Cardinality(S) - Cardinality(S \cap R)
        BY FS_Difference
    <2>2. Cardinality(S \cap R) = Cardinality(S) - n
        BY <1>7, <1>8
    <2> HIDE DEF Oldest
    <2> QED BY <1>1, <2>1, <2>2
<1> QED BY <1>7, <1>8, <1>9

\* What is chosen are candidates of the rule.
LEMMA ChosenFacts ==
    ASSUME data \subseteq Candidates, NEW r
    PROVE  Evaluation!Chosen(r) \subseteq Evaluation!CandidatesOf(r)
<1> DEFINE all == {c \in Evaluation!CandidatesOf(r) : Evaluation!Matches(r, c)}
           n == Evaluation!Min({Cardinality(all), Evaluation!Max({1, Limit})})
<1>1. all \in SUBSET Candidates
    BY DEF Evaluation!CandidatesOf, Evaluation!PickCandidates, Evaluation!ScanCandidates
<1>2. IsFiniteSet(all) /\ \A c \in all : c.id \in Nat /\ \A d \in all : c.id = d.id => c = d
    BY <1>1, EvaluationAssumption, FS_Subset
<1>3. Cardinality(all) \in Nat
    BY <1>2, FS_CardinalityType
<1>4. Evaluation!Max({1, Limit}) \in Nat
    <2>1. \E x \in {1, Limit} : \A y \in {1, Limit} : x >= y
        BY EvaluationAssumption
    <2>2. Evaluation!Max({1, Limit}) \in {1, Limit}
        BY <2>1 DEF Evaluation!Max
    <2> QED BY <2>2, EvaluationAssumption
<1>5. n \in 0..Cardinality(all)
    <2> DEFINE a == Cardinality(all)
               b == Evaluation!Max({1, Limit})
    <2>1. a \in Nat /\ b \in Nat
        BY <1>3, <1>4
    <2> HIDE DEF a, b
    <2>2. \E x \in {a, b} : \A y \in {a, b} : x =< y
        BY <2>1
    <2>3. Evaluation!Min({a, b}) \in {a, b} /\ \A y \in {a, b} : Evaluation!Min({a, b}) =< y
        BY <2>2 DEF Evaluation!Min
    <2>4. Evaluation!Min({a, b}) \in 0..a
        BY <2>1, <2>3
    <2> QED BY <2>4 DEF a, b
<1>0. ASSUME NEW S PROVE Evaluation!Cardinality(S) = Cardinality(S)
    BY DEF Evaluation!Cardinality, Cardinality
<1>8. Evaluation!Chosen(r) = CHOOSE T \in Evaluation!kSubset(n, all) : \A c \in T, d \in all \ T : c.id > d.id
    BY <1>0 DEF Evaluation!Chosen
<1> HIDE DEF all, n
<1>6. \E T \in SUBSET all : Cardinality(T) = n /\ \A c \in T, d \in all \ T : c.id > d.id
    BY <1>2, <1>5, NewestExist
<1>7. \E T \in Evaluation!kSubset(n, all) : \A c \in T, d \in all \ T : c.id > d.id
    BY <1>0, <1>6 DEF Evaluation!kSubset
<1>9. Evaluation!Chosen(r) \in Evaluation!kSubset(n, all)
    BY <1>7, <1>8
<1> QED BY <1>9 DEF Evaluation!kSubset, all

EvaluationInv ==
    /\ data \subseteq Candidates /\ rules \subseteq Rules /\ todo \subseteq Rules
    /\ \A r \in settled : "in_app" \in Evaluation!Channels(r) =>
          \A c \in Evaluation!Chosen(r) : Evaluation!NoteKey(r, c) \in notes
    /\ \A k \in notes \cup pushes : \E r \in Rules, c \in Candidates :
          k.rule = r.id /\ k.entity = c.id /\ c.tenant = r.tenant /\ c.open

LEMMA EvaluationStep == EvaluationInv /\ (Evaluation!Next \/ UNCHANGED ruleVars) => EvaluationInv'
<1> SUFFICES ASSUME EvaluationInv, Evaluation!Next \/ UNCHANGED ruleVars PROVE EvaluationInv'
    OBVIOUS
<1>0. data' = data => \A r : Evaluation!Chosen(r)' = Evaluation!Chosen(r)
    BY DEF Evaluation!Chosen, Evaluation!CandidatesOf, Evaluation!PickCandidates, Evaluation!ScanCandidates
<1>1. CASE UNCHANGED ruleVars
    BY <1>0, <1>1 DEF ruleVars, EvaluationInv
<1>2. CASE Evaluation!BeginPass
    BY <1>0, <1>2 DEF Evaluation!BeginPass, EvaluationInv
<1>3. ASSUME NEW c \in Candidates, Evaluation!Arrive(c) PROVE EvaluationInv'
    BY <1>3 DEF Evaluation!Arrive, EvaluationInv
<1>4. ASSUME NEW r \in Rules, Evaluation!Drop(r) PROVE EvaluationInv'
    BY <1>0, <1>4 DEF Evaluation!Drop, EvaluationInv
<1>5. ASSUME NEW r \in Rules, Evaluation!EvaluateRule(r) PROVE EvaluationInv'
    <2>1. /\ notes' = notes \cup IF "in_app" \in Evaluation!Channels(r) THEN {Evaluation!NoteKey(r, c) : c \in Evaluation!Chosen(r)} ELSE {}
          /\ pushes' = pushes \cup IF Evaluation!Channels(r) # {"in_app"} THEN {Evaluation!PushKey(r, c) : c \in Evaluation!Chosen(r)} ELSE {}
          /\ settled' = settled \cup {r} /\ todo' \subseteq todo /\ UNCHANGED <<rules, data>>
        BY <1>5 DEF Evaluation!EvaluateRule
    <2>2. ASSUME NEW c \in Evaluation!Chosen(r) PROVE c \in Candidates /\ c.tenant = r.tenant /\ c.open
        BY <2>2, ChosenFacts DEF EvaluationInv, Evaluation!CandidatesOf, Evaluation!PickCandidates, Evaluation!ScanCandidates
    <2>3. ASSUME NEW k \in notes' \cup pushes'
          PROVE  \E s \in Rules, c \in Candidates : k.rule = s.id /\ k.entity = c.id /\ c.tenant = s.tenant /\ c.open
        <3>1. CASE k \in notes \cup pushes
            BY <3>1 DEF EvaluationInv
        <3>2. CASE \E c \in Evaluation!Chosen(r) : k = Evaluation!NoteKey(r, c) \/ k = Evaluation!PushKey(r, c)
            <4>1. PICK c \in Evaluation!Chosen(r) : k.rule = r.id /\ k.entity = c.id
                BY <3>2 DEF Evaluation!NoteKey, Evaluation!PushKey
            <4> QED BY <2>2, <4>1
        <3> QED BY <2>1, <3>1, <3>2
    <2>4. ASSUME NEW s \in settled', "in_app" \in Evaluation!Channels(s), NEW c \in Evaluation!Chosen(s)
          PROVE  Evaluation!NoteKey(s, c) \in notes'
        BY <2>1, <2>4 DEF EvaluationInv
    <2> QED BY <1>0, <2>1, <2>3, <2>4 DEF EvaluationInv, Evaluation!Channels, Evaluation!NoteKey, Evaluation!Scope
<1> QED BY <1>1, <1>2, <1>3, <1>4, <1>5 DEF Evaluation!Next

(* Rules notify of their own tenant's open records only, and a rule evaluated  *)
(* again on data that have not changed adds no notification, for any rules,    *)
(* records, limit and number of passes.                                        *)
THEOREM EvaluationStaysSound == AlertSpec => EvaluationSound
<1>1. AlertInit => EvaluationInv
    BY DEF AlertInit, Evaluation!Init, EvaluationInv
<1>2. EvaluationInv /\ [AlertNext]_alertVars => EvaluationInv'
    <2>1. [AlertNext]_alertVars => Evaluation!Next \/ UNCHANGED ruleVars
        BY DEF AlertNext, alertVars
    <2> QED BY <2>1, EvaluationStep
<1>3. EvaluationInv => Evaluation!OwnTenantOnly
    <2> SUFFICES ASSUME EvaluationInv, NEW k \in notes \cup pushes
                 PROVE  Evaluation!EntityOf(k).tenant = Evaluation!RuleOf(k).tenant /\ Evaluation!EntityOf(k).open
        BY DEF Evaluation!OwnTenantOnly
    <2>1. PICK r \in Rules, c \in Candidates : k.rule = r.id /\ k.entity = c.id /\ c.tenant = r.tenant /\ c.open
        BY DEF EvaluationInv
    <2>2. Evaluation!RuleOf(k) = r /\ Evaluation!EntityOf(k) = c
        BY <2>1, EvaluationAssumption DEF Evaluation!RuleOf, Evaluation!EntityOf
    <2> QED BY <2>1, <2>2
<1>4. EvaluationInv => [\A r \in Rules : Evaluation!EvaluateRule(r) /\ r \in settled => notes' = notes]_(Evaluation!vars)
    <2> SUFFICES ASSUME EvaluationInv, NEW r \in Rules, Evaluation!EvaluateRule(r), r \in settled PROVE notes' = notes
        OBVIOUS
    <2>1. "in_app" \in Evaluation!Channels(r) => \A c \in Evaluation!Chosen(r) : Evaluation!NoteKey(r, c) \in notes
        BY DEF EvaluationInv
    <2> QED BY <2>1 DEF Evaluation!EvaluateRule
<1>5. AlertSpec => []EvaluationInv
    BY <1>1, <1>2, PTL DEF AlertSpec
<1> QED BY <1>3, <1>4, <1>5, PTL DEF EvaluationSound, Evaluation!ReevaluationAddsNothing
===============================================================================
