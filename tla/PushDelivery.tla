----------------------------- MODULE PushDelivery -----------------------------
(***************************************************************************)
(* External push of alerts: application/external_push.py over the table    *)
(* external_push_deliveries.  A delivery key hashes the notification with  *)
(* its matched_at second, so an evaluation writes the key of the current   *)
(* second.  The task queue is the one TaskQueue models; here an enqueue    *)
(* returns the active task of the key or makes a new one.                  *)
(***************************************************************************)
EXTENDS Integers, FiniteSets, FiniteSetsExt

CONSTANTS Keys,         \* seconds, and the delivery keys written in them (bound)
          Callers,      \* API requests and the alert task, each a process
          ChannelStates, \* what the owner's edits make of the channel
          MaxTasks,     \* bound on the tasks made
          MaxRetries,   \* of the queue task
          MaxFaults,    \* bound on crashes and database errors
          SharedPayload \* thread mode: the task reads the caller's own dict

ASSUME PushAssumption == /\ Keys \subseteq Nat \ {0} /\ SharedPayload \in BOOLEAN
                         /\ MaxTasks \in Nat /\ MaxRetries \in Nat /\ MaxFaults \in Nat
                         /\ ChannelStates \subseteq {"enabled", "disabled", "invalid", "missing"}

VARIABLES now, row, task, call, channel, sent, notice, faults, joined

vars == <<now, row, task, call, channel, sent, notice, faults, joined>>

Tasks == 1..MaxTasks
Statuses == {"queued", "sent", "failed", "skipped"}
NoRow == [status |-> "none", task |-> 0, retry |-> 0]
NoTask == [key |-> 0, status |-> "none", at |-> "none", result |-> "none",
           attempt |-> 0, id |-> 0, retry |-> 0]
Idle == [at |-> "idle", key |-> 0, retry |-> 0, task |-> 0]

ActiveOf(k) == {t \in Tasks : task[t].key = k /\ task[t].status \in {"pending", "running"}}
Waiting == {c \in Callers : call[c].at \in {"row", "enqueue"}}
Made == {t \in Tasks : task[t].status # "none"}
Room == Cardinality(Made) + Cardinality(Waiting) < MaxTasks  \* bound

Init == /\ now \in Keys
        /\ row = [k \in Keys |-> NoRow]
        /\ task = [t \in Tasks |-> NoTask]
        /\ call = [c \in Callers |-> Idle]
        /\ channel = "enabled"
        /\ sent = [k \in Keys |-> 0]
        /\ notice = {}
        /\ faults = 0
        /\ joined = {}

Tick == /\ now + 1 \in Keys
        /\ now' = now + 1
        /\ UNCHANGED <<row, task, call, channel, sent, notice, faults, joined>>

\* The owner edits the channel: switch it, break its settings, delete it.
Configure == /\ channel' \in ChannelStates \ {channel}
             /\ UNCHANGED <<now, row, task, call, sent, notice, faults, joined>>

\* dispatch_for_alert: only an enabled channel that the rule selects gets a row.
Alert(c) == /\ call[c].at = "idle" /\ Room
            /\ channel \in {"enabled", "invalid"}
            /\ call' = [call EXCEPT ![c] = [Idle EXCEPT !.at = "row", !.key = now]]
            /\ UNCHANGED <<now, row, task, channel, sent, notice, faults, joined>>

Retry(c, k) ==
    /\ call[c].at = "idle" /\ Room
    /\ row[k].status \in {"failed", "skipped"}
    /\ IF channel = "missing"
       THEN /\ row' = [row EXCEPT ![k].status = "skipped"]
            /\ UNCHANGED call
       ELSE /\ call' = [call EXCEPT ![c] = [Idle EXCEPT !.at = "row", !.key = k, !.retry = row[k].retry + 1]]
            /\ UNCHANGED row
    /\ UNCHANGED <<now, task, channel, sent, notice, faults, joined>>

\* record_queued_delivery: insert, or put the row of the key back to queued.
QueueRow(c) ==
    /\ call[c].at = "row"
    /\ row' = [row EXCEPT ![call[c].key] = [status |-> "queued", task |-> 0, retry |-> call[c].retry]]
    /\ call' = [call EXCEPT ![c].at = "enqueue"]
    /\ UNCHANGED <<now, task, channel, sent, notice, faults, joined>>

Enqueue(c) ==
    LET k == call[c].key IN
    /\ call[c].at = "enqueue"
    /\ IF ActiveOf(k) # {}
       THEN /\ \E t \in ActiveOf(k) : call' = [call EXCEPT ![c].at = "annotate", ![c].task = t]
            /\ joined' = joined \cup {k}
            /\ UNCHANGED task
       ELSE \E t \in Tasks \ Made :
            /\ t = Cardinality(Made) + 1
            /\ task' = [task EXCEPT ![t] = [NoTask EXCEPT !.key = k, !.status = "pending"]]
            /\ call' = [call EXCEPT ![c].at = IF SharedPayload THEN "payload" ELSE "annotate", ![c].task = t]
            /\ UNCHANGED joined
    /\ UNCHANGED <<now, row, channel, sent, notice, faults>>

\* The ids go into the payload after the task was made: the task of thread mode
\* sees them from then on, the stored copy of worker mode never.
FillPayload(c) ==
    /\ call[c].at = "payload"
    /\ task' = [task EXCEPT ![call[c].task].id = call[c].task, ![call[c].task].retry = call[c].retry]
    /\ call' = [call EXCEPT ![c].at = "annotate"]
    /\ UNCHANGED <<now, row, channel, sent, notice, faults, joined>>

\* update_delivery with the task id and the larger retry count, not the status.
Annotate(c) ==
    LET k == call[c].key t == call[c].task IN
    /\ call[c].at = "annotate"
    /\ row' = [row EXCEPT ![k].task = t, ![k].retry = Max({call[c].retry, task[t].attempt})]
    /\ call' = [call EXCEPT ![c] = Idle]
    /\ UNCHANGED <<now, task, channel, sent, notice, faults, joined>>

\* The transport: a 2xx answer or a finished SMTP dialogue is sent; of a refusal
\* and of an exception (a timeout) it is open whether the message arrived.
Transport == {[status |-> "sent", arrived |-> 1], [status |-> "failed", arrived |-> 0],
              [status |-> "failed", arrived |-> 1]}

\* A URL, header, port or address that the validation refuses raises before sending.
Refused == {[status |-> "failed", arrived |-> 0]}

\* dispatch: what each state of the channel can come to.
Outcomes == CASE channel \in {"missing", "disabled"} -> {[status |-> "skipped", arrived |-> 0]}
              [] channel = "invalid" -> Refused
              [] channel = "enabled" -> Transport

Dispatch(t) ==
    /\ task[t].status = "pending"
    /\ \E o \in Outcomes :
         /\ task' = [task EXCEPT ![t].status = "running", ![t].at = "record", ![t].result = o.status]
         /\ sent' = [sent EXCEPT ![task[t].key] = @ + o.arrived]
    /\ UNCHANGED <<now, row, call, channel, notice, faults, joined>>

Finish(t) == [task EXCEPT ![t].status = "completed", ![t].at = "none"]

\* _record_delivery_result, the row: a payload without ids keeps the row's task
\* and sets its retry count to zero.
SlipRecord(t) ==
    LET k == task[t].key IN
    /\ task[t].at = "record" /\ task[t].result # "skipped"
    /\ row' = [row EXCEPT ![k].status = task[t].result]
    /\ task' = IF task[t].result = "failed" THEN [task EXCEPT ![t].at = "notify"] ELSE Finish(t)
    /\ UNCHANGED <<now, call, channel, sent, notice, faults, joined>>
Record(t) ==
    LET k == task[t].key IN
    /\ task[t].at = "record"
    /\ row' = [row EXCEPT ![k].status = task[t].result,
                          ![k].task = IF task[t].id # 0 THEN task[t].id ELSE @,
                          ![k].retry = task[t].retry]
    /\ task' = IF task[t].result = "failed" THEN [task EXCEPT ![t].at = "notify"] ELSE Finish(t)
    /\ UNCHANGED <<now, call, channel, sent, notice, faults, joined>>

\* _record_delivery_result, the in-app notification of a failure.
SlipNotify(t) == /\ task[t].at = "notify"
                 /\ task' = Finish(t)
                 /\ UNCHANGED <<now, row, call, channel, sent, notice, faults, joined>>
Notify(t) == /\ task[t].at = "notify"
             /\ notice' = notice \cup {task[t].key}
             /\ task' = Finish(t)
             /\ UNCHANGED <<now, row, call, channel, sent, faults, joined>>

\* A database error while recording raises: the queue runs the task again while
\* retries are left, and the message is sent again.
Raise(t) ==
    /\ task[t].at \in {"record", "notify"}
    /\ faults < MaxFaults
    /\ faults' = faults + 1
    /\ task' = IF task[t].attempt < MaxRetries
               THEN [task EXCEPT ![t].at = "none", ![t].status = "pending", ![t].attempt = @ + 1]
               ELSE [task EXCEPT ![t].at = "none", ![t].status = "failed"]
    /\ UNCHANGED <<now, row, call, channel, sent, notice, joined>>

\* The worker dies: its task stays running until mark_stale_tasks ends it.
WorkerDies(t) == /\ task[t].status = "running"
                 /\ faults < MaxFaults
                 /\ faults' = faults + 1
                 /\ task' = [task EXCEPT ![t].status = "stale", ![t].at = "none"]
                 /\ UNCHANGED <<now, row, call, channel, sent, notice, joined>>

CallerDies(c) == /\ call[c].at # "idle"
                 /\ faults < MaxFaults
                 /\ faults' = faults + 1
                 /\ call' = [call EXCEPT ![c] = Idle]
                 /\ UNCHANGED <<now, row, task, channel, sent, notice, joined>>

Next == \/ Tick \/ Configure
        \/ \E c \in Callers : \/ Alert(c) \/ QueueRow(c) \/ Enqueue(c) \/ FillPayload(c)
                              \/ Annotate(c) \/ CallerDies(c)
                              \/ \E k \in Keys : Retry(c, k)
        \/ \E t \in Tasks : Dispatch(t) \/ Record(t) \/ Notify(t) \/ Raise(t) \/ WorkerDies(t)

Fairness == /\ \A c \in Callers : WF_vars(QueueRow(c) \/ Enqueue(c) \/ FillPayload(c) \/ Annotate(c))
            /\ \A t \in Tasks : WF_vars(Dispatch(t) \/ Record(t) \/ Notify(t))

Spec == Init /\ [][Next]_vars /\ Fairness

-------------------------------------------------------------------------------
ChannelKinds == {"enabled", "disabled", "invalid", "missing"}
RowType == [status : Statuses \cup {"none"}, task : 0..MaxTasks, retry : Nat]
TaskType == [key : Keys \cup {0}, status : {"none", "pending", "running", "completed", "failed", "stale"},
             at : {"none", "record", "notify"}, result : Statuses \cup {"none"},
             attempt : 0..MaxRetries, id : 0..MaxTasks, retry : Nat]
CallType == [at : {"idle", "row", "enqueue", "payload", "annotate"}, key : Keys \cup {0}, retry : Nat, task : 0..MaxTasks]
TypeOK ==
    /\ now \in Keys /\ faults \in 0..MaxFaults /\ joined \subseteq Keys /\ notice \subseteq Keys
    /\ channel \in ChannelKinds
    /\ row \in [Keys -> RowType] /\ task \in [Tasks -> TaskType] /\ call \in [Callers -> CallType]
    /\ sent \in [Keys -> Nat]

(* A row says sent only when the channel really took a message of its key,     *)
(* however requests, retries, tasks and faults interleave.                     *)
SentIsTruthful == \A k \in Keys : row[k].status = "sent" => sent[k] > 0

(* A failed delivery has its in-app notification, unless a task of the key     *)
(* has not run to its end: it is still at it, it died, or it failed for good.  *)
FailureIsNotified ==
    \A k \in Keys : row[k].status = "failed" =>
        k \in notice \/ \E t \in Tasks : task[t].key = k /\ task[t].status # "completed"

(* The deliveries table tells the truth: sent only what was taken, and a        *)
(* failure that nobody is told of only while or because a task did not end.    *)
DeliveriesTruthful == SentIsTruthful /\ FailureIsNotified

(* A queued delivery gets an outcome, unless a fault hit it or its request     *)
(* found a task of the key that was still active: that one may have recorded   *)
(* its outcome already, and nothing then moves the row again.                  *)
QueuedSettles ==
    \A k \in Keys : row[k].status = "queued" ~> row[k].status # "queued" \/ k \in joined \/ faults > 0
===============================================================================
