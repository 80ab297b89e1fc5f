------------------------------ MODULE TaskQueue ------------------------------
(***************************************************************************)
(* The background task queue: backend/infrastructure/tasks/queue.py and    *)
(* worker.py, and the cancel operation of application/task_api_service.py. *)
(*                                                                         *)
(* Task records, idempotency keys and the list of waiting tasks live in a  *)
(* Redis-like store whose single commands (GET, SET, SET NX, LPUSH, RPOP)  *)
(* are atomic.  Everything else is a sequence of such commands made by     *)
(* concurrent actors that keep a copy of the record between them: the      *)
(* callers of enqueue_task, the runners that execute tasks, the callers of *)
(* cancel_task, and whoever runs mark_stale_tasks.  One action is one      *)
(* command on the store, with the local computation around it.             *)
(*                                                                         *)
(* A task record is reduced to what decides control: its status and its    *)
(* retry_count.  Its name, tenant and payload never change after creation; *)
(* they are represented by the idempotency key, in taskKey.                *)
(***************************************************************************)
EXTENDS Naturals, Sequences

CONSTANTS
    Keys,        \* idempotency keys; a key stands for (name, tenant, payload)
    MarketKeys,  \* the keys whose task name starts with "market."
    OrphanKeys,  \* the keys whose task name has no registered handler
    Enqueuers,   \* threads that call enqueue_task
    Runners,     \* executor threads, or the main threads of worker processes
    Cancellers,  \* API requests that call cancel_task
    Markers,     \* threads that call mark_stale_tasks
    Procs,       \* operating-system processes
    ProcOf,      \* the process of each enqueuer and each runner
    WorkerMode,  \* settings.task_execution_mode = "worker"
    MaxRetries,  \* the max_retries the callers pass
    Redis,       \* the home of the shared list of waiting tasks
    NoKey, NoTask, NoRunner,
    MaxTasks,    \* bound: task ids ever created
    MaxCrashes,  \* bound: process crashes
    MaxExpiries  \* bound: waiting tasks whose record outlives its TTL

ASSUME KeysAssumption == MarketKeys \subseteq Keys /\ OrphanKeys \subseteq Keys
ASSUME ProcAssumption == ProcOf \in [Enqueuers \cup Runners -> Procs]
ASSUME ModeAssumption == WorkerMode \in BOOLEAN
ASSUME BoundAssumption == /\ MaxRetries \in Nat /\ MaxTasks \in Nat
                          /\ MaxCrashes \in Nat /\ MaxExpiries \in Nat
ASSUME NullAssumption == /\ Redis \notin Procs
                         /\ NoKey \notin Keys
                         /\ NoRunner \notin Runners
                         /\ NoTask \notin Nat

VARIABLES
    store,    \* task id -> its record ("absent" when there is none)
    idem,     \* idempotency key -> the task id it was claimed for
    taskKey,  \* task id -> its key (immutable part of the record)
    queue,    \* where a dispatched task waits -> FIFO of task ids
    lane,     \* process -> the runner that holds its _MARKET_TASK_LOCK
    created,  \* number of task ids generated so far
    epc, ekey, etid,       \* enqueue_task: where each caller is, its key and id
    rpc, rtid, rcur, rev,  \* work_once and _execute_task: where each runner is, its
                           \* task, its `current`, and the copy of a task event
    cpc, ctid, ccur,       \* cancel_task: where, which task, which copy
    mpc, mtid, mcur,       \* mark_stale_tasks: where, which task, which copy
    runs,     \* history: how often the handler of a task was entered
    crashes, expiries

stores == <<store, idem, taskKey, queue, lane>>
enq == <<epc, ekey, etid>>
run == <<rpc, rtid, rcur, rev>>
can == <<cpc, ctid, ccur>>
mark == <<mpc, mtid, mcur>>
bounds == <<created, runs, crashes, expiries>>
vars == <<stores, bounds, enq, run, can, mark>>

Tasks == 1..MaxTasks

Terminal == {"completed", "failed", "cancelled", "stale"}   \* _TERMINAL_STATUSES
Active == {"pending", "running", "retrying"}
Status == {"absent"} \cup Active \cup Terminal

Record == [status : Status, retry : 0..MaxRetries]
Absent == [status |-> "absent", retry |-> 0]
Pending == [status |-> "pending", retry |-> 0]

EnqPC == {"idle", "claim", "recheck", "overwrite", "save", "dispatch"}
RunPC == {"idle", "lookup", "unregload", "unregsave", "exec", "lanesave",
          "lanewait", "start", "saverunning", "beat", "func", "event",
          "saveretry", "final"}

-----------------------------------------------------------------------------
(* Helpers *)

Market(t) == taskKey[t] \in MarketKeys           \* _requires_serial_lane
HasHandler(t) == taskKey[t] \notin OrphanKeys    \* get_task_handler
Home(p) == IF WorkerMode THEN Redis ELSE p

\* _active_task_for_idempotency_key
ActiveTaskOf(k) == IF idem[k] # NoTask /\ store[idem[k]].status \in Active
                   THEN idem[k] ELSE NoTask

Save(t, rec) == store' = [store EXCEPT ![t] = rec]          \* save_task
With(rec, s) == [rec EXCEPT !.status = s]

EnqGoto(e, pc) == epc' = [epc EXCEPT ![e] = pc] /\ UNCHANGED <<ekey, etid>>
EnqSet(e, pc, k, t) ==
    /\ epc' = [epc EXCEPT ![e] = pc]
    /\ ekey' = [ekey EXCEPT ![e] = k]
    /\ etid' = [etid EXCEPT ![e] = t]
EnqDone(e) == EnqSet(e, "idle", NoKey, NoTask)

RunGoto(r, pc) == rpc' = [rpc EXCEPT ![r] = pc] /\ UNCHANGED <<rtid, rcur, rev>>
Carry(r, pc, rec) ==
    /\ rpc' = [rpc EXCEPT ![r] = pc]
    /\ rcur' = [rcur EXCEPT ![r] = rec]
    /\ UNCHANGED <<rtid, rev>>
RunDone(r) ==
    /\ rpc' = [rpc EXCEPT ![r] = "idle"]
    /\ rtid' = [rtid EXCEPT ![r] = NoTask]
    /\ rcur' = [rcur EXCEPT ![r] = Absent]
    /\ UNCHANGED rev

CanSet(c, pc, t, rec) ==
    /\ cpc' = [cpc EXCEPT ![c] = pc]
    /\ ctid' = [ctid EXCEPT ![c] = t]
    /\ ccur' = [ccur EXCEPT ![c] = rec]
MarkSet(m, pc, t, rec) ==
    /\ mpc' = [mpc EXCEPT ![m] = pc]
    /\ mtid' = [mtid EXCEPT ![m] = t]
    /\ mcur' = [mcur EXCEPT ![m] = rec]

\* get_task(task_id) or current
Latest(r) == IF store[rtid[r]].status = "absent" THEN rcur[r]
             ELSE store[rtid[r]]

Release(r) == lane' = [p \in Procs |-> IF lane[p] = r THEN NoRunner ELSE lane[p]]

Init ==
    /\ store = [t \in Tasks |-> Absent]
    /\ idem = [k \in Keys |-> NoTask]
    /\ taskKey = [t \in Tasks |-> NoKey]
    /\ queue = [h \in Procs \cup {Redis} |-> <<>>]
    /\ lane = [p \in Procs |-> NoRunner]
    /\ created = 0
    /\ epc = [e \in Enqueuers |-> "idle"]
    /\ ekey = [e \in Enqueuers |-> NoKey]
    /\ etid = [e \in Enqueuers |-> NoTask]
    /\ rpc = [r \in Runners |-> "idle"]
    /\ rtid = [r \in Runners |-> NoTask]
    /\ rcur = [r \in Runners |-> Absent]
    /\ rev = [r \in Runners |-> Absent]
    /\ cpc = [c \in Cancellers |-> "idle"]
    /\ ctid = [c \in Cancellers |-> NoTask]
    /\ ccur = [c \in Cancellers |-> Absent]
    /\ mpc = [m \in Markers |-> "idle"]
    /\ mtid = [m \in Markers |-> NoTask]
    /\ mcur = [m \in Markers |-> Absent]
    /\ runs = [t \in Tasks |-> 0]
    /\ crashes = 0
    /\ expiries = 0

-----------------------------------------------------------------------------
(* Slips: bodies of actions below with a plausible programming error.        *)
(* Nothing uses them; putting one in the place of its original must break a  *)
(* property, which shows that the property depends on the code being right.  *)

\* Looks at the oldest waiting task without removing it.
SlipRunTake(r) ==
    LET h == Home(ProcOf[r])
    IN  /\ rpc[r] = "idle"
        /\ queue[h] # <<>>
        /\ rpc' = [rpc EXCEPT ![r] = IF WorkerMode THEN "lookup" ELSE "exec"]
        /\ rtid' = [rtid EXCEPT ![r] = Head(queue[h])]
        /\ UNCHANGED <<rcur, rev>>
        /\ UNCHANGED <<stores, bounds, enq, can, mark>>

\* Reports a task without a handler as done.
SlipRunUnregLoad(r) ==
    /\ rpc[r] = "unregload"
    /\ Carry(r, "unregsave", With(Latest(r), "completed"))
    /\ UNCHANGED <<stores, bounds, enq, can, mark>>

\* Announces the wait by setting the status back to pending.
SlipRunLaneSave(r) ==
    /\ rpc[r] = "lanesave"
    /\ Save(rtid[r], With(rcur[r], "pending"))
    /\ RunGoto(r, "lanewait")
    /\ UNCHANGED <<idem, taskKey, queue, lane, bounds, enq, can, mark>>

\* Goes on when the wait for the lane times out.
SlipRunLaneAcquire(r) ==
    /\ rpc[r] = "lanewait"
    /\ lane' = [lane EXCEPT ![ProcOf[r]] = r]
    /\ RunGoto(r, "start")
    /\ UNCHANGED <<store, idem, taskKey, queue, bounds, enq, can, mark>>

\* Leaves by a return that skips the release of the lane.
SlipRunFinal(r) ==
    /\ rpc[r] = "final"
    /\ Save(rtid[r], rcur[r])
    /\ RunDone(r)
    /\ UNCHANGED <<idem, taskKey, queue, lane, bounds, enq, can, mark>>

\* Looks for the wrong status.
SlipMarkLoad(m, t) ==
    /\ mpc[m] = "idle"
    /\ store[t].status = "retrying"
    /\ MarkSet(m, "save", t, With(store[t], "stale"))
    /\ UNCHANGED <<stores, bounds, enq, run, can>>

\* Recovers a stale task by putting it back in the queue.
SlipMarkSave(m) ==
    /\ mpc[m] = "save"
    /\ Save(mtid[m], mcur[m])
    /\ MarkSet(m, "idle", NoTask, Absent)
    /\ queue' = [h \in DOMAIN queue |-> IF h = Home(h) THEN Append(queue[h], mtid[m]) ELSE queue[h]]
    /\ UNCHANGED <<idem, taskKey, lane, bounds, enq, run, can>>

-----------------------------------------------------------------------------
(* enqueue_task *)

\* The first look at the key.  When it leads to an active task the caller gets
\* that task and nothing changes; otherwise a record with a fresh uuid4 id is
\* built.
EnqCheck(e, k) ==
    /\ epc[e] = "idle"
    /\ ActiveTaskOf(k) = NoTask
    /\ created < MaxTasks
    /\ created' = created + 1
    /\ taskKey' = [taskKey EXCEPT ![created + 1] = k]
    /\ EnqSet(e, "claim", k, created + 1)
    /\ UNCHANGED <<store, idem, queue, lane, runs, crashes, expiries, run, can, mark>>

\* set_json_if_absent(tasks:idempotency:key)
EnqClaim(e) ==
    /\ epc[e] = "claim"
    /\ IF idem[ekey[e]] = NoTask
       THEN /\ idem' = [idem EXCEPT ![ekey[e]] = etid[e]]
            /\ EnqGoto(e, "save")
       ELSE /\ UNCHANGED idem
            /\ EnqGoto(e, "recheck")
    /\ UNCHANGED <<store, taskKey, queue, lane, bounds, run, can, mark>>

\* The second look, after losing the claim.
EnqRecheck(e) ==
    /\ epc[e] = "recheck"
    /\ IF ActiveTaskOf(ekey[e]) # NoTask
       THEN EnqDone(e)
       ELSE EnqGoto(e, "overwrite")
    /\ UNCHANGED <<stores, bounds, run, can, mark>>

EnqOverwrite(e) ==
    /\ epc[e] = "overwrite"
    /\ idem' = [idem EXCEPT ![ekey[e]] = etid[e]]
    /\ EnqGoto(e, "save")
    /\ UNCHANGED <<store, taskKey, queue, lane, bounds, run, can, mark>>

EnqSave(e) ==
    /\ epc[e] = "save"
    /\ Save(etid[e], Pending)
    /\ EnqGoto(e, "dispatch")
    /\ UNCHANGED <<idem, taskKey, queue, lane, bounds, run, can, mark>>

\* push_value in worker mode, _executor.submit in thread mode.
EnqDispatch(e) ==
    /\ epc[e] = "dispatch"
    /\ queue' = [queue EXCEPT ![Home(ProcOf[e])] = Append(@, etid[e])]
    /\ EnqDone(e)
    /\ UNCHANGED <<store, idem, taskKey, lane, bounds, run, can, mark>>

-----------------------------------------------------------------------------
(* work_once and _execute_task *)

\* RPOP of a worker process, or an idle executor thread taking the next job.
RunTake(r) ==
    LET h == Home(ProcOf[r])
    IN  /\ rpc[r] = "idle"
        /\ queue[h] # <<>>
        /\ queue' = [queue EXCEPT ![h] = Tail(@)]
        /\ rpc' = [rpc EXCEPT ![r] = IF WorkerMode THEN "lookup" ELSE "exec"]
        /\ rtid' = [rtid EXCEPT ![r] = Head(queue[h])]
        /\ UNCHANGED <<rcur, rev>>
        /\ UNCHANGED <<store, idem, taskKey, lane, bounds, enq, can, mark>>

\* work_once: no record, no handler, or on to run_queued_task.
RunLookup(r) ==
    LET t == rtid[r]
    IN  /\ rpc[r] = "lookup"
        /\ \/ /\ store[t].status = "absent"
              /\ RunDone(r)
           \/ /\ store[t].status # "absent"
              /\ RunGoto(r, IF HasHandler(t) THEN "exec" ELSE "unregload")
        /\ UNCHANGED <<stores, bounds, enq, can, mark>>

\* _fail_unregistered_task: update_task reads the record ...
RunUnregLoad(r) ==
    LET rec == store[rtid[r]]
    IN  /\ rpc[r] = "unregload"
        /\ IF rec.status = "absent" THEN RunDone(r)
           ELSE Carry(r, "unregsave", With(rec, "failed"))
        /\ UNCHANGED <<stores, bounds, enq, can, mark>>

\* ... and writes it back as failed.
RunUnregSave(r) ==
    /\ rpc[r] = "unregsave"
    /\ Save(rtid[r], rcur[r])
    /\ RunDone(r)
    /\ UNCHANGED <<idem, taskKey, queue, lane, bounds, enq, can, mark>>

\* _execute_task: a market task needs the lane of its process.  When the
\* non-blocking acquire fails the record read here is about to be saved again
\* with one more event.
RunExec(r) ==
    LET t == rtid[r]
        p == ProcOf[r]
    IN  /\ rpc[r] = "exec"
        /\ \/ /\ store[t].status = "absent"
              /\ RunDone(r)
              /\ UNCHANGED lane
           \/ /\ store[t].status # "absent"
              /\ ~Market(t)
              /\ RunGoto(r, "start")
              /\ UNCHANGED lane
           \/ /\ store[t].status # "absent"
              /\ Market(t)
              /\ lane[p] = NoRunner
              /\ lane' = [lane EXCEPT ![p] = r]
              /\ RunGoto(r, "start")
           \/ /\ store[t].status # "absent"
              /\ Market(t)
              /\ lane[p] # NoRunner
              /\ Carry(r, "lanesave", store[t])
              /\ UNCHANGED lane
        /\ UNCHANGED <<store, idem, taskKey, queue, bounds, enq, can, mark>>

RunLaneSave(r) ==
    /\ rpc[r] = "lanesave"
    /\ Save(rtid[r], rcur[r])
    /\ RunGoto(r, "lanewait")
    /\ UNCHANGED <<idem, taskKey, queue, lane, bounds, enq, can, mark>>

\* The blocking acquire of _MARKET_TASK_LOCK.
RunLaneAcquire(r) ==
    /\ rpc[r] = "lanewait"
    /\ lane[ProcOf[r]] = NoRunner
    /\ lane' = [lane EXCEPT ![ProcOf[r]] = r]
    /\ RunGoto(r, "start")
    /\ UNCHANGED <<store, idem, taskKey, queue, bounds, enq, can, mark>>

\* _execute_task_unlocked: get_task, and the check for a cancelled task.
RunStart(r) ==
    LET rec == store[rtid[r]]
    IN  /\ rpc[r] = "start"
        /\ \/ /\ rec.status = "absent"
              /\ RunDone(r)
              /\ Release(r)
           \/ /\ rec.status = "cancelled"
              /\ Carry(r, "final", rec)
              /\ UNCHANGED lane
           \/ /\ rec.status \notin {"absent", "cancelled"}
              /\ Carry(r, "saverunning", With(rec, "running"))
              /\ UNCHANGED lane
        /\ UNCHANGED <<store, idem, taskKey, queue, bounds, enq, can, mark>>

RunSaveRunning(r) ==
    /\ rpc[r] = "saverunning"
    /\ Save(rtid[r], rcur[r])
    /\ RunGoto(r, "beat")
    /\ UNCHANGED <<idem, taskKey, queue, lane, bounds, enq, can, mark>>

\* The heartbeat at the head of the retry loop, then the call of the handler.
RunBeat(r) ==
    /\ rpc[r] = "beat"
    /\ Save(rtid[r], rcur[r])
    /\ runs' = [runs EXCEPT ![rtid[r]] = @ + 1]
    /\ RunGoto(r, "func")
    /\ UNCHANGED <<idem, taskKey, queue, lane, created, crashes, expiries, enq, can, mark>>

\* append_task_event, called by a handler: read the record ...
RunEventLoad(r) ==
    /\ rpc[r] = "func"
    /\ store[rtid[r]].status # "absent"
    /\ rpc' = [rpc EXCEPT ![r] = "event"]
    /\ rev' = [rev EXCEPT ![r] = store[rtid[r]]]
    /\ UNCHANGED <<stores, bounds, rtid, rcur, enq, can, mark>>

\* ... and write it back with the event.
RunEventSave(r) ==
    /\ rpc[r] = "event"
    /\ Save(rtid[r], rev[r])
    /\ rpc' = [rpc EXCEPT ![r] = "func"]
    /\ rev' = [rev EXCEPT ![r] = Absent]
    /\ UNCHANGED <<idem, taskKey, queue, lane, bounds, rtid, rcur, enq, can, mark>>

\* The handler returned: completed, unless the record says cancelled.
RunReturn(r) ==
    /\ rpc[r] = "func"
    /\ Carry(r, "final", IF Latest(r).status = "cancelled" THEN Latest(r)
                         ELSE With(rcur[r], "completed"))
    /\ UNCHANGED <<stores, bounds, enq, can, mark>>

\* The handler, or the heartbeat save before it, raised.
RunRaise(r) ==
    LET cur == rcur[r]
    IN  /\ rpc[r] \in {"beat", "func"}
        /\ \/ /\ Latest(r).status = "cancelled"
              /\ Carry(r, "final", Latest(r))
           \/ /\ Latest(r).status # "cancelled"
              /\ cur.retry < MaxRetries
              /\ Carry(r, "saveretry", [status |-> "retrying", retry |-> cur.retry + 1])
           \/ /\ Latest(r).status # "cancelled"
              /\ cur.retry >= MaxRetries
              /\ Carry(r, "final", With(cur, "failed"))
        /\ UNCHANGED <<stores, bounds, enq, can, mark>>

\* Saved once as retrying, then the loop goes on as running.
RunSaveRetry(r) ==
    /\ rpc[r] = "saveretry"
    /\ Save(rtid[r], rcur[r])
    /\ Carry(r, "saverunning", With(rcur[r], "running"))
    /\ UNCHANGED <<idem, taskKey, queue, lane, bounds, enq, can, mark>>

\* The unconditional save_task(current) at the end; the lane is released.
RunFinal(r) ==
    /\ rpc[r] = "final"
    /\ Save(rtid[r], rcur[r])
    /\ RunDone(r)
    /\ Release(r)
    /\ UNCHANGED <<idem, taskKey, queue, bounds, enq, can, mark>>

-----------------------------------------------------------------------------
(* cancel_task: one read to answer, a second read and a save in update_task *)

CanCheck(c, t) ==
    /\ cpc[c] = "idle"
    /\ store[t].status \notin {"absent", "completed", "failed", "cancelled"}
    /\ CanSet(c, "load", t, Absent)
    /\ UNCHANGED <<stores, bounds, enq, run, mark>>

CanLoad(c) ==
    LET rec == store[ctid[c]]
    IN  /\ cpc[c] = "load"
        /\ IF rec.status = "absent" THEN CanSet(c, "idle", NoTask, Absent)
           ELSE CanSet(c, "save", ctid[c], With(rec, "cancelled"))
        /\ UNCHANGED <<stores, bounds, enq, run, mark>>

CanSave(c) ==
    /\ cpc[c] = "save"
    /\ Save(ctid[c], ccur[c])
    /\ CanSet(c, "idle", NoTask, Absent)
    /\ UNCHANGED <<idem, taskKey, queue, lane, bounds, enq, run, mark>>

-----------------------------------------------------------------------------
(* mark_stale_tasks, one task of the walk.  Wall-clock time is not modelled: *)
(* a heartbeat may turn out to be older than 900 seconds whenever the task   *)
(* is running, for nothing bounds how long a handler or a runner takes.      *)

MarkLoad(m, t) ==
    /\ mpc[m] = "idle"
    /\ store[t].status = "running"
    /\ MarkSet(m, "save", t, With(store[t], "stale"))
    /\ UNCHANGED <<stores, bounds, enq, run, can>>

MarkSave(m) ==
    /\ mpc[m] = "save"
    /\ Save(mtid[m], mcur[m])
    /\ MarkSet(m, "idle", NoTask, Absent)
    /\ UNCHANGED <<idem, taskKey, queue, lane, bounds, enq, run, can>>

-----------------------------------------------------------------------------
(* The environment *)

\* A process dies: its threads, its executor's waiting jobs and its lock go.
Crash(p) ==
    /\ crashes < MaxCrashes
    /\ crashes' = crashes + 1
    /\ epc' = [e \in Enqueuers |-> IF ProcOf[e] = p THEN "idle" ELSE epc[e]]
    /\ ekey' = [e \in Enqueuers |-> IF ProcOf[e] = p THEN NoKey ELSE ekey[e]]
    /\ etid' = [e \in Enqueuers |-> IF ProcOf[e] = p THEN NoTask ELSE etid[e]]
    /\ rpc' = [r \in Runners |-> IF ProcOf[r] = p THEN "idle" ELSE rpc[r]]
    /\ rtid' = [r \in Runners |-> IF ProcOf[r] = p THEN NoTask ELSE rtid[r]]
    /\ rcur' = [r \in Runners |-> IF ProcOf[r] = p THEN Absent ELSE rcur[r]]
    /\ rev' = [r \in Runners |-> IF ProcOf[r] = p THEN Absent ELSE rev[r]]
    /\ lane' = [lane EXCEPT ![p] = NoRunner]
    /\ queue' = [queue EXCEPT ![p] = <<>>]
    /\ UNCHANGED <<store, idem, taskKey, created, runs, expiries, can, mark>>

\* The record of a task that waited for 24 hours expires, and so does the key,
\* which was written before it.
Expire(t) ==
    /\ expiries < MaxExpiries
    /\ store[t].status = "pending"
    /\ \E h \in Procs \cup {Redis} : \E i \in DOMAIN queue[h] : queue[h][i] = t
    /\ expiries' = expiries + 1
    /\ Save(t, Absent)
    /\ idem' = [k \in Keys |-> IF idem[k] = t THEN NoTask ELSE idem[k]]
    /\ UNCHANGED <<taskKey, queue, lane, created, runs, crashes, enq, run, can, mark>>

-----------------------------------------------------------------------------

EnqStep(e) == EnqClaim(e) \/ EnqRecheck(e) \/ EnqOverwrite(e) \/ EnqSave(e)
              \/ EnqDispatch(e)
HandlerEnds(r) == rpc[r] = "func" /\ (RunReturn(r) \/ RunRaise(r))
RunStep(r) ==
    \/ RunTake(r) \/ RunLookup(r) \/ RunUnregLoad(r) \/ RunUnregSave(r)
    \/ RunExec(r) \/ RunLaneSave(r) \/ RunLaneAcquire(r) \/ RunStart(r)
    \/ RunSaveRunning(r) \/ RunBeat(r) \/ RunEventLoad(r) \/ RunEventSave(r)
    \/ RunReturn(r) \/ RunRaise(r) \/ RunSaveRetry(r) \/ RunFinal(r)
CanStep(c) == CanLoad(c) \/ CanSave(c)
CanNext == \E c \in Cancellers : CanStep(c) \/ \E t \in Tasks : CanCheck(c, t)
MarkNext == \E m \in Markers : MarkSave(m) \/ \E t \in Tasks : MarkLoad(m, t)

Next ==
    \/ \E e \in Enqueuers : EnqStep(e) \/ \E k \in Keys : EnqCheck(e, k)
    \/ \E r \in Runners : RunStep(r)
    \/ CanNext
    \/ MarkNext
    \/ \E p \in Procs : Crash(p)
    \/ \E t \in Tasks : Expire(t)

Spec == Init /\ [][Next]_vars

\* Threads that run get to take steps and every handler call ends, however many
\* events it appends on the way.  Nobody is
\* obliged to call the API, to crash or to let a record expire.
Fairness ==
    /\ \A e \in Enqueuers : WF_vars(EnqStep(e))
    /\ \A r \in Runners : WF_vars(RunStep(r)) /\ SF_vars(HandlerEnds(r))
    /\ \A c \in Cancellers : WF_vars(CanStep(c))
    /\ \A m \in Markers : WF_vars(MarkSave(m))

FairSpec == Spec /\ Fairness

-----------------------------------------------------------------------------
(* Properties *)

\* Shapes of the store, the queues, the locks and the local copies.
TypeOK ==
    /\ store \in [Tasks -> Record]
    /\ idem \in [Keys -> Tasks \cup {NoTask}]
    /\ taskKey \in [Tasks -> Keys \cup {NoKey}]
    /\ queue \in [Procs \cup {Redis} -> Seq(Tasks)]
    /\ lane \in [Procs -> Runners \cup {NoRunner}]
    /\ created \in 0..MaxTasks
    /\ epc \in [Enqueuers -> EnqPC]
    /\ ekey \in [Enqueuers -> Keys \cup {NoKey}]
    /\ etid \in [Enqueuers -> Tasks \cup {NoTask}]
    /\ rpc \in [Runners -> RunPC]
    /\ rtid \in [Runners -> Tasks \cup {NoTask}]
    /\ rcur \in [Runners -> Record]
    /\ rev \in [Runners -> Record]
    /\ cpc \in [Cancellers -> {"idle", "load", "save"}]
    /\ ctid \in [Cancellers -> Tasks \cup {NoTask}]
    /\ ccur \in [Cancellers -> Record]
    /\ mpc \in [Markers -> {"idle", "save"}]
    /\ mtid \in [Markers -> Tasks \cup {NoTask}]
    /\ mcur \in [Markers -> Record]
    /\ runs \in [Tasks -> Nat]
    /\ crashes \in 0..MaxCrashes
    /\ expiries \in 0..MaxExpiries

InHandler(r) == rpc[r] \in {"func", "event"}
Busy(r) == rpc[r] # "idle"
Queued(t) == \E h \in Procs \cup {Redis} : \E i \in DOMAIN queue[h] : queue[h][i] = t

\* The market lane: in one process no two runners are in the handlers of market
\* tasks at the same time, whatever is cancelled, retried, marked or crashes.
LaneExclusive ==
    \A r1, r2 \in Runners :
        /\ r1 # r2 /\ ProcOf[r1] = ProcOf[r2]
        /\ InHandler(r1) /\ Market(rtid[r1])
        /\ InHandler(r2) /\ Market(rtid[r2])
        => FALSE

\* A task is delivered at most once: it waits in one place or is held by one
\* runner, never both and never twice, although nothing in the store records
\* who executes it.
DeliveredOnce ==
    /\ \A r1, r2 \in Runners :
          r1 # r2 /\ Busy(r1) /\ Busy(r2) => rtid[r1] # rtid[r2]
    /\ \A r \in Runners : Busy(r) => ~Queued(rtid[r])
    /\ \A h1, h2 \in Procs \cup {Redis} :
          \A i \in DOMAIN queue[h1], j \in DOMAIN queue[h2] :
              queue[h1][i] = queue[h2][j] => h1 = h2 /\ i = j

\* The retry budget survives every lost update: other actors write stale copies
\* of the record, with an old retry_count, yet a handler is entered at most
\* 1 + max_retries times per task.
AttemptsBounded == \A t \in Tasks : runs[t] <= MaxRetries + 1

\* A record says completed only if the handler was entered.
CompletedRan == \A t \in Tasks : store[t].status = "completed" => runs[t] > 0

\* A task that is completed or failed never becomes active again.  The runner
\* is the only writer of active statuses, and it holds the task once.
FinishedStaysFinished ==
    [][\A t \in Tasks : store[t].status \in {"completed", "failed"}
                        => store'[t].status \in Terminal]_vars

\* A task cancelled while it waits in a queue is never executed: "if the task
\* is found cancelled before execution it is not overwritten with running".
CancelledInQueueNeverRuns ==
    \A t \in Tasks : [](store[t].status = "cancelled" /\ Queued(t) => [](runs[t] = 0))

\* Unless a process crashes, every task that was saved as pending ends in a
\* final status for good, however cancels, marks, retries and lane waits
\* interleave.
Settled(t) == store[t].status \in Terminal \cup {"absent"}
EveryTaskSettles ==
    \A t \in Tasks : store[t].status = "pending" ~> (crashes > 0 \/ []Settled(t))

\* run_worker calls mark_stale_tasks in every round and the heartbeat of a dead
\* task gets old.
MarkFairness == \A t \in Tasks : WF_vars(\E m \in Markers : MarkLoad(m, t))

\* The record of a task whose runner died while it was running does not stay
\* running, as long as somebody keeps marking.  (That the walk of tasks:index
\* visits the task is part of MarkFairness.)
Dead(t) == ~Queued(t) /\ \A r \in Runners : rtid[r] # t
DeadRunningIsMarked ==
    MarkFairness =>
        \A t \in Tasks : (store[t].status = "running" /\ Dead(t)) ~> (store[t].status # "running")

=============================================================================
