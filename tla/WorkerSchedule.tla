---------------------------- MODULE WorkerSchedule ----------------------------
(***************************************************************************)
(* The periodic jobs of the standalone worker (run_worker of               *)
(* infrastructure/tasks/worker.py): each pass of the loop enqueues the     *)
(* jobs that are due, under a key made of the job and of the bucket of     *)
(* time, then takes one task and runs it to its end.  TaskQueue models the *)
(* queue itself.                                                           *)
(***************************************************************************)
EXTENDS Integers, Sequences

CONSTANTS Workers, Jobs,
          Interval,  \* seconds between two enqueues of a job
          MaxNow,    \* bound on the clock
          MaxStarts  \* bound on the starts of each worker

ASSUME ScheduleAssumption == /\ \A j \in Jobs : Interval[j] \in Nat \ {0}
                             /\ MaxNow \in Nat /\ MaxStarts \in Nat

VARIABLES now,
          worker,  \* [alive, starts, next, turn, seen, fresh, task]: fresh until the pass has taken its task
          task,    \* tasks in the order they were enqueued
          queue    \* ids of tasks that wait

vars == <<now, worker, task, queue>>

Down == [alive |-> FALSE, starts |-> 0, next |-> [j \in Jobs |-> 0], turn |-> {}, seen |-> 0, fresh |-> FALSE, task |-> 0]
Init == /\ now = 0 /\ worker = [w \in Workers |-> Down] /\ task = <<>> /\ queue = <<>>

Tick == now < MaxNow /\ now' = now + 1 /\ UNCHANGED <<worker, task, queue>>

\* run_worker: every enabled job is due at once.
Start(w) ==
    /\ ~worker[w].alive /\ worker[w].starts < MaxStarts
    /\ worker' = [worker EXCEPT ![w] = [Down EXCEPT !.alive = TRUE, !.starts = worker[w].starts + 1, !.next = [j \in Jobs |-> now]]]
    /\ UNCHANGED <<now, task, queue>>

\* A pass reads the clock once; the jobs that are due then have their turn.
Pass(w) ==
    /\ worker[w].alive /\ worker[w].task = 0 /\ worker[w].turn = {}
    /\ worker' = [worker EXCEPT ![w].seen = now, ![w].fresh = TRUE, ![w].turn = {j \in Jobs : now >= worker[w].next[j]}]
    /\ UNCHANGED <<now, task, queue>>

Bucket(j, at) == at \div Interval[j]

\* enqueue_task: a key that an unfinished task holds gives that task.
Unfinished(j, bucket) == {t \in DOMAIN task : task[t].job = j /\ task[t].bucket = bucket /\ ~task[t].done}

\* One job of the pass, and when it is due again.
NextAt(j, seen) == seen + Interval[j]
SlipEnqueue(w, j) ==
    LET me == worker[w] IN
    /\ me.alive /\ j \in me.turn
    /\ task' = Append(task, [job |-> j, bucket |-> Bucket(j, me.seen), by |-> <<w, me.starts>>, done |-> FALSE])
    /\ queue' = Append(queue, Len(task) + 1)
    /\ worker' = [worker EXCEPT ![w].turn = @ \ {j}, ![w].next = [@ EXCEPT ![j] = NextAt(j, me.seen)]]
    /\ UNCHANGED now
Enqueue(w, j) ==
    LET me == worker[w] IN
    /\ me.alive /\ j \in me.turn
    /\ IF Unfinished(j, Bucket(j, me.seen)) # {} THEN UNCHANGED <<task, queue>>
       ELSE /\ task' = Append(task, [job |-> j, bucket |-> Bucket(j, me.seen), by |-> <<w, me.starts>>, done |-> FALSE])
            /\ queue' = Append(queue, Len(task) + 1)
    /\ worker' = [worker EXCEPT ![w].turn = @ \ {j}, ![w].next = [@ EXCEPT ![j] = NextAt(j, me.seen)]]
    /\ UNCHANGED now

\* work_once, when the jobs of the pass are enqueued.
Take(w) ==
    /\ worker[w].alive /\ worker[w].task = 0 /\ worker[w].turn = {} /\ worker[w].fresh /\ queue # <<>>
    /\ worker' = [worker EXCEPT ![w].task = Head(queue), ![w].fresh = FALSE]
    /\ queue' = Tail(queue)
    /\ UNCHANGED <<now, task>>

EndTask(w) ==
    /\ worker[w].alive /\ worker[w].task > 0
    /\ task' = [task EXCEPT ![worker[w].task].done = TRUE]
    /\ worker' = [worker EXCEPT ![w].task = 0]
    /\ UNCHANGED <<now, queue>>

\* The process ends; a task it ran stays unfinished.
Stop(w) == /\ worker[w].alive
           /\ worker' = [worker EXCEPT ![w] = [Down EXCEPT !.starts = worker[w].starts]]
           /\ UNCHANGED <<now, task, queue>>

Next == \/ Tick
        \/ \E w \in Workers : Start(w) \/ Pass(w) \/ Take(w) \/ EndTask(w) \/ Stop(w) \/ \E j \in Jobs : Enqueue(w, j)

Spec == Init /\ [][Next]_vars

-------------------------------------------------------------------------------
Made == [job : Jobs, bucket : Nat, by : Workers \X Nat, done : BOOLEAN]
TypeOK ==
    /\ now \in Nat
    /\ worker \in [Workers -> [alive : BOOLEAN, starts : Nat, next : [Jobs -> Nat], turn : SUBSET Jobs,
                               seen : Nat, fresh : BOOLEAN, task : Nat]]
    /\ task \in Seq(Made) /\ queue \in Seq(Nat)

(* A worker enqueues a job at most once in a bucket between two of its starts, *)
(* however long its tasks take: with W workers and S starts a bucket's job     *)
(* runs at most W * S times.                                                   *)
OncePerBucket == \A t, u \in DOMAIN task : task[t].job = task[u].job /\ task[t].bucket = task[u].bucket /\ task[t].by = task[u].by => t = u

(* Two unfinished tasks never hold the same job and bucket, whichever workers  *)
(* enqueued them.                                                              *)
NoTwins == \A t, u \in DOMAIN task : task[t].job = task[u].job /\ task[t].bucket = task[u].bucket /\ ~task[t].done /\ ~task[u].done => t = u

(* A job of a bucket is enqueued once, whichever worker it is and however the  *)
(* workers restart: once per start of a worker, and once while it is unfinished.*)
JobsOnce == OncePerBucket /\ NoTwins
===============================================================================
