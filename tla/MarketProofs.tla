------------------------------ MODULE MarketProofs ------------------------------
(***************************************************************************)
(* Proofs about the worker's schedule and the market data, for every       *)
(* number of workers, jobs, days, securities, tasks and calendars.  The    *)
(* schedule's invariant ties the bucket of every task to the time its job  *)
(* is due again: a worker comes to a job only when the clock is past that  *)
(* time, hence in a later bucket than that of any task it has enqueued     *)
(* since its start.  The index of indicators, the snapshots, the stocks    *)
(* table, the sync runs and the plans have an invariant each.               *)
(***************************************************************************)
EXTENDS MCMarket, FiniteSetTheorems, SequenceTheorems, WellFoundedInduction, TLAPS

\* A job whose turn it is was due when the pass read the clock.
DueWhenSeen == \A w \in Workers : \A j \in worker[w].turn : worker[w].next[j] <= worker[w].seen

\* Of the tasks a worker enqueued since its last start, each lies in a bucket
\* before the one in which its job is due again; of a start to come there are none.
Ahead == \A w \in Workers, t \in DOMAIN task : task[t].by[1] = w =>
    /\ task[t].by[2] <= worker[w].starts
    /\ worker[w].alive /\ task[t].by[2] = worker[w].starts
          => task[t].bucket < Bucket(task[t].job, worker[w].next[task[t].job])

ScheduleInv == TypeOK /\ DueWhenSeen /\ Ahead /\ JobsOnce

\* A bucket is a number, later times lie in no earlier bucket, and an interval
\* later lies in the next one.
LEMMA BucketType == ASSUME NEW j \in Jobs, NEW at \in Nat PROVE Bucket(j, at) \in Nat
    BY ScheduleAssumption, SMT DEF Bucket
LEMMA BucketGrows == ASSUME NEW j \in Jobs, NEW a \in Nat, NEW b \in Nat, a <= b
                     PROVE Bucket(j, a) <= Bucket(j, b)
    BY ScheduleAssumption, SMTT(20) DEF Bucket
LEMMA NextBucket == ASSUME NEW j \in Jobs, NEW at \in Nat
                    PROVE NextAt(j, at) \in Nat /\ Bucket(j, NextAt(j, at)) = Bucket(j, at) + 1
    BY ScheduleAssumption, SMTT(20) DEF Bucket, NextAt

\* What Append and EXCEPT make of the sequence of tasks.
LEMMA Appended == ASSUME NEW S, NEW s \in Seq(S), NEW e \in S
                  PROVE /\ Append(s, e) \in Seq(S) /\ Len(s) \in Nat
                        /\ DOMAIN s = 1..Len(s) /\ DOMAIN Append(s, e) = 1..(Len(s) + 1)
                        /\ \A i \in DOMAIN s : Append(s, e)[i] = s[i]
                        /\ Append(s, e)[Len(s) + 1] = e
    OBVIOUS
LEMMA Ended == ASSUME NEW s \in Seq(Made), NEW i
               PROVE LET r == [s EXCEPT ![i].done = TRUE] IN
                     /\ r \in Seq(Made) /\ DOMAIN r = DOMAIN s
                     /\ \A t \in DOMAIN s : /\ r[t].job = s[t].job /\ r[t].bucket = s[t].bucket /\ r[t].by = s[t].by
                                            /\ s[t].done => r[t].done
<1> DEFINE r == [s EXCEPT ![i].done = TRUE]
<1>1. Len(s) \in Nat /\ s \in [1..Len(s) -> Made]
    OBVIOUS
<1>2. DOMAIN r = 1..Len(s) /\ \A t \in 1..Len(s) : r[t] = IF t = i THEN [s[t] EXCEPT !.done = TRUE] ELSE s[t]
    BY <1>1
<1>3. \A t \in 1..Len(s) : /\ r[t] \in Made
                           /\ r[t].job = s[t].job /\ r[t].bucket = s[t].bucket /\ r[t].by = s[t].by
                           /\ s[t].done => r[t].done
    BY <1>1, <1>2 DEF Made
<1>4. r \in [1..Len(s) -> Made]
    <2>1. r = [t \in 1..Len(s) |-> r[t]]
        BY <1>1, <1>2
    <2> QED BY <1>3, <2>1
<1>5. r \in Seq(Made)
    <2> HIDE DEF r
    <2> QED BY <1>1, <1>4
<1> QED BY <1>1, <1>2, <1>3, <1>5
LEMMA Stamped == ASSUME NEW s \in Seq(Made), NEW t \in DOMAIN s
                 PROVE s[t] \in Made /\ s[t].by[1] \in Workers /\ s[t].by[2] \in Nat
<1>1. s[t] \in Made
    OBVIOUS
<1>2. s[t].by \in Workers \X Nat
    BY <1>1 DEF Made
<1> QED BY <1>1, <1>2

\* The step that adds a task: it is the only one of its job and bucket from this
\* start of the worker, and the only unfinished one.
LEMMA EnqueueStep == ASSUME ScheduleInv, NEW w \in Workers, NEW j \in Jobs, Enqueue(w, j) PROVE ScheduleInv'
<1> DEFINE me == worker[w]
           b == Bucket(j, me.seen)
           new == [job |-> j, bucket |-> b, by |-> <<w, me.starts>>, done |-> FALSE]
<1> USE DEF ScheduleInv
<1>1. /\ me \in [alive : BOOLEAN, starts : Nat, next : [Jobs -> Nat], turn : SUBSET Jobs,
                 seen : Nat, fresh : BOOLEAN, task : Nat]
      /\ me.alive /\ j \in me.turn /\ me.next[j] <= me.seen
    BY DEF TypeOK, DueWhenSeen, Enqueue
<1>2. /\ b \in Nat /\ new \in Made
      /\ NextAt(j, me.seen) \in Nat /\ Bucket(j, NextAt(j, me.seen)) = b + 1
      /\ Bucket(j, me.next[j]) \in Nat /\ Bucket(j, me.next[j]) <= b
    BY <1>1, BucketType, NextBucket, BucketGrows DEF Made
<1>3. worker' = [worker EXCEPT ![w].turn = @ \ {j}, ![w].next = [@ EXCEPT ![j] = NextAt(j, me.seen)]]
    BY DEF Enqueue
<1>4. \/ task' = task /\ queue' = queue
      \/ /\ Unfinished(j, b) = {}
         /\ task' = Append(task, new) /\ queue' = Append(queue, Len(task) + 1)
    BY DEF Enqueue
<1>5. TypeOK'
    <2>1. worker' \in [Workers -> [alive : BOOLEAN, starts : Nat, next : [Jobs -> Nat], turn : SUBSET Jobs,
                                   seen : Nat, fresh : BOOLEAN, task : Nat]]
        BY <1>1, <1>2, <1>3 DEF TypeOK
    <2>2. task' \in Seq(Made) /\ queue' \in Seq(Nat)
        <3> HIDE DEF new
        <3>1. task \in Seq(Made) /\ queue \in Seq(Nat) /\ new \in Made
            BY <1>2 DEF TypeOK
        <3>2. Len(task) + 1 \in Nat /\ Append(task, new) \in Seq(Made)
            BY <3>1, Appended
        <3>3. Append(queue, Len(task) + 1) \in Seq(Nat)
            BY <3>1, <3>2, Appended
        <3> QED BY <1>4, <3>1, <3>2, <3>3
    <2> QED BY <2>1, <2>2 DEF TypeOK, Enqueue
<1>6. DueWhenSeen'
    BY <1>1, <1>3 DEF DueWhenSeen, TypeOK
<1>7. \A t \in DOMAIN task : task[t].job = j /\ task[t].by = new.by => task[t].bucket < b
    <2> SUFFICES ASSUME NEW t \in DOMAIN task, task[t].job = j, task[t].by = new.by PROVE task[t].bucket < b
        OBVIOUS
    <2>1. task[t] \in Made
        BY DEF TypeOK
    <2>2. task[t].by[1] = w /\ task[t].by[2] = worker[w].starts
        OBVIOUS
    <2>3. task[t].bucket < Bucket(j, me.next[j])
        BY <1>1, <2>2 DEF Ahead
    <2> QED BY <1>2, <2>1, <2>3 DEF Made
<1>8. \A t \in DOMAIN task : task[t] \in Made /\ t \in 1..Len(task)
    BY DEF TypeOK
<1>9. \A t \in DOMAIN task' : \/ t \in DOMAIN task /\ task'[t] = task[t]
                              \/ t = Len(task) + 1 /\ task'[t] = new /\ t \notin DOMAIN task /\ Unfinished(j, b) = {}
    <2>1. CASE task' = task
        BY <2>1
    <2>2. CASE Unfinished(j, b) = {} /\ task' = Append(task, new)
        <3> HIDE DEF new
        <3> QED BY <1>2, <2>2, Appended DEF TypeOK
    <2> QED BY <1>4, <2>1, <2>2
<1>10. Ahead'
    <2> SUFFICES ASSUME NEW v \in Workers, NEW t \in DOMAIN task', task'[t].by[1] = v
                 PROVE /\ task'[t].by[2] <= worker'[v].starts
                       /\ worker'[v].alive /\ task'[t].by[2] = worker'[v].starts
                             => task'[t].bucket < Bucket(task'[t].job, worker'[v].next[task'[t].job])
        BY DEF Ahead, Bucket
    <2>1. /\ worker'[v].starts = worker[v].starts /\ worker'[v].alive = worker[v].alive
          /\ \A i \in Jobs : worker'[v].next[i] = IF v = w /\ i = j THEN NextAt(j, me.seen) ELSE worker[v].next[i]
        BY <1>1, <1>3 DEF TypeOK
    <2>2. CASE t \in DOMAIN task /\ task'[t] = task[t]
        <3>1. /\ task[t] \in Made
              /\ task[t].by[2] <= worker[v].starts
              /\ worker[v].alive /\ task[t].by[2] = worker[v].starts
                    => task[t].bucket < Bucket(task[t].job, worker[v].next[task[t].job])
            BY <1>8, <2>2 DEF Ahead
        <3>2. CASE v = w /\ task[t].job = j
            <4>1. task[t].by[2] = me.starts => task[t].by = new.by
                BY <3>1, <3>2, <2>2 DEF Made
            <4>2. Bucket(task[t].job, worker'[v].next[task[t].job]) = b + 1
                BY <1>2, <2>1, <3>2
            <4>3. task[t].bucket \in Nat
                BY <3>1 DEF Made
            <4>4. task[t].by[2] = me.starts => task[t].bucket < b + 1
                BY <1>2, <1>7, <4>1, <4>3, <3>2, <2>2
            <4> QED BY <2>1, <2>2, <3>1, <3>2, <4>2, <4>4
        <3>3. CASE ~(v = w /\ task[t].job = j)
            BY <2>1, <2>2, <3>1, <3>3 DEF Made
        <3> QED BY <3>2, <3>3
    <2>3. CASE task'[t] = new
        <3>1. v = w
            BY <2>3
        <3>2. worker'[v].next[j] = NextAt(j, me.seen)
            BY <2>1, <3>1
        <3> QED BY <1>1, <1>2, <2>1, <2>3, <3>1, <3>2
    <2> QED BY <1>9, <2>2, <2>3
<1>11. OncePerBucket'
    <2> SUFFICES ASSUME NEW t \in DOMAIN task', NEW u \in DOMAIN task',
                        task'[t].job = task'[u].job, task'[t].bucket = task'[u].bucket, task'[t].by = task'[u].by
                 PROVE t = u
        BY DEF OncePerBucket
    <2>1. ASSUME NEW x \in DOMAIN task, task[x].job = j, task[x].bucket = b, task[x].by = new.by PROVE FALSE
        BY <1>2, <1>7, <2>1
    <2> QED BY <1>9, <2>1 DEF JobsOnce, OncePerBucket
<1>12. NoTwins'
    <2>1. \A x \in DOMAIN task : Unfinished(j, b) = {} /\ task[x].job = j /\ task[x].bucket = b => task[x].done
        BY DEF Unfinished
    <2> QED BY <1>9, <2>1 DEF JobsOnce, NoTwins
<1> QED BY <1>5, <1>6, <1>10, <1>11, <1>12 DEF JobsOnce

\* The end of a task only makes it finished.
LEMMA EndTaskStep == ASSUME ScheduleInv, NEW w \in Workers, EndTask(w) PROVE ScheduleInv'
<1> USE DEF ScheduleInv
<1> DEFINE i == worker[w].task
<1>1. /\ DOMAIN task' = DOMAIN task
      /\ \A t \in DOMAIN task : /\ task'[t].job = task[t].job /\ task'[t].bucket = task[t].bucket /\ task'[t].by = task[t].by
                                /\ task[t].done => task'[t].done
      /\ task' \in Seq(Made)
    <2>1. task \in Seq(Made) /\ task' = [task EXCEPT ![i].done = TRUE]
        BY DEF EndTask, TypeOK
    <2> HIDE DEF i
    <2> QED BY <2>1, Ended
<1>2. worker' = [worker EXCEPT ![w].task = 0] /\ UNCHANGED <<now, queue>>
    BY DEF EndTask
<1>4. TypeOK'
    BY <1>1, <1>2 DEF TypeOK
<1>5. \A v \in Workers : worker'[v].turn = worker[v].turn /\ worker'[v].next = worker[v].next /\ worker'[v].seen = worker[v].seen
                         /\ worker'[v].starts = worker[v].starts /\ worker'[v].alive = worker[v].alive
    BY <1>2 DEF TypeOK
<1>6. DueWhenSeen'
    BY <1>5 DEF DueWhenSeen
<1>7. Ahead'
    BY <1>1, <1>5 DEF Ahead, Bucket
<1>8. JobsOnce'
    BY <1>1 DEF JobsOnce, OncePerBucket, NoTwins
<1> QED BY <1>4, <1>6, <1>7, <1>8

\* The schedule keeps its invariant.
LEMMA ScheduleStep == ScheduleInv /\ [Next]_vars => ScheduleInv'
<1> SUFFICES ASSUME ScheduleInv, [Next]_vars PROVE ScheduleInv'
    OBVIOUS
<1> USE DEF ScheduleInv
<1>1. CASE UNCHANGED vars
    BY <1>1 DEF vars, TypeOK, DueWhenSeen, Ahead, Bucket, JobsOnce, OncePerBucket, NoTwins
<1>2. CASE Tick
    BY <1>2 DEF Tick, TypeOK, DueWhenSeen, Ahead, Bucket, JobsOnce, OncePerBucket, NoTwins
<1>3. ASSUME NEW w \in Workers, Start(w) PROVE ScheduleInv'
    <2>1. /\ worker' \in [Workers -> [alive : BOOLEAN, starts : Nat, next : [Jobs -> Nat], turn : SUBSET Jobs,
                                      seen : Nat, fresh : BOOLEAN, task : Nat]]
          /\ worker'[w].turn = {} /\ worker'[w].starts = worker[w].starts + 1 /\ worker[w].starts \in Nat
          /\ \A v \in Workers \ {w} : worker'[v] = worker[v]
        <3>1. worker[w].starts + 1 \in Nat /\ worker[w].starts \in Nat /\ [j \in Jobs |-> now] \in [Jobs -> Nat]
            BY DEF TypeOK
        <3> DEFINE due == [j \in Jobs |-> now]
                   begun == [Down EXCEPT !.alive = TRUE, !.starts = worker[w].starts + 1, !.next = due]
        <3>2. Down \in [alive : BOOLEAN, starts : Nat, next : [Jobs -> Nat], turn : SUBSET Jobs,
                        seen : Nat, fresh : BOOLEAN, task : Nat] /\ Down.turn = {}
            BY DEF Down
        <3>3. /\ begun \in [alive : BOOLEAN, starts : Nat, next : [Jobs -> Nat], turn : SUBSET Jobs,
                          seen : Nat, fresh : BOOLEAN, task : Nat]
              /\ begun.turn = {} /\ begun.starts = worker[w].starts + 1
            <4> HIDE DEF due
            <4> QED BY <3>1, <3>2 DEF due
        <3>4. worker' = [worker EXCEPT ![w] = begun]
            BY <1>3 DEF Start
        <3> HIDE DEF begun
        <3> QED BY <3>1, <3>3, <3>4 DEF TypeOK
    <2>2. TypeOK' /\ DueWhenSeen'
        BY <1>3, <2>1 DEF Start, TypeOK, DueWhenSeen
    <2>3. \A t \in DOMAIN task : task[t].by[2] \in Nat
        BY Stamped DEF TypeOK
    <2>4. Ahead'
        BY <1>3, <2>1, <2>3 DEF Start, Ahead, Bucket
    <2>5. JobsOnce'
        BY <1>3 DEF Start, JobsOnce, OncePerBucket, NoTwins
    <2> QED BY <2>2, <2>4, <2>5
<1>4. ASSUME NEW w \in Workers, Pass(w) PROVE ScheduleInv'
    <2>1. /\ worker' \in [Workers -> [alive : BOOLEAN, starts : Nat, next : [Jobs -> Nat], turn : SUBSET Jobs,
                                      seen : Nat, fresh : BOOLEAN, task : Nat]]
          /\ worker'[w].turn = {j \in Jobs : now >= worker[w].next[j]} /\ worker'[w].seen = now
          /\ \A v \in Workers : worker'[v].next = worker[v].next /\ worker'[v].starts = worker[v].starts
                                /\ worker'[v].alive = worker[v].alive
          /\ \A v \in Workers \ {w} : worker'[v] = worker[v]
          /\ UNCHANGED <<now, task, queue>>
        BY <1>4 DEF Pass, TypeOK
    <2>2. TypeOK'
        BY <2>1 DEF TypeOK
    <2>3. DueWhenSeen'
        <3> SUFFICES ASSUME NEW v \in Workers, NEW j \in worker'[v].turn PROVE worker'[v].next[j] <= worker'[v].seen
            BY DEF DueWhenSeen
        <3>1. CASE v = w
            BY <2>1, <3>1 DEF TypeOK
        <3>2. CASE v # w
            BY <2>1, <3>2 DEF DueWhenSeen
        <3> QED BY <3>1, <3>2
    <2>5. Ahead'
        BY <2>1 DEF Ahead, Bucket
    <2>4. JobsOnce'
        BY <1>4 DEF Pass, JobsOnce, OncePerBucket, NoTwins
    <2> QED BY <2>2, <2>3, <2>4, <2>5
<1>5. ASSUME NEW w \in Workers, Take(w) PROVE ScheduleInv'
    <2>1. Head(queue) \in Nat /\ Tail(queue) \in Seq(Nat)
        BY <1>5 DEF Take, TypeOK
    <2>2. /\ worker' \in [Workers -> [alive : BOOLEAN, starts : Nat, next : [Jobs -> Nat], turn : SUBSET Jobs,
                                      seen : Nat, fresh : BOOLEAN, task : Nat]]
          /\ \A v \in Workers : worker'[v].next = worker[v].next /\ worker'[v].starts = worker[v].starts
                                /\ worker'[v].alive = worker[v].alive /\ worker'[v].turn = worker[v].turn
                                /\ worker'[v].seen = worker[v].seen
        BY <1>5, <2>1 DEF Take, TypeOK
    <2>3. TypeOK' /\ DueWhenSeen'
        BY <1>5, <2>1, <2>2 DEF Take, TypeOK, DueWhenSeen
    <2>4. Ahead'
        BY <1>5, <2>2 DEF Take, Ahead, Bucket
    <2>5. JobsOnce'
        BY <1>5 DEF Take, JobsOnce, OncePerBucket, NoTwins
    <2> QED BY <2>3, <2>4, <2>5
<1>6. ASSUME NEW w \in Workers, Stop(w) PROVE ScheduleInv'
    <2>1. /\ worker' \in [Workers -> [alive : BOOLEAN, starts : Nat, next : [Jobs -> Nat], turn : SUBSET Jobs,
                                      seen : Nat, fresh : BOOLEAN, task : Nat]]
          /\ worker'[w].turn = {} /\ worker'[w].starts = worker[w].starts /\ ~worker'[w].alive
          /\ \A v \in Workers \ {w} : worker'[v] = worker[v]
        BY <1>6 DEF Stop, Down, TypeOK
    <2>2. TypeOK' /\ DueWhenSeen'
        BY <1>6, <2>1 DEF Stop, TypeOK, DueWhenSeen
    <2>3. Ahead'
        BY <1>6, <2>1 DEF Stop, Ahead, Bucket
    <2>4. JobsOnce'
        BY <1>6 DEF Stop, JobsOnce, OncePerBucket, NoTwins
    <2> QED BY <2>2, <2>3, <2>4
<1> QED BY <1>1, <1>2, <1>3, <1>4, <1>5, <1>6, EnqueueStep, EndTaskStep DEF Next

\* The invariant holds throughout.
LEMMA Schedule == Spec => []ScheduleInv
<1>1. Init => ScheduleInv
    BY DEF Init, Down, ScheduleInv, TypeOK, DueWhenSeen, Ahead, JobsOnce, OncePerBucket, NoTwins
<1> QED BY <1>1, ScheduleStep, PTL DEF Spec

\* The clock, the workers, the tasks and the queue keep their shapes.
THEOREM TypeCorrect == Spec => []TypeOK
    BY Schedule, PTL DEF ScheduleInv

\* In every instance a worker enqueues a job once in a bucket per start, and no
\* two unfinished tasks hold one job and bucket.
THEOREM JobsAreOnce == Spec => []JobsOnce
    BY Schedule, PTL DEF ScheduleInv
-----------------------------------------------------------------------------
\* The cached indicators.  A payload that is alive is listed in an index that
\* lives at least as long, unless it is left out or its job is on the way.
Covered(s) == \/ s \in index.symbols /\ index.until >= cache[s].until
              \/ s \in torn \cup Index!OnTheWay
IndexInv == /\ today \in Nat
            /\ cache = [s \in Shares |-> cache[s]] /\ \A s \in Shares : cache[s].until \in Int
            /\ index \in [symbols : SUBSET Shares, until : Int]
            /\ job \in [Workers -> [step : {"idle", "symbols", "index"}, todo : SUBSET Shares,
                                    done : SUBSET Shares, read : SUBSET Shares]]
            /\ \A p \in Workers : job[p].step = "idle" => job[p].done = {}
            /\ \A s \in Shares : cache[s].until <= today + Life /\ (Index!Live(cache[s]) => Covered(s))

LEMMA IndexBegins == Index!Init => IndexInv
<1> SUFFICES ASSUME Index!Init PROVE IndexInv
    OBVIOUS
<1>1. /\ today = 1 /\ \A s \in Shares : cache[s] = [upto |-> 0, until |-> 0]
      /\ cache = [s \in Shares |-> cache[s]] /\ \A s \in Shares : cache[s].until \in Int
      /\ index \in [symbols : SUBSET Shares, until : Int]
    BY DEF Index!Init
<1>2. \A s \in Shares : ~Index!Live(cache[s]) /\ cache[s].until <= today + Life
    BY <1>1, IndexAssumption DEF Index!Live
<1>3. /\ Index!Idle \in [step : {"idle", "symbols", "index"}, todo : SUBSET Shares, done : SUBSET Shares, read : SUBSET Shares]
      /\ Index!Idle.done = {}
    BY DEF Index!Idle
<1>4. job = [p \in Workers |-> Index!Idle]
    BY DEF Index!Init
<1> QED BY <1>1, <1>2, <1>3, <1>4 DEF IndexInv

\* A job that goes on, and what it has done.
LEMMA JobMoves ==
    ASSUME IndexInv, NEW p \in Workers, NEW j, job' = [job EXCEPT ![p] = j],
           j \in [step : {"idle", "symbols", "index"}, todo : SUBSET Shares, done : SUBSET Shares, read : SUBSET Shares],
           j.step = "idle" => j.done = {}
    PROVE  /\ job' \in [Workers -> [step : {"idle", "symbols", "index"}, todo : SUBSET Shares,
                                    done : SUBSET Shares, read : SUBSET Shares]]
           /\ \A q \in Workers : job'[q].step = "idle" => job'[q].done = {}
           /\ \A s \in Index!OnTheWay : s \in Index!OnTheWay' \/ s \in job[p].done
           /\ j.done \subseteq Index!OnTheWay'
<1>1. job'[p] = j /\ \A q \in Workers \ {p} : job'[q] = job[q]
    BY DEF IndexInv
<1>2. ASSUME NEW s \in Index!OnTheWay PROVE s \in Index!OnTheWay' \/ s \in job[p].done
    BY <1>1 DEF Index!OnTheWay
<1>3. j.done \subseteq Index!OnTheWay'
    BY <1>1 DEF Index!OnTheWay
<1> QED BY <1>1, <1>2, <1>3 DEF IndexInv

LEMMA ComputeStays == ASSUME IndexInv, NEW p \in Workers, NEW s \in Shares, Index!Compute(p, s) PROVE IndexInv'
<1> DEFINE J == [step : {"idle", "symbols", "index"}, todo : SUBSET Shares, done : SUBSET Shares, read : SUBSET Shares]
<1>1. job[p] \in J /\ job[p].step = "symbols" /\ today' = today /\ index' = index
    BY DEF IndexInv, Index!Compute
<1>2. CASE Index!Ready(s)
  <2> DEFINE j == [job[p] EXCEPT !.todo = @ \ {s}, !.done = @ \cup {s}]
             entry == [upto |-> Index!Last(Index!Window(s)), until |-> today + Life]
  <2>1. j \in J /\ j.step = "symbols" /\ j.done = job[p].done \cup {s}
    BY <1>1
  <2>2. job' = [job EXCEPT ![p] = j] /\ torn' = torn \ {s} /\ cache' = [cache EXCEPT ![s] = entry]
    BY <1>2 DEF Index!Compute
  <2>3. /\ job' \in [Workers -> J] /\ \A q \in Workers : job'[q].step = "idle" => job'[q].done = {}
        /\ \A x \in Index!OnTheWay : x \in Index!OnTheWay'
        /\ s \in Index!OnTheWay'
    <3> HIDE DEF j
    <3> QED BY <2>1, <2>2, JobMoves
  <2>4. entry.until = today + Life /\ today + Life \in Int
    BY IndexAssumption DEF IndexInv
  <2> HIDE DEF entry
  <2>5. /\ cache'[s].until = today + Life /\ \A x \in Shares \ {s} : cache'[x] = cache[x]
        /\ cache' = [x \in Shares |-> cache'[x]] /\ \A x \in Shares : cache'[x].until \in Int
    BY <2>2, <2>4 DEF IndexInv
  <2>6. ASSUME NEW x \in Shares PROVE cache'[x].until <= today + Life /\ (cache'[x].until >= today => Covered(x)')
    <3>1. CASE x = s
        BY <2>3, <2>4, <2>5, <3>1 DEF Covered
    <3>2. CASE x # s
        BY <1>1, <2>2, <2>3, <2>5, <3>2 DEF IndexInv, Covered, Index!Live
    <3> QED BY <3>1, <3>2
  <2> QED BY <1>1, <2>3, <2>5, <2>6 DEF IndexInv, Index!Live
<1>3. CASE ~Index!Ready(s)
  <2> DEFINE j == [job[p] EXCEPT !.todo = @ \ {s}]
  <2>1. j \in J /\ j.step = "symbols" /\ j.done = job[p].done
    BY <1>1
  <2>2. job' = [job EXCEPT ![p] = j] /\ torn' = torn /\ cache' = cache
    BY <1>3 DEF Index!Compute
  <2>3. /\ job' \in [Workers -> J] /\ \A q \in Workers : job'[q].step = "idle" => job'[q].done = {}
        /\ \A x \in Index!OnTheWay : x \in Index!OnTheWay'
    <3> HIDE DEF j
    <3> QED BY <2>1, <2>2, JobMoves
  <2> QED BY <1>1, <2>2, <2>3 DEF IndexInv, Covered, Index!Live
<1> QED BY <1>2, <1>3

\* The index is written from the copy that was read: what came in between is left out.
LEMMA WriteIndexStays == ASSUME IndexInv, NEW p \in Workers, Index!WriteIndex(p) PROVE IndexInv'
<1> DEFINE J == [step : {"idle", "symbols", "index"}, todo : SUBSET Shares, done : SUBSET Shares, read : SUBSET Shares]
           listing == IF Index!Live(index) THEN index.symbols ELSE {}
           new == [symbols |-> job[p].read \cup job[p].done, until |-> today + Life]
<1>1. /\ job' = [job EXCEPT ![p] = Index!Idle] /\ Index!Idle \in J /\ Index!Idle.done = {}
      /\ UNCHANGED <<today, cache>> /\ torn' = torn \cup (listing \ job[p].read)
      /\ index' = new
    BY DEF Index!WriteIndex, Index!Idle
<1>2. /\ new.symbols = job[p].read \cup job[p].done /\ new.until = today + Life
      /\ new \in [symbols : SUBSET Shares, until : Int]
    BY IndexAssumption DEF IndexInv
<1> HIDE DEF new
<1>3. /\ job' \in [Workers -> J] /\ \A q \in Workers : job'[q].step = "idle" => job'[q].done = {}
      /\ \A x \in Index!OnTheWay : x \in Index!OnTheWay' \/ x \in job[p].done
    BY <1>1, JobMoves
<1>4. ASSUME NEW s \in Shares, cache[s].until >= today PROVE Covered(s)'
  <2>1. Covered(s) /\ cache[s].until <= today + Life
    BY <1>4 DEF IndexInv, Index!Live
  <2>2. CASE s \in torn
    BY <1>1, <2>2 DEF Covered
  <2>3. CASE s \in Index!OnTheWay
    BY <1>1, <1>2, <1>3, <2>1, <2>3 DEF Covered
  <2>4. CASE s \in index.symbols /\ index.until >= cache[s].until
    <3>1. s \in listing
        BY <1>4, <2>4 DEF Index!Live, IndexInv
    <3> QED BY <1>1, <1>2, <2>1, <3>1 DEF Covered
  <2> QED BY <2>1, <2>2, <2>3, <2>4 DEF Covered
<1> QED BY <1>1, <1>2, <1>3, <1>4 DEF IndexInv, Index!Live

LEMMA IndexStays == IndexInv /\ [Index!Next]_<<today, indexVars>> => IndexInv'
<1> SUFFICES ASSUME IndexInv, [Index!Next]_<<today, indexVars>> PROVE IndexInv'
    OBVIOUS
<1> DEFINE J == [step : {"idle", "symbols", "index"}, todo : SUBSET Shares, done : SUBSET Shares, read : SUBSET Shares]
<1>0. Index!Idle \in J /\ Index!Idle.done = {}
    BY DEF Index!Idle
<1>1. CASE UNCHANGED <<today, indexVars>> \/ \E s \in Shares : Index!Sync(s)
  <2>1. UNCHANGED <<today, cache, index, job, torn>>
    BY <1>1 DEF indexVars, Index!Sync
  <2> QED BY <2>1 DEF IndexInv, Covered, Index!OnTheWay, Index!Live
<1>2. CASE Index!NextDay
  <2>1. UNCHANGED <<cache, index, job, torn>> /\ today' = today + 1 /\ today \in Nat
    BY <1>2 DEF Index!NextDay, IndexInv
  <2>2. ASSUME NEW s \in Shares PROVE cache[s].until <= today' + Life /\ (cache[s].until >= today' => Covered(s)')
    BY <2>1, IndexAssumption DEF IndexInv, Covered, Index!OnTheWay, Index!Live
  <2> QED BY <2>1, <2>2 DEF IndexInv, Index!Live
\* Steps that only move a job on, without losing what it has done.
<1>3. ASSUME NEW p \in Workers, NEW j \in J, job' = [job EXCEPT ![p] = j], j.step = "idle" => j.done = {},
             UNCHANGED <<today, cache, index>>, torn \subseteq torn', job[p].done \subseteq torn' \cup j.done
      PROVE  IndexInv'
  <2>1. /\ job' \in [Workers -> J] /\ \A q \in Workers : job'[q].step = "idle" => job'[q].done = {}
        /\ \A x \in Index!OnTheWay : x \in Index!OnTheWay' \/ x \in job[p].done
        /\ j.done \subseteq Index!OnTheWay'
    BY <1>3, JobMoves
  <2>2. ASSUME NEW s \in Shares, Covered(s) PROVE Covered(s)'
    BY <1>3, <2>1, <2>2 DEF Covered
  <2> QED BY <1>3, <2>1, <2>2 DEF IndexInv, Index!Live
<1>4. ASSUME NEW p \in Workers, NEW symbols \in SUBSET Shares, Index!Begin(p, symbols) PROVE IndexInv'
  <2> DEFINE j == [Index!Idle EXCEPT !.step = "symbols", !.todo = symbols]
  <2>1. j \in J /\ j.step = "symbols"
    BY <1>0
  <2>2. /\ job' = [job EXCEPT ![p] = j] /\ UNCHANGED <<today, cache, index, torn>> /\ job[p].done = {}
    BY <1>4 DEF Index!Begin, IndexInv
  <2> HIDE DEF j
  <2> QED BY <1>3, <2>1, <2>2
<1>5. ASSUME NEW p \in Workers, Index!ReadIndex(p) PROVE IndexInv'
  <2> DEFINE listing == IF Index!Live(index) THEN index.symbols ELSE {}
             j == [job[p] EXCEPT !.step = "index", !.read = listing]
  <2>1. job[p] \in J /\ listing \in SUBSET Shares
    BY DEF IndexInv
  <2>2. job' = [job EXCEPT ![p] = j] /\ UNCHANGED <<today, cache, index, torn>>
    BY <1>5 DEF Index!ReadIndex
  <2> HIDE DEF listing
  <2>3. j \in J /\ j.step = "index" /\ j.done = job[p].done
    BY <2>1
  <2> HIDE DEF j
  <2> QED BY <1>3, <2>2, <2>3
<1>6. ASSUME NEW p \in Workers, Index!Die(p) PROVE IndexInv'
  <2>1. /\ job' = [job EXCEPT ![p] = Index!Idle] /\ UNCHANGED <<today, cache, index>>
        /\ torn' = torn \cup job[p].done
    BY <1>6 DEF Index!Die
  <2> QED BY <1>0, <1>3, <2>1
<1> QED BY <1>1, <1>2, <1>4, <1>5, <1>6, ComputeStays, WriteIndexStays DEF Index!Next
-----------------------------------------------------------------------------
\* Division by the slots of a day: it is the only way to write a number as whole
\* days and a slot, and grows with the number.
LEMMA Parts == ASSUME NEW S \in Nat \ {0}, NEW a \in Nat
               PROVE  a = (a \div S) * S + (a % S) /\ a \div S \in Nat /\ a % S \in 0..(S - 1)
    BY SMTT(20)
LEMMA QuotientGrows == ASSUME NEW S \in Nat \ {0}, NEW a \in Nat, NEW b \in Nat, a <= b PROVE a \div S <= b \div S
    BY SMTT(20)
LEMMA Multiples == ASSUME NEW S \in Nat \ {0}, NEW k \in Nat, NEW m \in Nat
                   PROVE  k * S \in Nat /\ (k + 1) * S = k * S + S /\ (k < m => k * S + S <= m * S)
    BY SMTT(20)
LEMMA OnlyParts == ASSUME NEW S \in Nat \ {0}, NEW k \in Nat, NEW j \in 0..(S - 1)
                   PROVE  (k * S + j) \div S = k /\ (k * S + j) % S = j
<1> DEFINE a == k * S + j
           m == a \div S
           i == a % S
<1>1. a \in Nat
    BY Multiples
<1>2. a = m * S + i /\ m \in Nat /\ i \in 0..(S - 1)
    BY <1>1, Parts
<1> HIDE DEF m, i
<1>3. ~(k < m) /\ ~(m < k)
    BY <1>2, Multiples
<1>4. k = m
    BY <1>2, <1>3
<1>5. i = j
    BY <1>2, <1>4, Multiples
<1> QED BY <1>4, <1>5 DEF m, i

\* The least and the greatest of a bounded set of numbers.
LEMMA LeastIsThere == ASSUME NEW S, S \subseteq Nat, S # {} PROVE \E x \in S : \A y \in S : x <= y
<1>1. PICK x \in S : \A y \in S : ~(<<y, x>> \in OpToRel(<, Nat))
    BY NatLessThanWellFounded, WFMin
<1>2. \A y \in S : ~(y < x)
    BY <1>1 DEF OpToRel
<1> QED BY <1>2
LEMMA GreatestIsThere == ASSUME NEW S, S \subseteq Nat, S # {}, NEW b \in Nat, \A x \in S : x <= b
                         PROVE  \E x \in S : \A y \in S : x >= y
<1>1. {b - x : x \in S} \subseteq Nat /\ {b - x : x \in S} # {}
  <2>1. \A x \in S : x \in Nat /\ b - x \in Nat
    OBVIOUS
  <2>2. PICK x \in S : TRUE
    OBVIOUS
  <2>3. b - x \in {b - y : y \in S}
    OBVIOUS
  <2> QED BY <2>1, <2>3
<1>2. PICK m \in {b - x : x \in S} : \A y \in {b - x : x \in S} : m <= y
    BY <1>1, LeastIsThere
<1>3. PICK x \in S : m = b - x
    BY <1>2
<1>4. ASSUME NEW y \in S PROVE x >= y
  <2>1. b - x <= b - y
    BY <1>2, <1>3
  <2> QED BY <2>1
<1> QED BY <1>4

-----------------------------------------------------------------------------
\* The snapshots.  A task that was let through was started in the window of its
\* date; a row of the table is that of an auction task that is done.
TaskShape == [kind : {"none", "auction", "quotes"}, step : {"none", "queued", "skipped", "asking", "writing", "done", "failed"},
              date : Nat, force : BOOLEAN, took : Nat, due : Nat]
LetThrough(t) == taken[t].kind = "auction" /\ ~taken[t].force /\ taken[t].step \in {"asking", "writing", "done"}
Timely(t) == /\ Snaps!SlotOf(taken[t].due) = Opening /\ Snaps!DayOf(taken[t].due) = taken[t].date
             /\ taken[t].date \notin Weekend
SnapInv == /\ day \in Nat \ {0} /\ slot \in 1..Slots
           /\ taken \in [SnapTasks -> TaskShape]
           /\ \A t \in SnapTasks : /\ taken[t].kind = "none" => taken[t].step = "none"
                                   /\ taken[t].date <= day /\ taken[t].took <= Snaps!Now
                                   /\ taken[t].step \in {"writing", "done"} => taken[t].took # 0
                                   /\ LetThrough(t) => Timely(t)
           /\ \A r \in auction : \E t \in SnapTasks : /\ taken[t].kind = "auction" /\ taken[t].step = "done"
                                                      /\ Snaps!Row(t) = r

LEMMA SnapBegins == Snaps!Init => SnapInv
<1> SUFFICES ASSUME Snaps!Init PROVE SnapInv
    OBVIOUS
<1>1. Snaps!NoTask \in TaskShape /\ Snaps!NoTask.kind = "none" /\ Snaps!NoTask.step = "none"
      /\ Snaps!NoTask.date = 0 /\ Snaps!NoTask.took = 0
    BY DEF Snaps!NoTask, TaskShape
<1>2. day = 1 /\ slot = 1 /\ auction = {} /\ taken = [t \in SnapTasks |-> Snaps!NoTask] /\ slot \in 1..Slots
    BY SnapAssumption DEF Snaps!Init
<1>3. Snaps!Now \in Nat
    BY <1>2, SnapAssumption DEF Snaps!Now
<1> QED BY <1>1, <1>2, <1>3 DEF SnapInv, LetThrough

\* The time is a number from which day and slot can be told, and never goes back.
LEMMA TimeParts == ASSUME SnapInv PROVE Snaps!Now \in Nat \ {0} /\ Snaps!SlotOf(Snaps!Now) = slot /\ Snaps!DayOf(Snaps!Now) = day
<1>1. day - 1 \in Nat /\ slot - 1 \in 0..(Slots - 1) /\ Slots \in Nat \ {0}
    BY SnapAssumption DEF SnapInv
<1> DEFINE m == day - 1
           j == slot - 1
<1>2. m \in Nat /\ j \in 0..(Slots - 1)
    BY <1>1
<1>3. (m * Slots + j) \div Slots = m /\ (m * Slots + j) % Slots = j /\ m * Slots \in Nat
    <2> HIDE DEF m, j
    <2> QED BY <1>1, <1>2, OnlyParts, Multiples
<1> DEFINE P == m * Slots
<1>4. Snaps!Now = P + slot
    BY DEF Snaps!Now
<1>5. P \in Nat /\ (P + j) \div Slots = m /\ (P + j) % Slots = j
    BY <1>3
<1> HIDE DEF P
<1>6. slot = j + 1 /\ j \in Nat
    BY <1>1, SnapAssumption DEF SnapInv
<1>7. Snaps!Now - 1 = P + j /\ Snaps!Now \in Nat \ {0}
  <2> HIDE DEF j
  <2> QED BY <1>4, <1>5, <1>6
<1>8. (Snaps!Now - 1) \div Slots = m /\ (Snaps!Now - 1) % Slots = j
    BY <1>5, <1>7
<1> QED BY <1>1, <1>7, <1>8 DEF Snaps!SlotOf, Snaps!DayOf, SnapInv

LEMMA TimeGoesOn == ASSUME SnapInv, Snaps!Tick PROVE Snaps!Now <= Snaps!Now' /\ Snaps!Now' \in Nat
<1>1. day - 1 \in Nat /\ slot \in 1..Slots /\ Slots \in Nat \ {0} /\ day \in Nat
    BY SnapAssumption DEF SnapInv
<1>2. (day - 1) * Slots \in Nat /\ ((day - 1) + 1) * Slots = (day - 1) * Slots + Slots
    BY <1>1, Multiples
<1>3. ((day - 1) + 1) * Slots = day * Slots
    BY <1>1
<1>4. CASE slot' = slot + 1 /\ day' = day
    BY <1>1, <1>2, <1>4 DEF Snaps!Now
<1>5. CASE day' = day + 1 /\ slot' = 1
  <2>1. Snaps!Now' = day * Slots + 1
    BY <1>1, <1>5 DEF Snaps!Now
  <2> QED BY <1>1, <1>2, <1>3, <2>1 DEF Snaps!Now
<1> QED BY <1>4, <1>5 DEF Snaps!Tick

\* A step of one task, which is not done yet, to a state that is right for it.
LEMMA TaskMoves ==
    ASSUME SnapInv, NEW t \in SnapTasks, NEW n \in TaskShape, taken' = [taken EXCEPT ![t] = n],
           UNCHANGED <<day, slot>>, taken[t].step # "done",
           n.kind = "none" => n.step = "none", n.date <= day, n.took <= Snaps!Now,
           n.step \in {"writing", "done"} => n.took # 0,
           n.kind = "auction" /\ ~n.force /\ n.step \in {"asking", "writing", "done"} =>
               Snaps!SlotOf(n.due) = Opening /\ Snaps!DayOf(n.due) = n.date /\ n.date \notin Weekend,
           \/ auction' = auction
           \/ auction' = auction \cup {[date |-> n.date, took |-> n.took]} /\ n.kind = "auction" /\ n.step = "done"
    PROVE  SnapInv'
<1>1. taken'[t] = n /\ \A u \in SnapTasks \ {t} : taken'[u] = taken[u]
    BY DEF SnapInv
<1>2. taken' \in [SnapTasks -> TaskShape]
    BY DEF SnapInv
<1>3. Snaps!Now' = Snaps!Now
    BY DEF Snaps!Now
<1>4. ASSUME NEW u \in SnapTasks
      PROVE  /\ taken'[u].kind = "none" => taken'[u].step = "none"
             /\ taken'[u].date <= day' /\ taken'[u].took <= Snaps!Now'
             /\ taken'[u].step \in {"writing", "done"} => taken'[u].took # 0
             /\ LetThrough(u)' => Timely(u)'
  <2>1. CASE u = t
    BY <1>1, <1>3, <2>1 DEF LetThrough, Timely, Snaps!SlotOf, Snaps!DayOf
  <2>2. CASE u # t
    BY <1>1, <1>3, <2>2 DEF SnapInv, LetThrough, Timely, Snaps!SlotOf, Snaps!DayOf
  <2> QED BY <2>1, <2>2
<1>5. ASSUME NEW r \in auction'
      PROVE  \E u \in SnapTasks : taken'[u].kind = "auction" /\ taken'[u].step = "done" /\ Snaps!Row(u)' = r
  <2>1. CASE r \in auction
    <3>1. PICK u \in SnapTasks : taken[u].kind = "auction" /\ taken[u].step = "done" /\ Snaps!Row(u) = r
        BY <2>1 DEF SnapInv
    <3>2. taken'[u] = taken[u]
        BY <1>1, <3>1
    <3> QED BY <3>1, <3>2 DEF Snaps!Row
  <2>2. CASE r \notin auction
    BY <1>1, <1>5, <2>2 DEF Snaps!Row
  <2> QED BY <2>1, <2>2
<1> QED BY <1>2, <1>4, <1>5 DEF SnapInv

LEMMA SnapStays == SnapInv /\ [Snaps!Next]_snapVars => SnapInv'
<1> SUFFICES ASSUME SnapInv, [Snaps!Next]_snapVars PROVE SnapInv'
    OBVIOUS
<1>n. Snaps!Now \in Nat \ {0} /\ day \in Nat \ {0}
    BY TimeParts DEF SnapInv
<1>none. Snaps!NoTask \in TaskShape /\ Snaps!NoTask.date = 0 /\ Snaps!NoTask.took = 0
    BY DEF Snaps!NoTask, TaskShape
<1>1. CASE UNCHANGED snapVars
    BY <1>1 DEF snapVars, SnapInv, LetThrough, Timely, Snaps!SlotOf, Snaps!DayOf, Snaps!Row, Snaps!Now
<1>2. CASE Snaps!Tick
  <2>1. UNCHANGED <<taken, auction>> /\ day <= day' /\ day' \in Nat \ {0} /\ slot' \in 1..Slots
    BY <1>2, SnapAssumption DEF Snaps!Tick, SnapInv
  <2>2. Snaps!Now <= Snaps!Now' /\ Snaps!Now' \in Nat
    BY <1>2, TimeGoesOn
  <2>3. ASSUME NEW t \in SnapTasks
        PROVE  /\ taken[t].kind = "none" => taken[t].step = "none"
               /\ taken[t].date <= day' /\ taken[t].took <= Snaps!Now'
               /\ taken[t].step \in {"writing", "done"} => taken[t].took # 0
               /\ LetThrough(t) => Timely(t)
    <3>1. taken[t].date \in Nat /\ taken[t].took \in Nat /\ taken[t].date <= day /\ taken[t].took <= Snaps!Now
        BY DEF SnapInv, TaskShape
    <3> QED BY <1>n, <2>1, <2>2, <3>1 DEF SnapInv
  <2>4. ASSUME NEW t \in SnapTasks PROVE (LetThrough(t)' <=> LetThrough(t)) /\ (Timely(t)' <=> Timely(t)) /\ Snaps!Row(t)' = Snaps!Row(t)
    BY <2>1 DEF LetThrough, Timely, Snaps!SlotOf, Snaps!DayOf, Snaps!Row
  <2> QED BY <2>1, <2>3, <2>4 DEF SnapInv
<1>3. ASSUME NEW t \in SnapTasks, NEW date \in {day - 1, day} \ {0}, NEW force \in BOOLEAN, Snaps!EnqueueAuction(t, date, force)
      PROVE  SnapInv'
  <2> DEFINE n == [Snaps!NoTask EXCEPT !.kind = "auction", !.step = "queued", !.date = date, !.force = force]
  <2>0. date \in Nat /\ date <= day /\ 0 <= Snaps!Now
    BY <1>n
  <2>1. n \in TaskShape /\ n.kind = "auction" /\ n.step = "queued" /\ n.date = date /\ n.took = 0
    BY <1>none, <2>0 DEF TaskShape
  <2>2. /\ taken[t].kind = "none" /\ taken' = [taken EXCEPT ![t] = n] /\ UNCHANGED <<day, slot, auction>>
    BY <1>3 DEF Snaps!EnqueueAuction
  <2>3. taken[t].step # "done"
    BY <2>2 DEF SnapInv
  <2> HIDE DEF n
  <2>4. n.date <= day /\ n.took <= Snaps!Now /\ n.kind # "none" /\ n.step \notin {"asking", "writing", "done"}
    BY <2>0, <2>1
  <2> QED BY <2>1, <2>2, <2>3, <2>4, TaskMoves
<1>4. ASSUME NEW t \in SnapTasks, Snaps!EnqueueQuotes(t) PROVE SnapInv'
  <2> DEFINE n == [Snaps!NoTask EXCEPT !.kind = "quotes", !.step = "queued"]
  <2>0. 0 <= day /\ 0 <= Snaps!Now
    BY <1>n
  <2>1. n \in TaskShape /\ n.kind = "quotes" /\ n.step = "queued" /\ n.date = 0 /\ n.took = 0
    BY <1>none DEF TaskShape
  <2>2. /\ taken[t].kind = "none" /\ taken' = [taken EXCEPT ![t] = n] /\ UNCHANGED <<day, slot, auction>>
    BY <1>4 DEF Snaps!EnqueueQuotes
  <2>3. taken[t].step # "done"
    BY <2>2 DEF SnapInv
  <2> HIDE DEF n
  <2>4. n.date <= day /\ n.took <= Snaps!Now /\ n.kind # "none" /\ n.step \notin {"asking", "writing", "done"}
    BY <2>0, <2>1
  <2> QED BY <2>1, <2>2, <2>3, <2>4, TaskMoves
<1>5. ASSUME NEW t \in SnapTasks, Snaps!Start(t) PROVE SnapInv'
  <2> DEFINE go == taken[t].kind = "quotes" \/ taken[t].force \/ Snaps!Allowed(taken[t].date)
             now_ == Snaps!Now
             n == [taken[t] EXCEPT !.step = IF go THEN "asking" ELSE "skipped", !.due = now_]
  <2>1. taken[t] \in TaskShape /\ taken[t].step = "queued" /\ now_ \in Nat
    BY <1>5, <1>n DEF Snaps!Start, SnapInv
  <2>2. /\ taken' = [taken EXCEPT ![t] = n] /\ UNCHANGED <<day, slot, auction>>
    BY <1>5 DEF Snaps!Start
  <2>3. go /\ taken[t].kind = "auction" /\ ~taken[t].force => /\ Snaps!SlotOf(now_) = Opening /\ Snaps!DayOf(now_) = taken[t].date
                                                             /\ taken[t].date \notin Weekend
    BY TimeParts DEF Snaps!Allowed
  <2> HIDE DEF now_, go
  <2>4. /\ n \in TaskShape /\ n.kind = taken[t].kind /\ n.force = taken[t].force /\ n.date = taken[t].date
        /\ n.took = taken[t].took /\ n.due = now_ /\ n.step = IF go THEN "asking" ELSE "skipped"
    BY <2>1 DEF TaskShape
  <2> HIDE DEF n
  <2>5. n.kind = "none" => n.step = "none"
    BY <2>1, <2>4 DEF SnapInv
  <2>6. n.date <= day /\ n.took <= Snaps!Now
    BY <2>4 DEF SnapInv
  <2> QED BY <2>1, <2>2, <2>3, <2>4, <2>5, <2>6, TaskMoves
<1>6. ASSUME NEW t \in SnapTasks, Snaps!Answer(t) PROVE SnapInv'
  <2> DEFINE now_ == Snaps!Now
             n == [taken[t] EXCEPT !.step = "writing", !.took = now_]
  <2>1. taken[t] \in TaskShape /\ taken[t].step = "asking" /\ now_ \in Nat \ {0}
    BY <1>6, <1>n DEF Snaps!Answer, SnapInv
  <2>2. /\ taken' = [taken EXCEPT ![t] = n] /\ UNCHANGED <<day, slot, auction>>
    BY <1>6 DEF Snaps!Answer
  <2>3. now_ = Snaps!Now
    OBVIOUS
  <2> HIDE DEF now_
  <2>4. /\ n \in TaskShape /\ n.kind = taken[t].kind /\ n.force = taken[t].force /\ n.date = taken[t].date
        /\ n.took = now_ /\ n.due = taken[t].due /\ n.step = "writing"
    BY <2>1 DEF TaskShape
  <2>5. /\ n.kind # "none" /\ n.date <= day /\ n.took <= Snaps!Now
        /\ LetThrough(t) => Timely(t)
    BY <2>1, <2>3, <2>4 DEF SnapInv
  <2> HIDE DEF n
  <2> QED BY <2>1, <2>2, <2>4, <2>5, TaskMoves DEF LetThrough, Timely
<1>7. ASSUME NEW t \in SnapTasks, Snaps!Write(t) \/ Snaps!Drop(t) PROVE SnapInv'
  <2> DEFINE n == [taken[t] EXCEPT !.step = IF Snaps!Write(t) THEN "done" ELSE "failed"]
  <2>1. taken[t] \in TaskShape /\ taken[t].step \in {"asking", "writing"}
    BY <1>7 DEF Snaps!Write, Snaps!Drop, SnapInv
  <2>2. /\ taken' = [taken EXCEPT ![t] = n] /\ UNCHANGED <<day, slot>>
        /\ \/ auction' = auction
           \/ auction' = auction \cup {Snaps!Row(t)} /\ Snaps!Write(t) /\ taken[t].kind = "auction"
    BY <1>7 DEF Snaps!Write, Snaps!Drop
  <2>3. Snaps!Write(t) => taken[t].step = "writing"
    BY DEF Snaps!Write
  <2>4. /\ n \in TaskShape /\ n.kind = taken[t].kind /\ n.force = taken[t].force /\ n.date = taken[t].date
        /\ n.took = taken[t].took /\ n.due = taken[t].due /\ n.step = IF Snaps!Write(t) THEN "done" ELSE "failed"
    BY <2>1 DEF TaskShape
  <2>5. /\ n.kind # "none" /\ n.date <= day /\ n.took <= Snaps!Now
        /\ LetThrough(t) => Timely(t)
        /\ n.step = "done" => n.took # 0
        /\ Snaps!Row(t) = [date |-> n.date, took |-> n.took]
    BY <2>1, <2>3, <2>4 DEF SnapInv, Snaps!Row
  <2> HIDE DEF n
  <2> QED BY <2>1, <2>2, <2>3, <2>4, <2>5, TaskMoves DEF LetThrough, Timely
<1> QED BY <1>1, <1>2, <1>3, <1>4, <1>5, <1>6, <1>7 DEF Snaps!Next

\* What the invariant says of the rows, and of the latest one.
LEMMA SnapRows == SnapInv => Snaps!RowsFromWindow
<1> SUFFICES ASSUME SnapInv, NEW r \in auction
             PROVE  \/ \E t \in Snaps!Forced : taken[t].step = "done" /\ Snaps!Row(t) = r
                    \/ \E t \in SnapTasks : /\ taken[t].step = "done" /\ Snaps!Row(t) = r /\ ~taken[t].force
                                           /\ Snaps!SlotOf(taken[t].due) = Opening /\ Snaps!DayOf(taken[t].due) = r.date
                                           /\ r.date \notin Weekend
    BY DEF Snaps!RowsFromWindow
<1>1. PICK t \in SnapTasks : taken[t].kind = "auction" /\ taken[t].step = "done" /\ Snaps!Row(t) = r
    BY DEF SnapInv
<1>2. CASE taken[t].force
  <2>1. t \in Snaps!Forced
    BY <1>1, <1>2 DEF Snaps!Forced
  <2> QED BY <1>1, <2>1
<1>3. CASE ~taken[t].force
  <2>1. Timely(t) /\ r.date = taken[t].date
    BY <1>1, <1>3 DEF SnapInv, LetThrough, Snaps!Row
  <2> QED BY <1>1, <1>3, <2>1 DEF Timely
<1> QED BY <1>2, <1>3

LEMMA SnapLatest == SnapInv => Snaps!LatestIsNewest
<1> SUFFICES ASSUME SnapInv, Snaps!Forced = {}, Snaps!SameDay, NEW r \in auction PROVE r.took <= Snaps!LatestAuction
    BY DEF Snaps!LatestIsNewest
<1>n. Snaps!Now \in Nat /\ day \in Nat
    BY TimeParts DEF SnapInv
<1>1. ASSUME NEW x \in auction
      PROVE  /\ x.date \in Nat /\ x.date <= day /\ x.took \in Nat \ {0} /\ x.took <= Snaps!Now
             /\ x.date = Snaps!DayOf(x.took)
  <2>1. PICK t \in SnapTasks : taken[t].kind = "auction" /\ taken[t].step = "done" /\ Snaps!Row(t) = x
    BY DEF SnapInv
  <2>2. x.date = taken[t].date /\ x.took = taken[t].took
    BY <2>1 DEF Snaps!Row
  <2>3. ~taken[t].force
    BY <2>1 DEF Snaps!Forced
  <2>4. Snaps!DayOf(taken[t].due) = taken[t].date
    BY <2>1, <2>3 DEF SnapInv, LetThrough, Timely
  <2>5. Snaps!DayOf(taken[t].due) = Snaps!DayOf(taken[t].took)
    BY <2>1 DEF Snaps!SameDay
  <2> QED BY <2>1, <2>2, <2>4, <2>5 DEF SnapInv, TaskShape
<1> DEFINE kept == {x.date : x \in auction}
           last == Snaps!Max(kept)
           times == {x.took : x \in {y \in auction : y.date = last}}
<1>2. last \in kept /\ \A d \in kept : d <= last
  <2>1. kept \subseteq Nat /\ kept # {} /\ \A d \in kept : d <= day
    BY <1>1
  <2> HIDE DEF kept
  <2> QED BY <1>n, <2>1, GreatestIsThere DEF Snaps!Max
<1>3. PICK z \in auction : z.date = last
    BY <1>2
<1>4. Snaps!Max(times) \in times /\ \A n \in times : n <= Snaps!Max(times)
  <2>1. times \subseteq Nat /\ times # {} /\ \A n \in times : n <= Snaps!Now
    BY <1>1, <1>3
  <2> HIDE DEF times
  <2> QED BY <1>n, <2>1, GreatestIsThere DEF Snaps!Max
<1>5. Snaps!LatestAuction = Snaps!Max(times)
    BY DEF Snaps!LatestAuction
<1>6. Snaps!Max(times) \in Nat /\ z.took <= Snaps!Max(times)
    BY <1>1, <1>3, <1>4
<1>7. CASE r.date = last
    BY <1>4, <1>5, <1>7
<1>8. CASE r.date # last
  <2>1. r.date < z.date
    BY <1>1, <1>2, <1>3, <1>8
  <2>2. ~(z.took <= r.took)
    <3>1. ASSUME z.took <= r.took PROVE (z.took - 1) \div Slots <= (r.took - 1) \div Slots
      <4>1. z.took - 1 \in Nat /\ r.took - 1 \in Nat /\ z.took - 1 <= r.took - 1
        BY <1>1, <3>1
      <4> QED BY <4>1, QuotientGrows, SnapAssumption
    <3>2. /\ (z.took - 1) \div Slots \in Nat /\ (r.took - 1) \div Slots \in Nat
          /\ z.date = (z.took - 1) \div Slots + 1 /\ r.date = (r.took - 1) \div Slots + 1
      <4>1. z.took - 1 \in Nat /\ r.took - 1 \in Nat
        BY <1>1
      <4> QED BY <1>1, <4>1, Parts, SnapAssumption DEF Snaps!DayOf
    <3> QED BY <2>1, <3>1, <3>2
  <2> QED BY <1>1, <1>3, <1>5, <1>6, <2>2
<1> QED BY <1>7, <1>8
-----------------------------------------------------------------------------
\* The stocks table: what a stock list wrote stands until the warning changes.
MasterInv == /\ calendar \in Calendars
             /\ stock \in [Securities -> [known : BOOLEAN, risk : BOOLEAN, listed : Nat]]
             /\ named \subseteq Securities
             /\ \A s \in named : stock[s].risk = (s \in warned)

LEMMA MasterBegins == Master!Init => MasterInv
BY DEF Master!Init, Master!NoRow, MasterInv

LEMMA MasterStays == MasterInv /\ [Master!Next]_masterVars => MasterInv'
<1> SUFFICES ASSUME MasterInv, [Master!Next]_masterVars PROVE MasterInv'
    OBVIOUS
<1>1. CASE UNCHANGED masterVars
    BY <1>1 DEF masterVars, MasterInv
<1>2. ASSUME NEW s \in Securities, NEW d \in 0..MasterDays, Master!UpsertStockList(s, d) PROVE MasterInv'
  <2> DEFINE row == Master!PublicStock(s \in warned, d)
  <2>1. row \in [known : BOOLEAN, risk : BOOLEAN, listed : Nat] /\ row.risk = (s \in warned)
    BY DEF Master!PublicStock
  <2>2. stock' = [stock EXCEPT ![s] = row] /\ named' = named \cup {s} /\ UNCHANGED <<calendar, warned>>
    BY <1>2 DEF Master!UpsertStockList
  <2> HIDE DEF row
  <2> QED BY <2>1, <2>2 DEF MasterInv
<1>3. ASSUME NEW s \in Securities, Master!UpsertBySymbol(s) PROVE MasterInv'
  <2>1. Master!PublicStock(FALSE, 0) \in [known : BOOLEAN, risk : BOOLEAN, listed : Nat]
    BY DEF Master!PublicStock
  <2> QED BY <1>3, <2>1 DEF Master!UpsertBySymbol, MasterInv
<1>4. ASSUME NEW s \in Securities, Master!Warn(s) PROVE MasterInv'
    BY <1>4 DEF Master!Warn, MasterInv
<1> QED BY <1>1, <1>2, <1>3, <1>4 DEF Master!Next

\* Of the rules that cover a date one is found if there are any: the last to
\* come into force, which the table's constraint makes unique.
LEMMA OneRuleFound ==
    ASSUME MasterInv, NEW board, NEW risk, NEW d \in Nat,
           {r \in calendar : Master!Covers(r, board, risk, d)} # {}
    PROVE  \E r \in calendar : Master!Found(board, risk, d) = {r}
<1> DEFINE kin == {r \in calendar : Master!Covers(r, board, risk, d)}
<1>1. \A r \in kin : r \in calendar /\ r.from \in Nat /\ r.from <= d /\ r.board = board /\ r.risk = risk
    BY CalendarAssumption DEF MasterInv, Master!Covers
<1>2. \A q, r \in kin : q.from = r.from => q = r
    BY <1>1, CalendarAssumption DEF MasterInv
<1>3. \A r \in calendar : Master!Covers(r, board, risk, d) <=> r \in kin
    OBVIOUS
<1>4. Master!Found(board, risk, d) = {r \in kin : \A o \in kin : o.from <= r.from}
    BY <1>3 DEF Master!Found
<1>5. kin # {}
    OBVIOUS
<1> HIDE DEF kin
<1>6. PICK n \in {r.from : r \in kin} : \A m \in {r.from : r \in kin} : n >= m
  <2>1. {r.from : r \in kin} \subseteq Nat /\ {r.from : r \in kin} # {} /\ \A m \in {r.from : r \in kin} : m <= d
    BY <1>1, <1>5
  <2> QED BY <2>1, GreatestIsThere
<1>7. PICK r \in kin : r.from = n
    BY <1>6
<1>8. \A o \in kin : o.from <= r.from
    BY <1>1, <1>6, <1>7
<1>9. ASSUME NEW q \in kin, \A o \in kin : o.from <= q.from PROVE q = r
    BY <1>1, <1>2, <1>8, <1>9
<1> QED BY <1>1, <1>4, <1>8, <1>9

LEMMA SameSize == \A S : Master!Cardinality(S) = Cardinality(S)
BY DEF Master!Cardinality, Cardinality

LEMMA MasterSound == MasterInv => Master!RuleInForce /\ Master!UnlimitedFirst /\ Master!NamedByWarning
<1> SUFFICES ASSUME MasterInv PROVE Master!RuleInForce /\ Master!UnlimitedFirst /\ Master!NamedByWarning
    OBVIOUS
<1>1. ASSUME NEW s \in Securities, NEW d \in 1..MasterDays
      PROVE  LET kin == {r \in calendar : Master!Covers(r, BoardOf[s], stock[s].risk, d)}
                 found == Master!Found(BoardOf[s], stock[s].risk, d)
             IN /\ Master!Cardinality(found) = (IF kin = {} THEN 0 ELSE 1)
                /\ (Master!Resolve(s, d).source = "calendar") <=> (kin # {})
                /\ \A r \in found, o \in kin : o.from <= r.from
  <2> DEFINE kin == {r \in calendar : Master!Covers(r, BoardOf[s], stock[s].risk, d)}
             found == Master!Found(BoardOf[s], stock[s].risk, d)
  <2>1. \A r \in found, o \in kin : o.from <= r.from
    BY DEF Master!Found
  <2>2. (Master!Resolve(s, d).source = "calendar") <=> (found # {})
    BY DEF Master!Resolve
  <2>3. CASE kin = {}
    <3>1. found = {}
        BY <2>3 DEF Master!Found
    <3> QED BY <2>1, <2>2, <2>3, <3>1, SameSize, FS_EmptySet
  <2>4. CASE kin # {}
    <3>1. PICK r \in calendar : found = {r}
        BY <2>4, OneRuleFound
    <3> QED BY <2>1, <2>2, <2>4, <3>1, SameSize, FS_Singleton
  <2> QED BY <2>3, <2>4
<1>2. ASSUME NEW s \in Securities, NEW d \in 1..MasterDays, Master!Resolve(s, d).unlimited
      PROVE  stock[s].listed \in 1..d /\ \E r \in calendar : r.board = BoardOf[s] /\ d < stock[s].listed + r.days
  <2> DEFINE found == Master!Found(BoardOf[s], stock[s].risk, d)
             r == CHOOSE r \in found : TRUE
  <2>1. found # {} /\ Master!FirstDays(r, stock[s].listed, d)
    BY <1>2 DEF Master!Resolve
  <2>2. r \in calendar /\ r.board = BoardOf[s]
    <3>1. r \in found
        BY <2>1
    <3> QED BY <3>1 DEF Master!Found, Master!Covers
  <2> HIDE DEF r
  <2>3. r.days \in Nat /\ stock[s].listed \in Nat
    BY <2>2, CalendarAssumption DEF MasterInv
  <2> QED BY <2>1, <2>2, <2>3 DEF Master!FirstDays
<1>3. Master!NamedByWarning
    BY DEF MasterInv, Master!NamedByWarning, Master!Excluded
<1> QED BY <1>1, <1>2, <1>3 DEF Master!RuleInForce, Master!UnlimitedFirst

-----------------------------------------------------------------------------
(* The sync runs.  The operators below have as parameters what they depend on: *)
(* bars B, stocks S, runs R, a worker's record w and a run r.                  *)
Asked == GapRequests \cup RunRequests
Givers == Sync!Range(Sources)
DaysIn(B, s) == {d \in 1..SyncDays : \E src \in Givers : <<s, src, d>> \in B}
LatestIn(B, s) == Sync!Max({0} \cup DaysIn(B, s))
GapsIn(B, s) == {d \in 1..LatestIn(B, s) : d \notin DaysIn(B, s) /\ \E e \in DaysIn(B, s) : e < d}

\* What is assumed of the days and of the requests.
LEMMA SomeDays == SyncDays \in Nat \ {0}
BY SyncAssumption
LEMMA NoName == "" \notin Workers
BY SyncAssumption
LEMMA AskedWell == \A r \in Asked : /\ r.symbols \in Seq(SyncSymbols) /\ r.start \in Nat /\ r.back \in Nat /\ r.correction \in Nat
                                   /\ r.incremental \in BOOLEAN
BY SyncAssumption, Zenon DEF Asked

\* The greatest of a bounded set of numbers, of the days of a symbol, of two numbers.
LEMMA SyncMax == ASSUME NEW D, D \subseteq 0..SyncDays, D # {}
                 PROVE  Sync!Max(D) \in D /\ \A d \in D : d <= Sync!Max(D)
<1>1. D \subseteq Nat /\ SyncDays \in Nat /\ \A d \in D : d <= SyncDays
    BY SomeDays
<1>2. \E d \in D : \A e \in D : d >= e
    BY <1>1, GreatestIsThere
<1> QED BY <1>1, <1>2 DEF Sync!Max

LEMMA MaxOfTwo == ASSUME NEW a \in Int, NEW b \in Int
                  PROVE  Sync!Max({a, b}) \in {a, b} /\ Sync!Max({a, b}) >= a /\ Sync!Max({a, b}) >= b
<1>1. \E x \in {a, b} : \A y \in {a, b} : x >= y
    OBVIOUS
<1> QED BY <1>1 DEF Sync!Max

LEMMA LatestFacts == ASSUME NEW B, NEW s
                     PROVE  /\ LatestIn(B, s) \in 0..SyncDays /\ \A d \in DaysIn(B, s) : d <= LatestIn(B, s)
                            /\ LatestIn(B, s) # 0 => LatestIn(B, s) \in DaysIn(B, s)
                            /\ DaysIn(B, s) = {} => LatestIn(B, s) = 0
<1> DEFINE D == {0} \cup DaysIn(B, s)
<1>1. D \subseteq 0..SyncDays /\ D # {}
    BY SomeDays DEF DaysIn
<1>2. Sync!Max(D) \in D /\ \A d \in D : d <= Sync!Max(D)
    BY <1>1, SyncMax
<1> QED BY <1>1, <1>2 DEF LatestIn

\* More bars take no day away.
LEMMA BarsGrow == ASSUME NEW B, NEW C, B \subseteq C, NEW s
                  PROVE  DaysIn(B, s) \subseteq DaysIn(C, s) /\ LatestIn(B, s) <= LatestIn(C, s)
<1>1. DaysIn(B, s) \subseteq DaysIn(C, s)
    BY DEF DaysIn
<1> QED BY <1>1, LatestFacts, SomeDays

\* A window that begins no later than the day after the latest one makes no gap
\* after the first day there was.
LEMMA FewGaps ==
    ASSUME NEW B, NEW s, NEW src \in Givers, NEW from \in Int, NEW k \in Int, NEW got \in SUBSET (1..SyncDays),
           got = {d \in 1..SyncDays : from <= d /\ d <= k},
           LatestIn(B, s) = 0 \/ from <= LatestIn(B, s) + 1,
           NEW d \in GapsIn(B \cup Sync!Stored(s, src, got), s), d \notin GapsIn(B, s)
    PROVE  LatestIn(B, s) # 0 /\ from < LatestIn(B, s) /\ \A e \in DaysIn(B, s) : d < e
<1> DEFINE C == B \cup Sync!Stored(s, src, got)
           D == DaysIn(B, s)
           L == LatestIn(B, s)
           M == LatestIn(C, s)
<1>1. DaysIn(C, s) = D \cup got
    BY DEF DaysIn, Sync!Stored
<1>2. /\ L \in 0..SyncDays /\ (\A e \in D : e <= L) /\ (L # 0 => L \in D) /\ (D = {} => L = 0)
      /\ M \in 0..SyncDays /\ (M # 0 => M \in D \cup got) /\ SyncDays \in Nat /\ D \subseteq 1..SyncDays
    BY <1>1, LatestFacts, SomeDays DEF DaysIn
<1>3. /\ d \in 1..M /\ d \notin D \cup got
      /\ \E e \in D \cup got : e < d
    BY <1>1 DEF GapsIn
<1>4. ~(d \in 1..L /\ d \notin D /\ \E e \in D : e < d)
    BY DEF GapsIn
<1>9. L = 0 \/ from <= L + 1
    OBVIOUS
<1> HIDE DEF C, D, L, M
<1>5. PICK e \in D \cup got : e < d
    BY <1>3
<1>6. d \in Int /\ e \in Int /\ e >= 1 /\ d <= M /\ M # 0
    BY <1>2, <1>3, <1>5
<1>7. CASE L = 0
    <2>1. D = {}
        <3>1. \A x \in D : x >= 1 /\ x <= 0
            BY <1>2, <1>7
        <3> QED BY <1>2, <3>1
    <2>2. e \in got /\ M \in got
        BY <1>2, <1>5, <1>6, <2>1
    <2> QED BY <1>2, <1>3, <1>5, <1>6, <2>2
<1>8. CASE L # 0
    <2>1. d < L
        <3>1. CASE d > L
            <4>1. M \in got
                BY <1>2, <1>6, <3>1
            <4>2. M <= k /\ d \in 1..SyncDays
                BY <1>2, <1>3, <1>6, <4>1
            <4>3. from <= d /\ d <= k
                BY <1>2, <1>6, <1>8, <1>9, <3>1, <4>2
            <4> QED BY <1>3, <4>2, <4>3
        <3>2. d # L
            BY <1>2, <1>3, <1>8
        <3> QED BY <1>2, <1>6, <3>1, <3>2
    <2>2. \A x \in D : d < x
        <3>1. \A x \in D : ~(x < d) /\ x # d
            BY <1>2, <1>3, <1>4, <1>6, <2>1
        <3> QED BY <1>2, <1>6, <3>1
    <2>3. e \in got
        BY <1>2, <1>5, <1>6, <2>2
    <2> QED BY <1>2, <1>5, <1>6, <1>8, <2>1, <2>2, <2>3 DEF D, L
<1> QED BY <1>7, <1>8

\* The distinct names among the first n of s.
FirstOnes(t, s, n) == /\ \A i \in DOMAIN t : \E j \in 1..n : t[i] = s[j]
                      /\ \A j \in 1..n : \E i \in DOMAIN t : t[i] = s[j]
                      /\ \A i, j \in DOMAIN t : t[i] = t[j] => i = j
LEMMA OneMore ==
    ASSUME NEW S, NEW s \in Seq(S), NEW n \in 1..Len(s), NEW r \in Seq(S), FirstOnes(r, s, n - 1)
    PROVE  /\ (\E j \in 1..n - 1 : s[j] = s[n]) => FirstOnes(r, s, n)
           /\ ~(\E j \in 1..n - 1 : s[j] = s[n]) => FirstOnes(Append(r, s[n]), s, n) /\ Append(r, s[n]) \in Seq(S)
<1>1. /\ s[n] \in S /\ 1..n = (1..(n - 1)) \cup {n} /\ n - 1 \in Nat /\ n \in Nat /\ 1..(n - 1) \subseteq 1..n
    OBVIOUS
<1>2. ASSUME NEW j \in 1..n - 1, s[j] = s[n] PROVE FirstOnes(r, s, n)
    <2>1. \A i \in DOMAIN r : \E k \in 1..n : r[i] = s[k]
        BY <1>1 DEF FirstOnes
    <2>2. \A k \in 1..n : \E i \in DOMAIN r : r[i] = s[k]
        <3>1. PICK i \in DOMAIN r : r[i] = s[j]
            BY DEF FirstOnes
        <3> QED BY <1>1, <1>2, <3>1 DEF FirstOnes
    <2> QED BY <2>1, <2>2 DEF FirstOnes
<1>3. ASSUME ~\E j \in 1..n - 1 : s[j] = s[n] PROVE FirstOnes(Append(r, s[n]), s, n) /\ Append(r, s[n]) \in Seq(S)
    <2>0. PICK e \in S : e = s[n]
        BY <1>1
    <2> DEFINE t == Append(r, e)
               b == Len(r)
    <2>1. /\ t \in Seq(S) /\ b \in Nat /\ DOMAIN r = 1..b /\ DOMAIN t = 1..(b + 1) /\ \A i \in DOMAIN r : t[i] = r[i]
          /\ t[b + 1] = e
        OBVIOUS
    <2>2. DOMAIN t = (1..b) \cup {b + 1} /\ b + 1 \notin 1..b
        BY <2>1
    <2>3. \A i \in 1..b : r[i] # e
        <3> SUFFICES ASSUME NEW i \in 1..b, r[i] = e PROVE FALSE
            OBVIOUS
        <3>1. PICK j \in 1..n - 1 : r[i] = s[j]
            BY <2>1 DEF FirstOnes
        <3> QED BY <1>3, <2>0, <3>1
    <2> HIDE DEF t, b
    <2>4. \A i \in DOMAIN t : \E k \in 1..n : t[i] = s[k]
        <3> SUFFICES ASSUME NEW i \in DOMAIN t PROVE \E k \in 1..n : t[i] = s[k]
            OBVIOUS
        <3>1. CASE i \in 1..b
            <4>1. PICK k \in 1..n - 1 : r[i] = s[k]
                BY <2>1, <3>1 DEF FirstOnes
            <4> QED BY <1>1, <2>1, <3>1, <4>1
        <3>2. CASE i = b + 1
            BY <1>1, <2>0, <2>1, <3>2
        <3> QED BY <2>2, <3>1, <3>2
    <2>5. \A k \in 1..n : \E i \in DOMAIN t : t[i] = s[k]
        <3> SUFFICES ASSUME NEW k \in 1..n PROVE \E i \in DOMAIN t : t[i] = s[k]
            OBVIOUS
        <3>1. CASE k \in 1..n - 1
            <4>1. PICK i \in DOMAIN r : r[i] = s[k]
                BY <3>1 DEF FirstOnes
            <4> QED BY <2>1, <2>2, <4>1
        <3>2. CASE k = n
            BY <2>0, <2>1, <2>2, <3>2
        <3> QED BY <1>1, <3>1, <3>2
    <2>6. \A i, j \in DOMAIN t : t[i] = t[j] => i = j
        BY <2>1, <2>2, <2>3 DEF FirstOnes
    <2> QED BY <2>0, <2>1, <2>4, <2>5, <2>6 DEF FirstOnes, t
<1> QED BY <1>2, <1>3

\* The names of a request are resolved to each of them once.
LEMMA ResolvedFacts ==
    ASSUME NEW req \in Asked
    PROVE  /\ Sync!Resolved(req) \in Seq(SyncSymbols)
           /\ {Sync!Resolved(req)[i] : i \in DOMAIN Sync!Resolved(req)} = Sync!Range(req.symbols)
           /\ \A i, j \in DOMAIN Sync!Resolved(req) : Sync!Resolved(req)[i] = Sync!Resolved(req)[j] => i = j
<1> DEFINE s == req.symbols
           Step(g, n) == IF n = 0 THEN <<>> ELSE IF \E j \in 1..n - 1 : s[j] = s[n] THEN g[n - 1] ELSE Append(g[n - 1], s[n])
           Table(g, m) == g = [n \in 0..m |-> Step(g, n)]
           f == CHOOSE g : Table(g, Len(s))
<1>0. s \in Seq(SyncSymbols) /\ Len(s) \in Nat /\ DOMAIN s = 1..Len(s) /\ \A n \in 1..Len(s) : s[n] \in SyncSymbols
    <2>1. s \in Seq(SyncSymbols)
        BY AskedWell
    <2> HIDE DEF s
    <2> QED BY <2>1
<1>1. Sync!Resolved(req) = f[Len(s)]
    BY DEF Sync!Resolved
<1>2. \E g : Table(g, Len(s))
    <2> DEFINE Has(m) == \E g : Table(g, m)
               T == {m \in 0..Len(s) : ~Has(m)}
    <2>1. Has(0)
        <3> DEFINE g == [n \in 0..0 |-> <<>>]
        <3>1. \A n \in 0..0 : Step(g, n) = <<>>
            OBVIOUS
        <3>2. Table(g, 0)
            <4> HIDE DEF Step
            <4> QED BY <3>1
        <3> QED BY <3>2
    <2>2. ASSUME NEW m \in 1..Len(s), Has(m - 1) PROVE Has(m)
        <3>1. PICK g : Table(g, m - 1)
            BY <2>2
        <3> DEFINE h == [n \in 0..m |-> IF n = m THEN Step(g, m) ELSE g[n]]
        <3>2. ASSUME NEW n \in 0..m, n # m PROVE h[n] = Step(h, n)
            <4>1. n \in 0..(m - 1) /\ (n # 0 => n - 1 \in 0..m /\ n - 1 # m)
                BY <1>0, <3>2
            <4>2. g[n] = Step(g, n)
                BY <3>1, <4>1
            <4> QED BY <3>2, <4>1, <4>2
        <3>3. h[m] = Step(h, m)
            <4>1. m # 0 /\ m \in 0..m /\ m - 1 \in 0..m /\ m - 1 # m
                BY <1>0
            <4> QED BY <4>1
        <3>4. Table(h, m)
            <4>1. \A n \in 0..m : h[n] = Step(h, n)
                BY <3>2, <3>3
            <4> HIDE DEF Step
            <4> QED BY <4>1
        <3> QED BY <3>4
    <2> HIDE DEF Has
    <2>3. ASSUME NEW m \in T, \A k \in T : m <= k PROVE FALSE
        <3>1. m \in 1..Len(s) /\ m - 1 \in 0..Len(s)
            BY <1>0, <2>1, <2>3
        <3>2. m - 1 \notin T
            BY <1>0, <2>3
        <3> QED BY <2>2, <3>1, <3>2
    <2>4. T = {}
        <3>1. T \subseteq Nat
            BY <1>0
        <3> HIDE DEF T
        <3> QED BY <2>3, <3>1, LeastIsThere
    <2>5. Has(Len(s))
        BY <1>0, <2>4
    <2> QED BY <2>5 DEF Has
<1>3. Table(f, Len(s))
    BY <1>2
<1> HIDE DEF f
<1>4. \A n \in 0..Len(s) : f[n] = Step(f, n)
    BY <1>3
<1> DEFINE Good(n) == f[n] \in Seq(SyncSymbols) /\ FirstOnes(f[n], s, n)
           Bad == {n \in 0..Len(s) : ~Good(n)}
<1> HIDE DEF s
<1>5. ASSUME NEW n \in Bad, \A k \in Bad : n <= k PROVE FALSE
    <2>1. CASE n = 0
        <3>1. f[n] = <<>>
            BY <1>0, <1>4, <2>1
        <3>2. <<>> \in Seq(SyncSymbols) /\ DOMAIN <<>> = {} /\ 1..n = {}
            BY <2>1
        <3>3. Good(n)
            BY <3>1, <3>2 DEF FirstOnes
        <3> QED BY <1>5, <3>3
    <2>2. CASE n # 0
        <3>1. n - 1 \in 0..Len(s) /\ n \in 1..Len(s)
            BY <1>0, <1>5, <2>2
        <3>2. Good(n - 1)
            <4>1. ~(n <= n - 1)
                BY <1>0, <3>1
            <4> QED BY <1>5, <3>1, <4>1
        <3>3. f[n] = IF \E j \in 1..n - 1 : s[j] = s[n] THEN f[n - 1] ELSE Append(f[n - 1], s[n])
            BY <1>4, <2>2, <3>1
        <3>4. Good(n)
            BY <1>0, <3>1, <3>2, <3>3, OneMore
        <3> QED BY <1>5, <3>4
    <2> QED BY <2>1, <2>2
<1>6. Bad = {}
    <2>1. Bad \subseteq Nat
        BY <1>0
    <2> HIDE DEF Bad
    <2> QED BY <1>5, <2>1, LeastIsThere
<1>7. Good(Len(s))
    BY <1>0, <1>6
<1>8. Sync!Range(s) = {s[j] : j \in 1..Len(s)}
    BY <1>0 DEF Sync!Range
<1> QED BY <1>0, <1>1, <1>7, <1>8 DEF s, FirstOnes

-----------------------------------------------------------------------------
\* The types of a run, of a sync state and of what a worker has in hand.
Entry == [sym : SyncSymbols, status : {"success", "failed"}, bars : Nat]
RunType == [status : {"running", "completed", "completed_with_errors", "failed"}, req : Asked, wanted : Seq(SyncSymbols), items : Seq(Entry),
            synced : Nat, failed : Nat, by : Workers]
StateType == [status : {"none", "success", "failed"}, upto : 0..SyncDays, good : 0..SyncDays, errors : Nat]
Steps == {"idle", "next", "fetch", "stock", "bars", "state", "failed"}
HandType == [step : Steps, run : Nat, todo : Seq(SyncSymbols), sym : SyncSymbols \cup {""}, from : Int, to : 0..SyncDays, got : SUBSET (1..SyncDays),
             source : Givers \cup {"fallback"}, upto : 0..SyncDays, raced : BOOLEAN]

\* A run has items for the first of its symbols, in order; a synced one has bars
\* and a row, and what a run that ended says agrees with the items.
RunOk(r, B, S) ==
    /\ r \in RunType /\ r.wanted = Sync!Resolved(r.req)
    /\ Len(r.items) <= Len(r.wanted)
    /\ \A j \in 1..Len(r.items) :
          /\ r.items[j].sym = r.wanted[j]
          /\ r.items[j].status = "success" => DaysIn(B, r.items[j].sym) # {} /\ r.items[j].sym \in S
    /\ r.status # "running" => /\ Len(r.items) = Len(r.wanted) /\ r.synced + r.failed = Len(r.items)
                               /\ (r.status = "failed") <=> (r.failed = Len(r.items) /\ r.failed > 0)

\* The symbols a worker has left are those of its run without an item; the one
\* in hand is the next.  An undisturbed incremental window begins where the bars end.
Rest(t, r, n) == Len(t) = Len(r.wanted) - n /\ \A i \in 1..Len(t) : t[i] = r.wanted[n + i]
WindowOk(w, r, B) ==
    LET latest == LatestIn(B, w.sym) IN
    r.req.incremental /\ r.req.start = 0 /\ ~w.raced
        => latest = 0 \/ (r.req.correction > 0 /\ w.from <= latest) \/ w.from = latest + 1
HandOk(w, r, B, S) ==
    /\ r.status = "running"
    /\ w.step = "next" => Rest(w.todo, r, Len(r.items))
    /\ w.step # "next" => Rest(w.todo, r, Len(r.items) + 1) /\ Len(r.items) + 1 <= Len(r.wanted) /\ w.sym = r.wanted[Len(r.items) + 1]
    /\ w.step \in {"fetch", "stock", "bars"} => WindowOk(w, r, B)
    /\ w.step \in {"stock", "bars", "state"} =>
          w.source \in Givers /\ w.got # {} /\ \E k \in Int : w.got = {d \in 1..SyncDays : w.from <= d /\ d <= k}
    /\ w.step = "state" => w.upto <= LatestIn(B, w.sym) /\ DaysIn(B, w.sym) # {} /\ w.sym \in S

StatesOk == \A k \in SyncSymbols \X Sync!Sourced : state[k].upto <= LatestIn(bars, k[1]) /\ state[k].good <= LatestIn(bars, k[1])
SyncInv ==
    /\ today \in 1..SyncDays /\ run \in Seq(RunType) /\ syncing \in [Workers -> HandType]
    /\ state \in [SyncSymbols \X Sync!Sourced -> StateType] /\ StatesOk
    /\ \A i \in 1..Len(run) : RunOk(run[i], bars, stocks)
    /\ \A p \in Workers : syncing[p].step # "idle" =>
          /\ syncing[p].run \in 1..Len(run) /\ HandOk(syncing[p], run[syncing[p].run], bars, stocks)
          /\ \A q \in Workers : q # p /\ syncing[q].step # "idle" => syncing[q].run # syncing[p].run

\* More bars break no state and no run.
LEMMA StatesStay == ASSUME StatesOk, state \in [SyncSymbols \X Sync!Sourced -> StateType], state' = state, bars \subseteq bars' PROVE StatesOk'
<1> SUFFICES ASSUME NEW k \in SyncSymbols \X Sync!Sourced
             PROVE  state[k].upto <= LatestIn(bars', k[1]) /\ state[k].good <= LatestIn(bars', k[1])
    BY DEF StatesOk
<1>1. LatestIn(bars, k[1]) <= LatestIn(bars', k[1]) /\ LatestIn(bars, k[1]) \in 0..SyncDays /\ LatestIn(bars', k[1]) \in 0..SyncDays
    BY BarsGrow, LatestFacts
<1>2. state[k].upto \in 0..SyncDays /\ state[k].good \in 0..SyncDays
    BY DEF StateType
<1>3. state[k].upto <= LatestIn(bars, k[1]) /\ state[k].good <= LatestIn(bars, k[1])
    BY DEF StatesOk
<1> QED BY <1>1, <1>2, <1>3, SomeDays
LEMMA RunKeeps == ASSUME NEW r, NEW B, NEW S, RunOk(r, B, S), NEW C, NEW T, B \subseteq C, S \subseteq T
                  PROVE  RunOk(r, C, T)
<1>1. \A s : DaysIn(B, s) # {} => DaysIn(C, s) # {}
    BY BarsGrow
<1> QED BY <1>1 DEF RunOk

\* All but what is noted of others' writes.
SameHand(v, w) == /\ v.step = w.step /\ v.run = w.run /\ v.todo = w.todo /\ v.sym = w.sym /\ v.from = w.from
                  /\ v.got = w.got /\ v.source = w.source /\ v.upto = w.upto
LEMMA HandKeeps == ASSUME NEW w \in HandType, NEW v \in HandType, NEW r, NEW B, NEW S, HandOk(w, r, B, S), NEW C, NEW T, B \subseteq C, S \subseteq T,
                          SameHand(v, w), v.raced \/ (~w.raced /\ DaysIn(B, w.sym) = DaysIn(C, w.sym))
                   PROVE  HandOk(v, r, C, T)
<1>1. DaysIn(B, w.sym) \subseteq DaysIn(C, w.sym) /\ LatestIn(B, w.sym) <= LatestIn(C, w.sym)
    BY BarsGrow
<1>2. LatestIn(B, w.sym) \in Nat /\ LatestIn(C, w.sym) \in Nat /\ w.upto \in Nat
    <2>1. LatestIn(B, w.sym) \in 0..SyncDays /\ LatestIn(C, w.sym) \in 0..SyncDays
        BY LatestFacts
    <2>2. w.upto \in 0..SyncDays
        BY DEF HandType
    <2> QED BY <2>1, <2>2, SomeDays
<1>3. ~v.raced => LatestIn(B, w.sym) = LatestIn(C, w.sym)
    BY DEF LatestIn
<1>4. WindowOk(w, r, B) => WindowOk(v, r, C)
    BY <1>3 DEF WindowOk, SameHand
<1> QED BY <1>1, <1>2, <1>4 DEF HandOk, SameHand

\* When one worker moves, what the others have in hand stays.
Unheld(v, w) == SameHand(v, w) /\ (v.raced \/ (~w.raced /\ DaysIn(bars, w.sym) = DaysIn(bars', w.sym)))
LEMMA OneMoves ==
    ASSUME SyncInv, NEW p \in Workers, today' \in 1..SyncDays, run' \in Seq(RunType), syncing' \in [Workers -> HandType],
           state' \in [SyncSymbols \X Sync!Sourced -> StateType], StatesOk', Len(run) <= Len(run'), bars \subseteq bars', stocks \subseteq stocks',
           \A i \in 1..Len(run') : RunOk(run'[i], bars', stocks'),
           \A i \in 1..Len(run) : run'[i] = run[i] \/ (syncing[p].step # "idle" /\ i = syncing[p].run),
           \A q \in Workers : q # p => Unheld(syncing'[q], syncing[q]),
           syncing'[p].step # "idle" => /\ syncing'[p].run \in 1..Len(run') /\ HandOk(syncing'[p], run'[syncing'[p].run], bars', stocks')
                                        /\ \/ syncing[p].step # "idle" /\ syncing'[p].run = syncing[p].run
                                           \/ syncing'[p].run = Len(run) + 1
    PROVE  SyncInv'
<1>1. Len(run) \in Nat /\ Len(run') \in Nat
    BY DEF SyncInv
<1>2. ASSUME NEW q \in Workers, q # p, syncing'[q].step # "idle"
      PROVE  /\ syncing[q].step # "idle" /\ syncing'[q].run = syncing[q].run /\ syncing[q].run \in 1..Len(run)
             /\ HandOk(syncing'[q], run'[syncing'[q].run], bars', stocks')
             /\ syncing'[p].step # "idle" => syncing'[p].run # syncing'[q].run
  <2>1. Unheld(syncing'[q], syncing[q]) /\ SameHand(syncing'[q], syncing[q])
    BY <1>2 DEF Unheld
  <2>2. syncing[q].step # "idle" /\ syncing'[q].run = syncing[q].run
    BY <1>2, <2>1 DEF SameHand
  <2>3. /\ syncing[q].run \in 1..Len(run) /\ HandOk(syncing[q], run[syncing[q].run], bars, stocks)
        /\ syncing[p].step # "idle" => syncing[q].run # syncing[p].run
    BY <1>2, <2>2 DEF SyncInv
  <2>4. run'[syncing[q].run] = run[syncing[q].run]
    BY <2>3
  <2>5. syncing[q] \in HandType /\ syncing'[q] \in HandType
    BY DEF SyncInv
  <2>6. HandOk(syncing'[q], run[syncing[q].run], bars', stocks')
    BY <2>1, <2>3, <2>5, HandKeeps DEF Unheld
  <2>7. syncing'[p].step # "idle" => syncing'[p].run # syncing'[q].run
    BY <1>1, <2>2, <2>3
  <2> QED BY <2>2, <2>3, <2>4, <2>6, <2>7
<1>3. ASSUME NEW q \in Workers, syncing'[q].step # "idle"
      PROVE  /\ syncing'[q].run \in 1..Len(run') /\ HandOk(syncing'[q], run'[syncing'[q].run], bars', stocks')
             /\ \A o \in Workers : o # q /\ syncing'[o].step # "idle" => syncing'[o].run # syncing'[q].run
  <2>1. CASE q = p
    BY <1>2, <1>3, <2>1
  <2>2. CASE q # p
    <3>1. syncing'[q].run \in 1..Len(run') /\ HandOk(syncing'[q], run'[syncing'[q].run], bars', stocks')
        BY <1>1, <1>2, <1>3, <2>2
    <3>2. ASSUME NEW o \in Workers, o # q, syncing'[o].step # "idle" PROVE syncing'[o].run # syncing'[q].run
      <4>1. CASE o = p
        BY <1>2, <1>3, <2>2, <3>2, <4>1
      <4>2. CASE o # p
        <5>1. syncing'[o].run = syncing[o].run /\ syncing'[q].run = syncing[q].run /\ syncing[o].step # "idle" /\ syncing[q].step # "idle"
            BY <1>2, <1>3, <2>2, <3>2, <4>2
        <5> QED BY <3>2, <5>1 DEF SyncInv
      <4> QED BY <4>1, <4>2
    <3> QED BY <3>1, <3>2
  <2> QED BY <2>1, <2>2
<1> QED BY <1>3 DEF SyncInv

\* When the worker changes no more than what it has in hand, and perhaps the stocks.
LEMMA HandMoves ==
    ASSUME SyncInv, NEW p \in Workers, NEW v \in HandType, syncing' = [syncing EXCEPT ![p] = v], syncing[p].step # "idle",
           stocks \subseteq stocks', UNCHANGED <<today, bars, state, run>>,
           v.step # "idle" => v.run = syncing[p].run /\ HandOk(v, run[v.run], bars, stocks')
    PROVE  SyncInv'
<1>1. /\ syncing \in [Workers -> HandType] /\ syncing' \in [Workers -> HandType] /\ syncing'[p] = v
      /\ \A q \in Workers : q # p => syncing'[q] = syncing[q]
    BY DEF SyncInv
<1>2. \A i \in 1..Len(run) : RunOk(run[i], bars, stocks')
    BY RunKeeps DEF SyncInv
<1>3. \A q \in Workers : q # p => Unheld(syncing'[q], syncing[q])
    BY <1>1 DEF Unheld, SameHand, HandType
<1>4. syncing[p].run \in 1..Len(run)
    BY DEF SyncInv
<1>5. StatesOk' /\ Len(run) \in Nat
    BY DEF SyncInv, StatesOk
<1>6. /\ today' \in 1..SyncDays /\ run' \in Seq(RunType) /\ state' \in [SyncSymbols \X Sync!Sourced -> StateType]
      /\ Len(run) <= Len(run') /\ bars \subseteq bars' /\ run' = run /\ bars' = bars
    BY <1>5 DEF SyncInv
<1>7. v.step # "idle" => v.run \in 1..Len(run') /\ HandOk(v, run'[v.run], bars', stocks')
    BY <1>4, <1>6
<1> HIDE DEF SyncInv
<1> QED BY <1>1, <1>2, <1>3, <1>5, <1>6, <1>7, OneMoves

LEMMA IdleHand == Sync!Idle \in HandType /\ Sync!Idle.step = "idle" /\ ~Sync!Idle.raced
BY SomeDays DEF Sync!Idle, Sync!Provider, HandType, Steps

LEMMA FreshHand == ASSUME NEW k \in Nat, NEW t \in Seq(SyncSymbols)
                   PROVE  LET v == [Sync!Idle EXCEPT !.step = "next", !.run = k, !.todo = t]
                          IN  v \in HandType /\ v.step = "next" /\ v.run = k /\ v.todo = t
BY IdleHand DEF HandType, Steps

LEMMA BeginStays == ASSUME SyncInv, NEW p \in Workers, NEW req \in Asked, Sync!Begin(p, req) PROVE SyncInv'
<1> DEFINE names == Sync!Resolved(req)
           r == [status |-> "running", req |-> req, wanted |-> names, items |-> <<>>, synced |-> 0, failed |-> 0, by |-> p]
           v == [Sync!Idle EXCEPT !.step = "next", !.run = Len(run) + 1, !.todo = names]
<1>1. names \in Seq(SyncSymbols) /\ Len(names) \in Nat /\ Len(run) \in Nat
    BY ResolvedFacts DEF SyncInv
<1>2. r \in RunType /\ Len(r.items) = 0 /\ r.wanted = names /\ r.status = "running" /\ r.req = req
    BY <1>1 DEF RunType
<1>3. v \in HandType /\ v.step = "next" /\ v.run = Len(run) + 1 /\ v.todo = names
    <2>1. Len(run) + 1 \in Nat
        BY <1>1
    <2> HIDE DEF names
    <2> QED BY <1>1, <2>1, FreshHand
<1>4. /\ syncing[p].step = "idle" /\ run' = Append(run, r) /\ syncing' = [syncing EXCEPT ![p] = v]
      /\ UNCHANGED <<today, stocks, bars, state>>
    BY DEF Sync!Begin
<1> HIDE DEF names, r, v
<1>5. /\ run' \in Seq(RunType) /\ Len(run') = Len(run) + 1 /\ run'[Len(run) + 1] = r
      /\ \A i \in 1..Len(run) : run'[i] = run[i]
    BY <1>2, <1>4 DEF SyncInv
<1>6. RunOk(r, bars, stocks)
    BY <1>1, <1>2 DEF RunOk, names
<1>7. \A i \in 1..Len(run') : RunOk(run'[i], bars', stocks')
  <2> SUFFICES ASSUME NEW i \in 1..Len(run') PROVE RunOk(run'[i], bars, stocks)
    BY <1>4
  <2>1. CASE i \in 1..Len(run)
    BY <1>5, <2>1 DEF SyncInv
  <2>2. CASE i = Len(run) + 1
    BY <1>5, <1>6, <2>2
  <2> QED BY <1>1, <1>5, <2>1, <2>2
<1>8. HandOk(v, r, bars, stocks)
    BY <1>1, <1>2, <1>3 DEF HandOk, Rest
<1>9. /\ syncing' \in [Workers -> HandType] /\ syncing'[p] = v
      /\ \A q \in Workers : q # p => Unheld(syncing'[q], syncing[q])
    BY <1>3, <1>4 DEF SyncInv, Unheld, SameHand, HandType
<1>10. /\ today' \in 1..SyncDays /\ state' \in [SyncSymbols \X Sync!Sourced -> StateType] /\ StatesOk' /\ Len(run) <= Len(run')
       /\ bars \subseteq bars' /\ stocks \subseteq stocks' /\ Len(run) + 1 \in 1..Len(run') /\ bars' = bars /\ stocks' = stocks
    BY <1>1, <1>4, <1>5 DEF SyncInv, StatesOk
<1> HIDE DEF SyncInv
<1> QED BY <1>3, <1>5, <1>7, <1>8, <1>9, <1>10, OneMoves

\* The window of an incremental sync that names no start begins where the bars end.
LEMMA StartFacts ==
    ASSUME today \in 1..SyncDays, NEW req \in Asked, NEW s
    PROVE  /\ Sync!WindowStart(req, s) \in Int
           /\ req.incremental /\ req.start = 0 => \/ LatestIn(bars, s) = 0
                                                  \/ req.correction > 0 /\ Sync!WindowStart(req, s) <= LatestIn(bars, s)
                                                  \/ Sync!WindowStart(req, s) = LatestIn(bars, s) + 1
<1>1. Sync!Latest(s) = LatestIn(bars, s)
    BY DEF Sync!Latest, LatestIn, Sync!DaysOf, DaysIn, Givers
<1>2. LatestIn(bars, s) \in Nat /\ today \in Nat
    BY LatestFacts, SomeDays
<1>3. req.start \in Nat /\ req.back \in Nat /\ req.correction \in Nat /\ req.incremental \in BOOLEAN
    BY AskedWell
<1>4. Sync!Max({1, req.back}) \in Int
    <2>1. PICK b \in Int : b = req.back
        BY <1>3
    <2>2. Sync!Max({1, b}) \in {1, b}
        BY MaxOfTwo
    <2> QED BY <2>1, <2>2
<1> QED BY <1>1, <1>2, <1>3, <1>4 DEF Sync!WindowStart

LEMMA WindowStays == ASSUME SyncInv, NEW p \in Workers, Sync!Window(p) PROVE SyncInv'
<1> DEFINE w == syncing[p]
           r == run[w.run]
           v == [Sync!Idle EXCEPT !.step = "fetch", !.run = w.run, !.todo = Tail(w.todo), !.sym = Head(w.todo),
                                  !.from = Sync!WindowStart(r.req, Head(w.todo)), !.to = today]
<1>1. w \in HandType /\ w.step = "next" /\ w.todo # <<>> /\ w.todo \in Seq(SyncSymbols)
    BY DEF Sync!Window, SyncInv, HandType
<1>2. w.run \in 1..Len(run) /\ HandOk(w, r, bars, stocks) /\ RunOk(r, bars, stocks)
    BY <1>1 DEF SyncInv
<1>3. r.req \in Asked /\ Len(r.items) \in Nat /\ Len(r.wanted) \in Nat
    BY <1>2 DEF RunOk, RunType
<1>4. today \in 1..SyncDays /\ today \in 0..SyncDays
    BY SomeDays DEF SyncInv
<1>5. Sync!WindowStart(r.req, Head(w.todo)) \in Int
    BY <1>3, <1>4, StartFacts
<1>6. Head(w.todo) = w.todo[1] /\ Head(w.todo) \in SyncSymbols /\ Tail(w.todo) \in Seq(SyncSymbols) /\ Len(w.todo) \in Nat \ {0}
      /\ Len(Tail(w.todo)) = Len(w.todo) - 1 /\ \A i \in 1..(Len(w.todo) - 1) : Tail(w.todo)[i] = w.todo[i + 1]
    BY <1>1
<1>7. /\ v \in HandType /\ v.step = "fetch" /\ v.run = w.run /\ v.todo = Tail(w.todo) /\ v.sym = Head(w.todo)
      /\ v.from = Sync!WindowStart(r.req, Head(w.todo)) /\ ~v.raced
    BY <1>1, <1>4, <1>5, <1>6, IdleHand DEF HandType, Steps
<1>8. syncing' = [syncing EXCEPT ![p] = v] /\ UNCHANGED <<today, stocks, bars, state, run>>
    BY DEF Sync!Window
<1> HIDE DEF v, w, r
<1>9. Rest(w.todo, r, Len(r.items)) /\ r.status = "running"
    BY <1>1, <1>2 DEF HandOk
<1>10. Rest(v.todo, r, Len(r.items) + 1) /\ Len(r.items) + 1 <= Len(r.wanted) /\ v.sym = r.wanted[Len(r.items) + 1]
  <2>1. Len(v.todo) = Len(r.wanted) - (Len(r.items) + 1) /\ Len(r.items) + 1 <= Len(r.wanted)
    <3>1. PICK a \in Nat, b \in Nat, c \in Nat \ {0} : a = Len(r.items) /\ b = Len(r.wanted) /\ c = Len(w.todo)
        BY <1>3, <1>6
    <3>2. Len(v.todo) = c - 1 /\ c = b - a
        BY <1>6, <1>7, <1>9, <3>1 DEF Rest
    <3> QED BY <3>1, <3>2
  <2>2. \A i \in 1..Len(v.todo) : v.todo[i] = r.wanted[(Len(r.items) + 1) + i]
    <3> SUFFICES ASSUME NEW i \in 1..Len(v.todo) PROVE v.todo[i] = r.wanted[(Len(r.items) + 1) + i]
        OBVIOUS
    <3>1. i \in 1..(Len(w.todo) - 1) /\ i + 1 \in 1..Len(w.todo) /\ Len(r.items) + (i + 1) = (Len(r.items) + 1) + i
        <4>1. PICK a \in Nat, c \in Nat \ {0} : a = Len(r.items) /\ c = Len(w.todo)
            BY <1>3, <1>6
        <4>2. i \in 1..(c - 1)
            BY <1>6, <1>7, <4>1
        <4>3. i \in 1..(c - 1) /\ i + 1 \in 1..c /\ a + (i + 1) = (a + 1) + i
            BY <4>2
        <4> QED BY <4>1, <4>3
    <3> QED BY <1>6, <1>7, <1>9, <3>1 DEF Rest
  <2>3. 1 \in 1..Len(w.todo)
    BY <1>6
  <2> QED BY <1>6, <1>7, <1>9, <2>1, <2>2, <2>3 DEF Rest
<1>11. WindowOk(v, r, bars)
    BY <1>3, <1>4, <1>7, StartFacts DEF WindowOk
<1>12. HandOk(v, r, bars, stocks')
    BY <1>7, <1>9, <1>10, <1>11 DEF HandOk
<1> HIDE DEF SyncInv
<1> QED BY <1>1, <1>7, <1>8, <1>12, HandMoves DEF w, r

\* What a provider answers is the days from the window's first one to some day.
LEMMA AnswerFacts ==
    ASSUME NEW from \in Int, NEW to \in 0..SyncDays, NEW a \in Sync!Answers(from, to)
    PROVE  /\ a.source \in Givers /\ a.got \cap 1..SyncDays # {} /\ a.got \cap 1..SyncDays \in SUBSET (1..SyncDays)
           /\ \E k \in Int : a.got \cap 1..SyncDays = {d \in 1..SyncDays : from <= d /\ d <= k}
<1>1. PICK src \in Givers, k \in Sync!Max({1, from})..to : a = [source |-> src, got |-> from..k]
    <2> DEFINE G == Sync!Range(Sources)
               D == Sync!Max({1, from})..to
    <2>1. a \in {[source |-> src, got |-> from..k] : src \in G, k \in D}
        BY DEF Sync!Answers
    <2> HIDE DEF G, D
    <2>2. \E src \in G, k \in D : a = [source |-> src, got |-> from..k]
        BY <2>1
    <2> QED BY <2>2 DEF G, D, Givers
<1>2. Sync!Max({1, from}) \in Int /\ Sync!Max({1, from}) >= 1 /\ Sync!Max({1, from}) >= from
    <2>1. 1 \in Int
        OBVIOUS
    <2>2. /\ Sync!Max({1, from}) \in {1, from} /\ Sync!Max({1, from}) >= 1 /\ Sync!Max({1, from}) >= from
        BY <2>1, MaxOfTwo
    <2> QED BY <2>2
<1>3. to \in Int /\ to <= SyncDays /\ SyncDays \in Nat
    BY SomeDays
<1>4. k \in Int /\ k >= 1 /\ k >= from /\ k <= SyncDays
    BY <1>2, <1>3
<1>5. a.source = src /\ a.got = from..k
    BY <1>1
<1>6. k \in a.got \cap 1..SyncDays
    BY <1>3, <1>4, <1>5
<1>7. a.got \cap 1..SyncDays = {d \in 1..SyncDays : from <= d /\ d <= k}
    BY <1>3, <1>4, <1>5
<1> QED BY <1>1, <1>4, <1>5, <1>6, <1>7

LEMMA FailedHand ==
    ASSUME SyncInv, NEW p \in Workers, syncing[p].step \in {"fetch", "stock", "bars", "state"}, UNCHANGED <<today, stocks, bars, state, run>>,
           syncing' = [syncing EXCEPT ![p] = [syncing[p] EXCEPT !.step = "failed", !.source = "fallback"]]
    PROVE  SyncInv'
<1> DEFINE w == syncing[p]
           r == run[w.run]
           v == [w EXCEPT !.step = "failed", !.source = "fallback"]
<1>1. w \in HandType /\ w.step \notin {"idle", "next"}
    BY DEF SyncInv
<1>2. HandOk(w, r, bars, stocks)
    BY <1>1 DEF SyncInv
<1>3. /\ v \in HandType /\ v.step = "failed" /\ v.run = w.run /\ v.todo = w.todo /\ v.sym = w.sym
    <2> HIDE DEF w
    <2> QED BY <1>1 DEF HandType, Steps
<1>4. syncing' = [syncing EXCEPT ![p] = v]
    OBVIOUS
<1> HIDE DEF w, r, v
<1>5. HandOk(v, r, bars, stocks')
    BY <1>1, <1>2, <1>3 DEF HandOk
<1> HIDE DEF SyncInv
<1> QED BY <1>1, <1>3, <1>4, <1>5, HandMoves DEF w, r

LEMMA FetchStays == ASSUME SyncInv, NEW p \in Workers, Sync!Fetch(p) PROVE SyncInv'
<1> DEFINE w == syncing[p]
           r == run[w.run]
<1>1. w \in HandType /\ w.step = "fetch" /\ w.from \in Int /\ UNCHANGED <<today, stocks, bars, state, run>>
    BY DEF Sync!Fetch, SyncInv, HandType
<1>2. HandOk(w, r, bars, stocks)
    BY <1>1 DEF SyncInv
<1>3. ASSUME NEW a \in Sync!Answers(w.from, w.to), syncing' = [syncing EXCEPT ![p] = [w EXCEPT !.step = "stock", !.got = a.got \cap 1..SyncDays, !.source = a.source]]
      PROVE  SyncInv'
  <2> DEFINE v == [w EXCEPT !.step = "stock", !.got = a.got \cap 1..SyncDays, !.source = a.source]
  <2>1. /\ a.source \in Givers /\ a.got \cap 1..SyncDays # {} /\ a.got \cap 1..SyncDays \in SUBSET (1..SyncDays)
        /\ \E k \in Int : a.got \cap 1..SyncDays = {d \in 1..SyncDays : w.from <= d /\ d <= k}
    <3>1. w.to \in 0..SyncDays
        BY <1>1 DEF HandType
    <3> QED BY <1>1, <3>1, AnswerFacts
  <2>2. /\ v \in HandType /\ v.step = "stock" /\ v.got = a.got \cap 1..SyncDays /\ v.source = a.source
        /\ v.run = w.run /\ v.todo = w.todo /\ v.sym = w.sym /\ v.from = w.from /\ v.raced = w.raced
    <3> HIDE DEF w
    <3> QED BY <1>1, <2>1 DEF HandType, Steps
  <2> HIDE DEF w, r, v
  <2>3. HandOk(v, r, bars, stocks')
    BY <1>1, <1>2, <2>1, <2>2 DEF HandOk, WindowOk
  <2>4. syncing' = [syncing EXCEPT ![p] = v]
    BY <1>3 DEF v
  <2> HIDE DEF SyncInv
  <2> QED BY <1>1, <2>2, <2>3, <2>4, HandMoves DEF w, r
<1>4. ASSUME syncing' = [syncing EXCEPT ![p] = [w EXCEPT !.step = "failed", !.source = Sync!Nothing.source]] PROVE SyncInv'
    BY <1>1, <1>2, <1>4, FailedHand DEF Sync!Nothing, Sync!Provider
<1> QED BY <1>3, <1>4 DEF Sync!Fetch

LEMMA RaiseStays == ASSUME SyncInv, NEW p \in Workers, Sync!Raise(p) PROVE SyncInv'
<1>1. syncing' = [syncing EXCEPT ![p] = [syncing[p] EXCEPT !.step = "failed", !.source = "fallback"]]
    BY DEF Sync!Raise, Sync!Provider, SyncInv
<1> QED BY <1>1, FailedHand DEF Sync!Raise

LEMMA StoreStockStays == ASSUME SyncInv, NEW p \in Workers, Sync!StoreStock(p) PROVE SyncInv'
<1> DEFINE w == syncing[p]
           r == run[w.run]
           v == [w EXCEPT !.step = "bars"]
<1>1. w \in HandType /\ w.step = "stock" /\ stocks \subseteq stocks' /\ UNCHANGED <<today, bars, state, run>>
    BY DEF Sync!StoreStock, SyncInv
<1>2. HandOk(w, r, bars, stocks)
    BY <1>1 DEF SyncInv
<1>3. syncing' = [syncing EXCEPT ![p] = v]
    BY DEF Sync!StoreStock, SyncInv
<1>4. /\ v \in HandType /\ v.step = "bars" /\ v.got = w.got /\ v.source = w.source
      /\ v.run = w.run /\ v.todo = w.todo /\ v.sym = w.sym /\ v.from = w.from /\ v.raced = w.raced
    <2> HIDE DEF w
    <2> QED BY <1>1 DEF HandType, Steps
<1> HIDE DEF w, r, v
<1>5. HandOk(v, r, bars, stocks')
    BY <1>1, <1>2, <1>4 DEF HandOk, WindowOk
<1> HIDE DEF SyncInv
<1> QED BY <1>1, <1>3, <1>4, <1>5, HandMoves DEF w, r

LEMMA DieStays == ASSUME SyncInv, NEW p \in Workers, Sync!Die(p) PROVE SyncInv'
BY IdleHand, HandMoves DEF Sync!Die

LEMMA NextDayStays == ASSUME SyncInv, Sync!NextDay PROVE SyncInv'
BY SomeDays DEF SyncInv, StatesOk, Sync!NextDay

\* What another's write leaves of a hand: all but the note of it.
LEMMA NotedHand ==
    ASSUME SyncInv, NEW o, NEW q \in Workers, NEW s, NEW src \in Givers, NEW ds \in SUBSET (1..SyncDays),
           bars' = bars \cup Sync!Stored(s, src, ds)
    PROVE  LET v == Sync!Noted(o, s)[q] IN /\ v \in HandType /\ SameHand(v, syncing[q])
                                           /\ q # o => Unheld(v, syncing[q])
<1> DEFINE w == syncing[q]
           v == [w EXCEPT !.raced = @ \/ (q # o /\ w.sym = s)]
<1>1. w \in HandType /\ Sync!Noted(o, s)[q] = v
    BY DEF SyncInv, Sync!Noted
<1>2. v \in HandType /\ SameHand(v, w) /\ (v.raced <=> w.raced \/ (q # o /\ w.sym = s))
    <2> HIDE DEF w
    <2>1. PICK b \in BOOLEAN : b <=> (w.raced \/ (q # o /\ w.sym = s))
        OBVIOUS
    <2>2. w.raced \in BOOLEAN
        BY <1>1 DEF HandType
    <2>3. v = [w EXCEPT !.raced = b]
        BY <2>1, <2>2
    <2>4. [w EXCEPT !.raced = b] \in HandType /\ [w EXCEPT !.raced = b].raced = b /\ SameHand([w EXCEPT !.raced = b], w)
        BY <1>1, <2>1 DEF HandType, SameHand
    <2> HIDE DEF v
    <2> QED BY <2>1, <2>3, <2>4
<1>3. w.sym # s => DaysIn(bars', w.sym) = DaysIn(bars, w.sym)
    BY DEF DaysIn, Sync!Stored
<1> HIDE DEF v, w
<1> QED BY <1>1, <1>2, <1>3 DEF Unheld, w

LEMMA StoreBarsStays == ASSUME SyncInv, NEW p \in Workers, Sync!StoreBars(p) PROVE SyncInv'
<1> DEFINE w == syncing[p]
           r == run[w.run]
           m == Sync!Max({Sync!Latest(w.sym)} \cup w.got)
           v == [w EXCEPT !.step = "state", !.upto = m]
<1>1. w \in HandType /\ w.step = "bars" /\ stocks' = stocks \cup {w.sym} /\ UNCHANGED <<today, state, run>>
    BY DEF Sync!StoreBars, SyncInv
<1>2. w.run \in 1..Len(run) /\ HandOk(w, r, bars, stocks)
    BY <1>1 DEF SyncInv
<1>3. w.got \in SUBSET (1..SyncDays) /\ w.got # {} /\ w.source \in Givers
    BY <1>1, <1>2 DEF HandOk, HandType
<1>4. bars' = bars \cup Sync!Stored(w.sym, w.source, w.got) /\ bars \subseteq bars'
    BY DEF Sync!StoreBars
<1>5. DaysIn(bars', w.sym) = DaysIn(bars, w.sym) \cup w.got
  <2> HIDE DEF w
  <2> QED BY <1>3, <1>4 DEF DaysIn, Sync!Stored
<1>6. m \in 0..SyncDays /\ m <= LatestIn(bars', w.sym)
  <2>1. Sync!Latest(w.sym) = LatestIn(bars, w.sym)
    BY DEF Sync!Latest, LatestIn, Sync!DaysOf, DaysIn, Givers
  <2>2. LatestIn(bars, w.sym) \in 0..SyncDays /\ LatestIn(bars, w.sym) <= LatestIn(bars', w.sym)
        /\ LatestIn(bars', w.sym) \in 0..SyncDays
    BY <1>4, LatestFacts, BarsGrow
  <2>3. {Sync!Latest(w.sym)} \cup w.got \subseteq 0..SyncDays
    BY <1>3, <2>1, <2>2, SomeDays
  <2>4. m \in {Sync!Latest(w.sym)} \cup w.got
    BY <2>3, SyncMax
  <2>5. \A d \in w.got : d <= LatestIn(bars', w.sym)
    BY <1>5, LatestFacts
  <2> HIDE DEF m
  <2> QED BY <2>1, <2>2, <2>3, <2>4, <2>5
<1>7. /\ v \in HandType /\ v.step = "state" /\ v.upto = m /\ v.got = w.got /\ v.source = w.source
      /\ v.run = w.run /\ v.todo = w.todo /\ v.sym = w.sym /\ v.from = w.from
  <2> HIDE DEF w, m
  <2> QED BY <1>1, <1>6 DEF HandType, Steps
<1>8. /\ syncing' \in [Workers -> HandType] /\ syncing'[p] = v
      /\ \A q \in Workers : q # p => Unheld(syncing'[q], syncing[q])
  <2>1. syncing' = [Sync!Noted(p, w.sym) EXCEPT ![p] = v]
    BY DEF Sync!StoreBars
  <2>2. /\ Sync!Noted(p, w.sym) \in [Workers -> HandType]
        /\ \A q \in Workers : q # p => Unheld(Sync!Noted(p, w.sym)[q], syncing[q])
    <3>1. \A q \in Workers : Sync!Noted(p, w.sym)[q] \in HandType /\ (q # p => Unheld(Sync!Noted(p, w.sym)[q], syncing[q]))
        <4> HIDE DEF SyncInv
        <4> QED BY <1>3, <1>4, NotedHand
    <3>2. Sync!Noted(p, w.sym) = [q \in Workers |-> Sync!Noted(p, w.sym)[q]]
        BY DEF Sync!Noted
    <3> QED BY <3>1, <3>2
  <2> HIDE DEF v, w, m
  <2> QED BY <1>7, <2>1, <2>2
<1> HIDE DEF v, m, w, r
<1>9. HandOk(v, r, bars', stocks')
    BY <1>1, <1>2, <1>3, <1>5, <1>6, <1>7 DEF HandOk
<1>10. /\ today' \in 1..SyncDays /\ run' \in Seq(RunType) /\ state' \in [SyncSymbols \X Sync!Sourced -> StateType]
       /\ run' = run /\ Len(run) <= Len(run') /\ stocks \subseteq stocks'
    BY <1>1 DEF SyncInv
<1>11. \A i \in 1..Len(run') : RunOk(run'[i], bars', stocks')
    BY <1>4, <1>10, RunKeeps DEF SyncInv
<1>12. StatesOk'
    BY <1>1, <1>4, StatesStay DEF SyncInv
<1> HIDE DEF SyncInv
<1> QED BY <1>1, <1>2, <1>4, <1>7, <1>8, <1>9, <1>10, <1>11, <1>12, OneMoves DEF w, r

\* A run in hand is replaced by another, and the worker goes on with it or stops.
LEMMA RunMoves ==
    ASSUME SyncInv, NEW p \in Workers, NEW v \in HandType, NEW r, syncing[p].step # "idle", syncing' = [syncing EXCEPT ![p] = v],
           run' = [run EXCEPT ![syncing[p].run] = r], RunOk(r, bars, stocks), UNCHANGED <<today, stocks, bars>>,
           state' \in [SyncSymbols \X Sync!Sourced -> StateType], StatesOk',
           v.step # "idle" => v.run = syncing[p].run /\ HandOk(v, r, bars, stocks)
    PROVE  SyncInv'
<1>1. syncing[p].run \in 1..Len(run) /\ Len(run) \in Nat /\ run \in [1..Len(run) -> RunType] /\ r \in RunType
    BY DEF SyncInv, RunOk
<1>2. /\ run' \in [1..Len(run) -> RunType] /\ run'[syncing[p].run] = r
      /\ \A i \in 1..Len(run) : i # syncing[p].run => run'[i] = run[i]
    BY <1>1
<1>3. run' \in Seq(RunType) /\ Len(run') = Len(run)
    BY <1>1, <1>2
<1>4. \A i \in 1..Len(run') : RunOk(run'[i], bars', stocks')
    BY <1>2, <1>3 DEF SyncInv
<1>5. /\ syncing' \in [Workers -> HandType] /\ syncing'[p] = v
      /\ \A q \in Workers : q # p => syncing'[q] = syncing[q]
    BY DEF SyncInv
<1>6. \A q \in Workers : q # p => Unheld(syncing'[q], syncing[q])
    BY <1>5 DEF SyncInv, Unheld, SameHand, HandType
<1>7. /\ today' \in 1..SyncDays /\ bars \subseteq bars' /\ stocks \subseteq stocks' /\ Len(run) <= Len(run')
      /\ bars' = bars /\ stocks' = stocks
    BY <1>1, <1>3 DEF SyncInv
<1>8. \A i \in 1..Len(run) : run'[i] = run[i] \/ (syncing[p].step # "idle" /\ i = syncing[p].run)
    BY <1>2
<1> HIDE DEF SyncInv
<1> QED BY <1>1, <1>2, <1>3, <1>4, <1>5, <1>6, <1>7, <1>8, OneMoves

LEMMA HandSymbol == ASSUME NEW w \in HandType, NEW r, NEW B, NEW S, HandOk(w, r, B, S), RunOk(r, B, S), w.step # "next"
                    PROVE  w.sym \in SyncSymbols
<1>1. r.wanted \in Seq(SyncSymbols) /\ Len(r.items) \in Nat
    BY DEF RunOk, RunType
<1>2. Len(r.items) + 1 <= Len(r.wanted) /\ w.sym = r.wanted[Len(r.items) + 1]
    BY DEF HandOk
<1> QED BY <1>1, <1>2

LEMMA SyncSize == \A D : Sync!Cardinality(D) = Cardinality(D)
BY DEF Sync!Cardinality, Cardinality

LEMMA EntryFacts == ASSUME NEW w \in HandType, w.sym \in SyncSymbols, NEW st \in {"success", "failed"}
                    PROVE  Sync!Item(w, st) \in Entry /\ Sync!Item(w, st).sym = w.sym /\ Sync!Item(w, st).status = st
<1>1. w.got \in SUBSET (1..SyncDays)
    BY DEF HandType
<1>2. IsFiniteSet(1..SyncDays)
    BY SomeDays, FS_Interval
<1>3. Cardinality(w.got) \in Nat
    BY <1>1, <1>2, FS_Subset, FS_CardinalityType
<1> QED BY <1>3, SyncSize DEF Sync!Item, Entry

\* The symbol in hand gets its item, and the next one is at hand.
LEMMA ItemAdded ==
    ASSUME NEW B, NEW S, NEW r, RunOk(r, B, S), NEW w \in HandType, HandOk(w, r, B, S), w.step # "next", NEW e \in Entry, e.sym = w.sym,
           e.status = "success" => DaysIn(B, w.sym) # {} /\ w.sym \in S
    PROVE  LET o == [r EXCEPT !.items = Append(@, e)]
           IN  RunOk(o, B, S) /\ HandOk(Sync!Onward(w), o, B, S) /\ Sync!Onward(w) \in HandType
<1> DEFINE o == [r EXCEPT !.items = Append(@, e)]
           n == Len(r.items)
<1>1. r \in RunType /\ r.items \in Seq(Entry) /\ r.status = "running" /\ n \in Nat /\ Len(r.wanted) \in Nat
    BY DEF RunOk, RunType, HandOk
<1>2. /\ Append(r.items, e) \in Seq(Entry) /\ Len(Append(r.items, e)) = n + 1 /\ Append(r.items, e)[n + 1] = e
      /\ \A j \in 1..n : Append(r.items, e)[j] = r.items[j]
    BY <1>1
<1>3. o \in RunType /\ o.items = Append(r.items, e) /\ o.wanted = r.wanted /\ o.req = r.req /\ o.status = "running"
    BY <1>1, <1>2 DEF RunType
<1>4. n + 1 <= Len(r.wanted) /\ w.sym = r.wanted[n + 1] /\ Rest(w.todo, r, n + 1)
    BY DEF HandOk
<1> HIDE DEF o, n
<1>5. RunOk(o, B, S)
  <2>1. ASSUME NEW j \in 1..Len(o.items)
        PROVE  o.items[j].sym = o.wanted[j] /\ (o.items[j].status = "success" => DaysIn(B, o.items[j].sym) # {} /\ o.items[j].sym \in S)
    <3>1. CASE j \in 1..n
        BY <1>2, <1>3, <3>1 DEF RunOk, n
    <3>2. CASE j = n + 1
        BY <1>2, <1>3, <1>4, <3>2
    <3>3. j \in 1..(n + 1)
        BY <1>2, <1>3
    <3>4. j \in 1..n \/ j = n + 1
        BY <1>1, <3>3
    <3> QED BY <3>1, <3>2, <3>4
  <2>2. Len(o.items) <= Len(o.wanted) /\ o.wanted = Sync!Resolved(o.req)
    BY <1>2, <1>3, <1>4 DEF RunOk
  <2> QED BY <1>3, <2>1, <2>2 DEF RunOk
<1>6. Sync!Onward(w) \in HandType /\ Sync!Onward(w).step = "next" /\ Sync!Onward(w).todo = w.todo
    BY FreshHand DEF HandType, Sync!Onward
<1>7. Rest(w.todo, o, Len(o.items))
    BY <1>2, <1>3, <1>4 DEF Rest
<1>8. HandOk(Sync!Onward(w), o, B, S)
    BY <1>3, <1>6, <1>7 DEF HandOk
<1> QED BY <1>5, <1>6, <1>8 DEF o

LEMMA MarkStays == ASSUME SyncInv, NEW p \in Workers, Sync!Mark(p) PROVE SyncInv'
<1> DEFINE w == syncing[p]
           r == run[w.run]
           e == Sync!Item(w, "success")
           k == <<w.sym, w.source>>
<1>1. w \in HandType /\ w.step = "state" /\ UNCHANGED <<today, stocks, bars>>
    BY DEF Sync!Mark, SyncInv
<1>2. w.run \in 1..Len(run) /\ HandOk(w, r, bars, stocks) /\ RunOk(r, bars, stocks)
    BY <1>1 DEF SyncInv
<1>3. /\ w.upto <= LatestIn(bars, w.sym) /\ DaysIn(bars, w.sym) # {} /\ w.sym \in stocks /\ w.source \in Givers
      /\ w.upto \in 0..SyncDays
    BY <1>1, <1>2 DEF HandOk, HandType
<1>4. w.sym \in SyncSymbols
    BY <1>1, <1>2, HandSymbol
<1>5. e \in Entry /\ e.sym = w.sym /\ e.status = "success"
    BY <1>1, <1>4, EntryFacts
<1>6. k \in SyncSymbols \X Sync!Sourced
    BY <1>3, <1>4 DEF Givers, Sync!Sourced
<1>7. state' = [state EXCEPT ![k] = Sync!GoodState(@, w.upto)] /\ state \in [SyncSymbols \X Sync!Sourced -> StateType]
    BY DEF Sync!Mark, SyncInv
<1>8. state' \in [SyncSymbols \X Sync!Sourced -> StateType] /\ StatesOk'
  <2> DEFINE st == Sync!GoodState(state[k], w.upto)
  <2>1. st \in StateType /\ st.upto = w.upto /\ st.good = w.upto
    BY <1>3, <1>6, <1>7 DEF Sync!GoodState, StateType
  <2> HIDE DEF st, w, k
  <2>2. /\ state' \in [SyncSymbols \X Sync!Sourced -> StateType] /\ state'[k] = st
        /\ \A i \in SyncSymbols \X Sync!Sourced : i # k => state'[i] = state[i]
    BY <1>6, <1>7, <2>1 DEF st
  <2>3. k[1] = w.sym
    BY DEF k
  <2> QED BY <1>1, <1>3, <2>1, <2>2, <2>3 DEF StatesOk, SyncInv
<1>9. run' = [run EXCEPT ![w.run] = [r EXCEPT !.items = Append(@, e)]] /\ syncing' = [syncing EXCEPT ![p] = Sync!Onward(w)]
    BY <1>2 DEF Sync!Mark, SyncInv
<1>10. LET o == [r EXCEPT !.items = Append(@, e)]
       IN  RunOk(o, bars, stocks) /\ HandOk(Sync!Onward(w), o, bars, stocks) /\ Sync!Onward(w) \in HandType
    <2> HIDE DEF w, r, e
    <2> QED BY <1>1, <1>2, <1>3, <1>5, ItemAdded
<1>11. Sync!Onward(w).run = w.run
    BY DEF Sync!Onward, Sync!Idle
<1> HIDE DEF SyncInv, r, e
<1> QED BY <1>1, <1>8, <1>9, <1>10, <1>11, RunMoves

LEMMA FailStays == ASSUME SyncInv, NEW p \in Workers, Sync!Fail(p) PROVE SyncInv'
<1> DEFINE w == syncing[p]
           r == run[w.run]
           e == Sync!Item([w EXCEPT !.got = {}], "failed")
           k == <<w.sym, "fallback">>
<1>1. w \in HandType /\ w.step = "failed" /\ UNCHANGED <<today, stocks, bars>>
    BY DEF Sync!Fail, SyncInv
<1>2. w.run \in 1..Len(run) /\ HandOk(w, r, bars, stocks) /\ RunOk(r, bars, stocks)
    BY <1>1 DEF SyncInv
<1>3. w.sym \in SyncSymbols
    BY <1>1, <1>2, HandSymbol
<1>4. e \in Entry /\ e.sym = w.sym /\ e.status = "failed"
  <2>1. [w EXCEPT !.got = {}] \in HandType /\ [w EXCEPT !.got = {}].sym = w.sym
    <3> HIDE DEF w
    <3> QED BY <1>1 DEF HandType
  <2> HIDE DEF w
  <2> QED BY <1>3, <2>1, EntryFacts
<1>5. k \in SyncSymbols \X Sync!Sourced
    BY <1>3 DEF Sync!Provider, Sync!Sourced
<1>6. /\ state' = [state EXCEPT ![k] = Sync!BadState(@, LatestIn(bars, w.sym))]
      /\ state \in [SyncSymbols \X Sync!Sourced -> StateType] /\ LatestIn(bars, w.sym) \in 0..SyncDays
  <2>1. Sync!Latest(w.sym) = LatestIn(bars, w.sym)
    BY DEF Sync!Latest, LatestIn, Sync!DaysOf, DaysIn, Givers
  <2> QED BY <2>1, LatestFacts DEF Sync!Fail, Sync!Provider, SyncInv
<1>7. state' \in [SyncSymbols \X Sync!Sourced -> StateType] /\ StatesOk'
  <2> DEFINE st == Sync!BadState(state[k], LatestIn(bars, w.sym))
  <2>1. st \in StateType /\ st.upto = LatestIn(bars, w.sym) /\ st.good = state[k].good
    <3>1. state[k] \in StateType
        BY <1>5, <1>6
    <3>2. PICK old \in StateType, upto \in 0..SyncDays : old = state[k] /\ upto = LatestIn(bars, w.sym)
        BY <1>6, <3>1
    <3>3. old.errors + 1 \in Nat
        BY DEF StateType
    <3>4. Sync!BadState(old, upto) \in StateType /\ Sync!BadState(old, upto).upto = upto /\ Sync!BadState(old, upto).good = old.good
        BY <3>3 DEF Sync!BadState, StateType
    <3> QED BY <3>2, <3>4
  <2> HIDE DEF st, w, k
  <2>2. /\ state' \in [SyncSymbols \X Sync!Sourced -> StateType] /\ state'[k] = st
        /\ \A i \in SyncSymbols \X Sync!Sourced : i # k => state'[i] = state[i]
    BY <1>5, <1>6, <2>1 DEF st
  <2>3. k[1] = w.sym
    BY DEF k
  <2>4. LatestIn(bars, w.sym) <= LatestIn(bars, w.sym)
    BY <1>6, SomeDays
  <2> QED BY <1>1, <1>5, <2>1, <2>2, <2>3, <2>4 DEF StatesOk, SyncInv
<1>8. run' = [run EXCEPT ![w.run] = [r EXCEPT !.items = Append(@, e)]] /\ syncing' = [syncing EXCEPT ![p] = Sync!Onward(w)]
    BY <1>2 DEF Sync!Fail, SyncInv
<1>9. LET o == [r EXCEPT !.items = Append(@, e)]
      IN  RunOk(o, bars, stocks) /\ HandOk(Sync!Onward(w), o, bars, stocks) /\ Sync!Onward(w) \in HandType
    <2> HIDE DEF w, r, e
    <2> QED BY <1>1, <1>2, <1>4, ItemAdded
<1>10. Sync!Onward(w).run = w.run
    BY DEF Sync!Onward, Sync!Idle
<1> HIDE DEF SyncInv, r, e
<1> QED BY <1>1, <1>7, <1>8, <1>9, <1>10, RunMoves

\* The synced and the failed items of a run are all of them.
LEMMA CountsAddUp == ASSUME NEW items \in Seq(Entry)
                     PROVE  /\ Sync!Count(items, "success") \in Nat /\ Sync!Count(items, "failed") \in Nat
                            /\ Sync!Count(items, "success") + Sync!Count(items, "failed") = Len(items)
<1> DEFINE A == {i \in DOMAIN items : items[i].status = "success"}
           F == {i \in DOMAIN items : items[i].status = "failed"}
<1>1. DOMAIN items = 1..Len(items) /\ Len(items) \in Nat /\ \A i \in 1..Len(items) : items[i].status \in {"success", "failed"}
  <2> HIDE DEF A, F
  <2>1. DOMAIN items = 1..Len(items) /\ Len(items) \in Nat /\ \A i \in 1..Len(items) : items[i] \in Entry
    OBVIOUS
  <2>2. \A e \in Entry : e.status \in {"success", "failed"}
    BY DEF Entry
  <2> QED BY <2>1, <2>2
<1>2. A \cup F = 1..Len(items) /\ A \cap F = {}
    BY <1>1
<1>3. IsFiniteSet(1..Len(items)) /\ Cardinality(1..Len(items)) = Len(items)
    BY <1>1, FS_Interval
<1>4. IsFiniteSet(A) /\ IsFiniteSet(F)
    BY <1>2, <1>3, FS_Subset
<1>5. Cardinality(A) \in Nat /\ Cardinality(F) \in Nat /\ Cardinality(A \cup F) = Cardinality(A) + Cardinality(F) - Cardinality(A \cap F)
    BY <1>4, FS_CardinalityType, FS_Union
<1>6. Cardinality(A \cap F) = 0
    BY <1>2, FS_EmptySet
<1>7. Sync!Count(items, "success") = Cardinality(A) /\ Sync!Count(items, "failed") = Cardinality(F)
    BY SyncSize DEF Sync!Count
<1> HIDE DEF A, F
<1>8. Cardinality(A \cup F) = Len(items)
    BY <1>2, <1>3
<1>9. PICK a \in Nat, f \in Nat : a = Cardinality(A) /\ f = Cardinality(F)
    BY <1>5
<1>10. Len(items) = a + f - 0
    BY <1>5, <1>6, <1>8, <1>9
<1> QED BY <1>7, <1>9, <1>10

LEMMA FinishStays == ASSUME SyncInv, NEW p \in Workers, Sync!Finish(p) PROVE SyncInv'
<1> DEFINE w == syncing[p]
           r == run[w.run]
           good == Sync!Count(r.items, "success")
           bad == Sync!Count(r.items, "failed")
           o == [r EXCEPT !.status = Sync!Verdict(good, bad), !.synced = good, !.failed = bad]
<1>1. w \in HandType /\ w.step = "next" /\ w.todo = <<>> /\ UNCHANGED <<today, stocks, bars, state>>
    BY DEF Sync!Finish, SyncInv
<1>2. w.run \in 1..Len(run) /\ HandOk(w, r, bars, stocks) /\ RunOk(r, bars, stocks)
    BY <1>1 DEF SyncInv
<1>3. r \in RunType /\ r.items \in Seq(Entry) /\ Len(r.items) \in Nat /\ Len(r.wanted) \in Nat
    BY <1>2 DEF RunOk, RunType
<1>4. good \in Nat /\ bad \in Nat /\ good + bad = Len(r.items)
    BY <1>3, CountsAddUp
<1>5. Len(r.items) = Len(r.wanted)
  <2>1. Len(w.todo) = Len(r.wanted) - Len(r.items) /\ Len(w.todo) = 0
    BY <1>1, <1>2 DEF HandOk, Rest
  <2>2. PICK a \in Nat, b \in Nat : a = Len(r.items) /\ b = Len(r.wanted)
    BY <1>3
  <2>3. b - a = 0
    BY <2>1, <2>2
  <2> QED BY <2>2, <2>3
<1>6. /\ run' = [run EXCEPT ![w.run] = o] /\ syncing' = [syncing EXCEPT ![p] = Sync!Idle]
  <2>1. run' = [run EXCEPT ![w.run] = [run[w.run] EXCEPT !.status = Sync!Verdict(good, bad), !.synced = good, !.failed = bad]]
    BY <1>2 DEF Sync!Finish, SyncInv
  <2> QED BY <2>1 DEF Sync!Finish
<1> HIDE DEF w, good, bad
<1>7. /\ o \in RunType /\ o.items = r.items /\ o.wanted = r.wanted /\ o.req = r.req
      /\ o.status = Sync!Verdict(good, bad) /\ o.synced = good /\ o.failed = bad
  <2>1. Sync!Verdict(good, bad) \in {"running", "completed", "completed_with_errors", "failed"}
    BY DEF Sync!Verdict
  <2> HIDE DEF r
  <2> QED BY <1>3, <1>4, <2>1 DEF RunType
<1> HIDE DEF o, r
<1>8. (Sync!Verdict(good, bad) = "failed") <=> (bad = good + bad /\ bad > 0)
    BY <1>4 DEF Sync!Verdict
<1>9. RunOk(o, bars, stocks)
  <2>1. \A j \in 1..Len(o.items) :
          /\ o.items[j].sym = o.wanted[j]
          /\ o.items[j].status = "success" => DaysIn(bars, o.items[j].sym) # {} /\ o.items[j].sym \in stocks
    BY <1>2, <1>7 DEF RunOk
  <2>2. /\ Len(o.items) = Len(o.wanted) /\ o.synced + o.failed = Len(o.items)
        /\ (o.status = "failed") <=> (o.failed = Len(o.items) /\ o.failed > 0)
    BY <1>4, <1>5, <1>7, <1>8
  <2>3. o.wanted = Sync!Resolved(o.req) /\ Len(o.items) <= Len(o.wanted)
    BY <1>2, <1>7 DEF RunOk
  <2> QED BY <1>7, <2>1, <2>2, <2>3 DEF RunOk
<1>10. state' \in [SyncSymbols \X Sync!Sourced -> StateType] /\ StatesOk'
    BY <1>1 DEF SyncInv, StatesOk
<1> HIDE DEF SyncInv
<1> QED BY <1>1, <1>6, <1>9, <1>10, IdleHand, RunMoves DEF w, o, r

LEMMA ReadThroughStays == ASSUME SyncInv, NEW s \in SyncSymbols, NEW win \in Windows, Sync!ReadThrough(s, win) PROVE SyncInv'
<1> DEFINE src == Sources[Len(Sources)]
<1>1. src \in Givers
  <2>1. Sources # <<>> /\ Sources \in Seq({Sources[i] : i \in DOMAIN Sources})
    BY SyncAssumption
  <2>2. Len(Sources) \in DOMAIN Sources
    BY <2>1
  <2> QED BY <2>2 DEF Givers, Sync!Range
<1>2. PICK k \in win[1]..win[2] : bars' = bars \cup Sync!Stored(s, src, win[1]..k)
    BY DEF Sync!ReadThrough
<1>3. win[1] \in Nat \ {0} /\ win[2] \in Nat
    BY SyncAssumption
<1>4. win[2] <= today /\ stocks' = stocks \cup {s} /\ syncing' = Sync!Noted("", s) /\ UNCHANGED <<today, state, run>>
    BY DEF Sync!ReadThrough
<1>5. win[1]..k \in SUBSET (1..SyncDays)
  <2>1. today \in Int /\ today <= SyncDays /\ SyncDays \in Int /\ win[1] \in Int /\ win[2] \in Int /\ win[1] >= 1
    BY <1>3, SomeDays DEF SyncInv
  <2>2. k \in Int /\ k <= win[2]
    BY <2>1
  <2>3. k <= SyncDays
    <3>1. win[2] <= today
        BY DEF Sync!ReadThrough
    <3> QED BY <2>1, <2>2, <3>1
  <2> QED BY <2>1, <2>2, <2>3
<1> HIDE DEF src
<1>6. ASSUME NEW q \in Workers PROVE syncing'[q] \in HandType /\ Unheld(syncing'[q], syncing[q])
  <2>1. q # ""
    BY NoName
  <2> HIDE DEF SyncInv
  <2> QED BY <1>1, <1>2, <1>4, <1>5, <2>1, NotedHand
<1>7. syncing' \in [Workers -> HandType]
    BY <1>4, <1>6 DEF Sync!Noted
<1>8. bars \subseteq bars' /\ stocks \subseteq stocks' /\ run' = run
    BY <1>2, <1>4
<1>9. \A i \in 1..Len(run') : RunOk(run'[i], bars', stocks')
    BY <1>8, RunKeeps DEF SyncInv
<1>10. StatesOk'
    BY <1>4, <1>8, StatesStay DEF SyncInv
<1>11. ASSUME NEW p \in Workers, syncing'[p].step # "idle"
       PROVE  /\ syncing'[p].run \in 1..Len(run') /\ HandOk(syncing'[p], run'[syncing'[p].run], bars', stocks')
              /\ \A q \in Workers : q # p /\ syncing'[q].step # "idle" => syncing'[q].run # syncing'[p].run
  <2>1. \A q \in Workers : SameHand(syncing'[q], syncing[q])
    BY <1>6 DEF Unheld
  <2>2. syncing[p].step # "idle" /\ syncing'[p].run = syncing[p].run
    BY <1>11, <2>1 DEF SameHand
  <2>3. syncing[p].run \in 1..Len(run) /\ HandOk(syncing[p], run[syncing[p].run], bars, stocks) /\ syncing[p] \in HandType
    BY <2>2 DEF SyncInv
  <2>4. HandOk(syncing'[p], run[syncing[p].run], bars', stocks')
    BY <1>6, <1>8, <2>1, <2>3, HandKeeps DEF Unheld
  <2>5. \A q \in Workers : q # p /\ syncing'[q].step # "idle" => syncing'[q].run # syncing'[p].run
    BY <2>1, <2>2 DEF SameHand, SyncInv
  <2> QED BY <1>8, <2>2, <2>3, <2>4, <2>5
<1> QED BY <1>4, <1>7, <1>8, <1>9, <1>10, <1>11 DEF SyncInv

syncAll == <<today, stocks, bars, state, run, syncing>>
LEMMA SyncBegins == Sync!Init => SyncInv
<1> SUFFICES ASSUME Sync!Init PROVE SyncInv
    OBVIOUS
<1>1. Sync!NoState \in StateType /\ Sync!NoState.upto = 0 /\ Sync!NoState.good = 0
    BY SomeDays DEF Sync!NoState, StateType
<1>2. /\ state \in [SyncSymbols \X Sync!Sourced -> StateType]
      /\ \A k \in SyncSymbols \X Sync!Sourced : state[k].upto = 0 /\ state[k].good = 0
    BY <1>1 DEF Sync!Init
<1>3. StatesOk
    <2>1. \A k \in SyncSymbols \X Sync!Sourced : 0 <= LatestIn(bars, k[1])
        BY LatestFacts, SomeDays
    <2> QED BY <1>2, <2>1 DEF StatesOk
<1>4. today \in 1..SyncDays /\ run = <<>> /\ syncing = [p \in Workers |-> Sync!Idle]
    BY SomeDays DEF Sync!Init
<1>5. syncing \in [Workers -> HandType] /\ \A p \in Workers : syncing[p].step = "idle"
    BY <1>4, IdleHand
<1>6. run \in Seq(RunType) /\ Len(run) = 0
    BY <1>4
<1> QED BY <1>2, <1>3, <1>4, <1>5, <1>6 DEF SyncInv

LEMMA SyncStays == SyncInv /\ [Sync!Next]_syncAll => SyncInv'
<1> SUFFICES ASSUME SyncInv, [Sync!Next]_syncAll PROVE SyncInv'
    OBVIOUS
<1>1. CASE UNCHANGED syncAll
    BY <1>1 DEF SyncInv, StatesOk, syncAll
<1>2. ASSUME NEW p \in Workers, NEW req \in Asked, Sync!Begin(p, req) PROVE SyncInv'
    BY <1>2, BeginStays
<1>3. ASSUME NEW p \in Workers,
             \/ Sync!Window(p) \/ Sync!Fetch(p) \/ Sync!Raise(p) \/ Sync!StoreStock(p) \/ Sync!StoreBars(p) \/ Sync!Mark(p)
             \/ Sync!Fail(p) \/ Sync!Finish(p) \/ Sync!Die(p)
      PROVE  SyncInv'
    BY <1>3, WindowStays, FetchStays, RaiseStays, StoreStockStays, StoreBarsStays, MarkStays, FailStays, FinishStays, DieStays
<1>4. ASSUME NEW s \in SyncSymbols, NEW win \in Windows, Sync!ReadThrough(s, win) PROVE SyncInv'
    BY <1>4, ReadThroughStays
<1>5. CASE Sync!NextDay
    BY <1>5, NextDayStays
<1> QED BY <1>1, <1>2, <1>3, <1>4, <1>5 DEF Sync!Next, Asked

\* A run that ended has one item for each name it was asked for.
LEMMA RunsSound == SyncInv => Sync!RunAccounted
<1> SUFFICES ASSUME SyncInv, NEW i \in DOMAIN run, Sync!Done(run[i])
             PROVE  LET r == run[i] IN
                    /\ {r.items[j].sym : j \in DOMAIN r.items} = Sync!Range(r.req.symbols)
                    /\ Len(r.items) = Sync!Cardinality(Sync!Range(r.req.symbols)) /\ r.synced + r.failed = Len(r.items)
                    /\ (r.status = "failed") <=> (r.failed = Len(r.items) /\ r.failed > 0)
                    /\ \A j \in DOMAIN r.items : r.items[j].status = "success" => Sync!DaysOf(r.items[j].sym) # {} /\ r.items[j].sym \in stocks
    BY DEF Sync!RunAccounted
<1>1. i \in 1..Len(run)
    BY DEF SyncInv
<1>2. PICK r : r = run[i] /\ RunOk(r, bars, stocks)
    BY <1>1 DEF SyncInv
<1>3. r.items \in Seq(Entry) /\ r.wanted \in Seq(SyncSymbols) /\ r.req \in Asked /\ r.status # "running"
    BY <1>2 DEF RunOk, RunType, Sync!Done
<1>4. /\ DOMAIN r.items = 1..Len(r.items) /\ DOMAIN r.wanted = 1..Len(r.items) /\ Len(r.items) \in Nat
      /\ Len(r.items) = Len(r.wanted) /\ r.synced + r.failed = Len(r.items)
      /\ (r.status = "failed") <=> (r.failed = Len(r.items) /\ r.failed > 0)
    BY <1>2, <1>3 DEF RunOk
<1>5. \A j \in 1..Len(r.items) : r.items[j].sym = r.wanted[j]
    BY <1>2 DEF RunOk
<1>6. /\ {r.wanted[j] : j \in 1..Len(r.items)} = Sync!Range(r.req.symbols)
      /\ \A j, k \in 1..Len(r.items) : r.wanted[j] = r.wanted[k] => j = k
  <2>1. r.wanted = Sync!Resolved(r.req)
    BY <1>2 DEF RunOk
  <2>2. PICK req \in Asked : req = r.req
    BY <1>3
  <2>3. /\ {Sync!Resolved(req)[j] : j \in DOMAIN Sync!Resolved(req)} = Sync!Range(req.symbols)
        /\ \A j, k \in DOMAIN Sync!Resolved(req) : Sync!Resolved(req)[j] = Sync!Resolved(req)[k] => j = k
    BY ResolvedFacts
  <2>4. DOMAIN r.wanted = 1..Len(r.items) /\ r.wanted = Sync!Resolved(req)
    BY <1>4, <2>1, <2>2
  <2> QED BY <2>2, <2>3, <2>4
<1>7. {r.items[j].sym : j \in DOMAIN r.items} = Sync!Range(r.req.symbols)
  <2>1. {r.items[j].sym : j \in 1..Len(r.items)} = {r.wanted[j] : j \in 1..Len(r.items)}
    <3> DEFINE A == {r.items[j].sym : j \in 1..Len(r.items)}
               F == {r.wanted[j] : j \in 1..Len(r.items)}
    <3>1. \A x : x \in A => x \in F
        BY <1>5
    <3>2. \A x : x \in F => x \in A
        BY <1>5
    <3> HIDE DEF A, F
    <3>3. A = F
        BY <3>1, <3>2
    <3> QED BY <3>3 DEF A, F
  <2> QED BY <1>4, <1>6, <2>1
<1>8. Len(r.items) = Sync!Cardinality(Sync!Range(r.req.symbols))
  <2> DEFINE D == {r.wanted[j] : j \in 1..Len(r.items)}
             f == [j \in 1..Len(r.items) |-> r.wanted[j]]
  <2>1. f \in Bijection(1..Len(r.items), D)
    <3>1. f \in [1..Len(r.items) -> D]
        OBVIOUS
    <3>2. \A j, k \in 1..Len(r.items) : f[j] = f[k] => j = k
        BY <1>6
    <3>3. \A x \in D : \E j \in 1..Len(r.items) : f[j] = x
        OBVIOUS
    <3> HIDE DEF f, D
    <3> QED BY <3>1, <3>2, <3>3 DEF Bijection, Injection, IsInjective, Surjection
  <2>2. ExistsBijection(1..Len(r.items), D)
    BY <2>1 DEF ExistsBijection
  <2>3. IsFiniteSet(1..Len(r.items)) /\ Cardinality(1..Len(r.items)) = Len(r.items)
    BY <1>4, FS_Interval
  <2>4. Cardinality(D) = Len(r.items)
    <3> HIDE DEF D, f
    <3> QED BY <2>2, <2>3, FS_Bijection
  <2> QED BY <1>6, <2>4, SyncSize
<1>9. \A s : Sync!DaysOf(s) = DaysIn(bars, s)
    BY DEF Sync!DaysOf, DaysIn, Givers
<1>10. \A j \in DOMAIN r.items : r.items[j].status = "success" => Sync!DaysOf(r.items[j].sym) # {} /\ r.items[j].sym \in stocks
  <2>1. \A j \in 1..Len(r.items) : r.items[j].status = "success" => DaysIn(bars, r.items[j].sym) # {} /\ r.items[j].sym \in stocks
    BY <1>2 DEF RunOk
  <2> QED BY <1>4, <1>9, <2>1, Zenon
<1>11. run[i] = r
    BY <1>2
<1> QED BY <1>4, <1>7, <1>8, <1>10, <1>11, Zenon

LEMMA StatesSound == SyncInv => Sync!StateWithinBars
<1>1. \A s : Sync!Latest(s) = LatestIn(bars, s)
    BY DEF Sync!Latest, LatestIn, Sync!DaysOf, DaysIn, Givers
<1> QED BY <1>1 DEF SyncInv, StatesOk, Sync!StateWithinBars

\* The write of a window makes only the gaps that a correction makes.
LEMMA GapsFew ==
    ASSUME SyncInv, NEW p \in Workers, Sync!StoreBars(p), run[syncing[p].run].req.incremental, run[syncing[p].run].req.start = 0, ~syncing[p].raced,
           NEW d \in Sync!Gaps(syncing[p].sym)' \ Sync!Gaps(syncing[p].sym)
    PROVE  /\ run[syncing[p].run].req.correction > 0 /\ Sync!DaysOf(syncing[p].sym) # {}
           /\ \A e \in Sync!DaysOf(syncing[p].sym) : d < e
<1> DEFINE w == syncing[p]
           r == run[w.run]
           B == bars
           C == bars'
<1>1. w \in HandType /\ w.step = "bars" /\ HandOk(w, r, bars, stocks)
    BY DEF Sync!StoreBars, SyncInv
<1>2. /\ w.source \in Givers /\ w.got \in SUBSET (1..SyncDays) /\ w.from \in Int /\ WindowOk(w, r, bars)
      /\ \E k \in Int : w.got = {x \in 1..SyncDays : w.from <= x /\ x <= k}
    BY <1>1 DEF HandOk, HandType
<1>3. bars' = bars \cup Sync!Stored(w.sym, w.source, w.got)
    BY DEF Sync!StoreBars
<1>4. Sync!DaysOf(w.sym) = DaysIn(bars, w.sym)
    BY DEF Sync!DaysOf, DaysIn, Givers
<1>5. /\ Sync!Gaps(w.sym) = GapsIn(bars, w.sym)
      /\ d \in GapsIn(bars', w.sym)
  <2>1. syncing'[p].sym = w.sym
    BY DEF Sync!StoreBars, Sync!Noted, SyncInv, HandType
  <2> HIDE DEF SyncInv
  <2> QED BY <2>1 DEF Sync!Gaps, GapsIn, Sync!Latest, LatestIn, Sync!DaysOf, DaysIn, Givers
<1>6. \/ LatestIn(bars, w.sym) = 0
      \/ r.req.correction > 0 /\ w.from <= LatestIn(bars, w.sym)
      \/ w.from = LatestIn(bars, w.sym) + 1
    BY <1>2 DEF WindowOk
<1>7. LatestIn(bars, w.sym) \in 0..SyncDays /\ (LatestIn(bars, w.sym) # 0 => LatestIn(bars, w.sym) \in DaysIn(bars, w.sym))
    BY LatestFacts
<1>8. d \notin GapsIn(bars, w.sym)
    BY <1>5
<1> HIDE DEF w, r
<1>9. LatestIn(bars, w.sym) # 0 /\ w.from < LatestIn(bars, w.sym) /\ \A e \in DaysIn(bars, w.sym) : d < e
  <2>1. PICK k \in Int : w.got = {x \in 1..SyncDays : w.from <= x /\ x <= k}
    BY <1>2
  <2>2. LatestIn(bars, w.sym) = 0 \/ w.from <= LatestIn(bars, w.sym) + 1
    BY <1>2, <1>6, <1>7, SomeDays
  <2>3. PICK s \in {w.sym}, src \in Givers, got \in SUBSET (1..SyncDays), from \in Int : s = w.sym /\ src = w.source /\ got = w.got /\ from = w.from
    BY <1>2
  <2>4. /\ got = {x \in 1..SyncDays : from <= x /\ x <= k} /\ (LatestIn(bars, s) = 0 \/ from <= LatestIn(bars, s) + 1)
        /\ d \in GapsIn(bars \cup Sync!Stored(s, src, got), s) /\ d \notin GapsIn(bars, s)
    BY <1>3, <1>5, <1>8, <2>1, <2>2, <2>3
  <2>5. LatestIn(bars, s) # 0 /\ from < LatestIn(bars, s) /\ \A e \in DaysIn(bars, s) : d < e
    BY <2>4, FewGaps
  <2> QED BY <2>3, <2>5
<1>10. r.req.correction > 0
    BY <1>2, <1>6, <1>7, <1>9, SomeDays
<1> QED BY <1>4, <1>7, <1>9, <1>10 DEF w, r

\* Only the write of its bars takes a worker from there to the state.
LEMMA OnlyTheWrite ==
    ASSUME SyncInv, [Sync!Next]_syncAll, NEW p \in Workers, syncing[p].step = "bars", syncing'[p].step = "state"
    PROVE  Sync!StoreBars(p)
<1>1. syncing \in [Workers -> HandType]
    BY DEF SyncInv
<1>2. ~UNCHANGED syncAll
    BY DEF syncAll
<1>3. ASSUME NEW q \in Workers, NEW req \in Asked, Sync!Begin(q, req) PROVE FALSE
    BY <1>1, <1>3 DEF Sync!Begin, Sync!Idle
<1>4. ASSUME NEW q \in Workers, Sync!Window(q) PROVE FALSE
    BY <1>1, <1>4 DEF Sync!Window, Sync!Idle
<1>5. ASSUME NEW q \in Workers, Sync!Fetch(q) PROVE FALSE
    BY <1>1, <1>5 DEF Sync!Fetch
<1>6. ASSUME NEW q \in Workers, Sync!Raise(q) \/ Sync!StoreStock(q) PROVE FALSE
  <2>1. CASE Sync!Raise(q)
    <3>1. syncing' = [syncing EXCEPT ![q] = [syncing[q] EXCEPT !.step = "failed", !.source = Sync!Provider]]
        BY <1>1, <2>1 DEF Sync!Raise
    <3>2. [syncing[q] EXCEPT !.step = "failed", !.source = Sync!Provider].step = "failed"
        BY <1>1 DEF HandType
    <3> QED BY <1>1, <3>1, <3>2
  <2>2. CASE Sync!StoreStock(q)
    BY <1>1, <2>2 DEF Sync!StoreStock
  <2> QED BY <1>6, <2>1, <2>2
<1>7. ASSUME NEW q \in Workers, Sync!Mark(q) \/ Sync!Fail(q) PROVE FALSE
    BY <1>1, <1>7 DEF Sync!Mark, Sync!Fail
<1>8. ASSUME NEW q \in Workers, Sync!Finish(q) \/ Sync!Die(q) PROVE FALSE
    BY <1>1, <1>8, IdleHand DEF Sync!Finish, Sync!Die
<1>9. ASSUME NEW o, NEW s PROVE Sync!Noted(o, s)[p].step = "bars"
    BY <1>1 DEF Sync!Noted, HandType
<1>10. ASSUME NEW q \in Workers, q # p, Sync!StoreBars(q) PROVE FALSE
  <2>1. syncing'[p] = Sync!Noted(q, syncing[q].sym)[p]
    BY <1>10 DEF Sync!StoreBars, Sync!Noted
  <2> QED BY <1>9, <2>1
<1>11. ASSUME NEW s \in SyncSymbols, NEW win \in Windows, Sync!ReadThrough(s, win) PROVE FALSE
    BY <1>9, <1>11 DEF Sync!ReadThrough
<1>12. CASE Sync!NextDay
    BY <1>12 DEF Sync!NextDay
<1> HIDE DEF SyncInv
<1> QED BY <1>2, <1>3, <1>4, <1>5, <1>6, <1>7, <1>8, <1>10, <1>11, <1>12 DEF Sync!Next, Asked

-----------------------------------------------------------------------------
\* The plans.  Sets of securities have one enumeration in order, which meets each
\* of them.
LEMMA PlanSize == \A S : Plan!Cardinality(S) = Cardinality(S)
BY DEF Plan!Cardinality, Cardinality

InOrder(S) == \E u \in [1..Cardinality(S) -> S] : Plan!Sorted(u)
LEMMA SomeOrder == ASSUME NEW m \in Nat, NEW S, S \subseteq 1..m PROVE InOrder(S)
<1> DEFINE Bad == {k \in 0..m : ~InOrder(S \cap 1..k)}
<1>1. SUFFICES ASSUME Bad # {} PROVE FALSE
  <2>1. S \cap 1..m = S
    BY Zenon
  <2>2. m \in 0..m
    OBVIOUS
  <2> QED BY <2>1, <2>2
<1>2. PICK k \in Bad : \A j \in Bad : k <= j
  <2>1. Bad \subseteq Nat
    OBVIOUS
  <2> HIDE DEF Bad
  <2> QED BY <1>1, <2>1, LeastIsThere
<1>3. CASE k = 0
  <2>1. S \cap 1..k = {} /\ Cardinality({}) = 0
    BY <1>3, FS_EmptySet
  <2>2. <<>> \in [1..0 -> {}]
    OBVIOUS
  <2>3. Plan!Sorted(<<>>)
    BY DEF Plan!Sorted
  <2>4. InOrder({})
    BY <2>1, <2>2, <2>3 DEF InOrder
  <2> QED BY <1>2, <2>1, <2>4
<1>4. CASE k # 0
  <2>1. k \in Nat /\ k - 1 \in 0..m /\ k - 1 \notin Bad /\ k \in 1..m
    BY <1>2, <1>4
  <2> DEFINE P == S \cap 1..(k - 1)
             n == Cardinality(P)
  <2>2. PICK u \in [1..n -> P] : Plan!Sorted(u)
    BY <2>1 DEF InOrder
  <2>3. IsFiniteSet(P) /\ n \in Nat
    <3>1. IsFiniteSet(1..(k - 1)) /\ P \in SUBSET (1..(k - 1))
        BY <2>1, FS_Interval
    <3> HIDE DEF P
    <3>2. IsFiniteSet(P)
        BY <3>1, FS_Subset
    <3> QED BY <3>2, FS_CardinalityType
  <2>4. CASE k \notin S
    <3>1. (S \cap 1..k) = P
        BY <2>1, <2>4
    <3> QED BY <1>2, <2>2, <3>1 DEF InOrder
  <2>5. CASE k \in S
    <3>1. (S \cap 1..k) = P \cup {k} /\ k \notin P /\ \A s \in P : s \in Nat /\ s < k
        BY <2>1, <2>5
    <3>2. Cardinality((S \cap 1..k)) = n + 1
        BY <2>3, <3>1, FS_AddElement
    <3> DEFINE v == [i \in 1..(n + 1) |-> IF i = n + 1 THEN k ELSE u[i]]
    <3> HIDE DEF P, n
    <3>3. v \in [1..(n + 1) -> P \cup {k}]
        BY <2>2, <2>3
    <3>4. ASSUME NEW i \in 1..(n + 1), NEW j \in 1..(n + 1), i < j PROVE v[i] < v[j]
      <4>1. i \in 1..n /\ u[i] \in P
        BY <2>2, <2>3, <3>4
      <4>2. CASE j = n + 1
        BY <2>3, <3>1, <4>1, <4>2
      <4>3. CASE j # n + 1
        <5>1. j \in 1..n
            BY <2>3, <4>3
        <5>2. u[i] < u[j]
            BY <2>2, <3>4, <4>1, <5>1 DEF Plan!Sorted
        <5> QED BY <2>3, <4>1, <5>1, <5>2
      <4> QED BY <4>2, <4>3
    <3>5. Plan!Sorted(v)
        BY <3>4 DEF Plan!Sorted
    <3> HIDE DEF v
    <3>6. InOrder(S \cap 1..k)
        BY <3>1, <3>2, <3>3, <3>5 DEF InOrder
    <3> QED BY <1>2, <3>6
  <2> QED BY <2>4, <2>5
<1> QED BY <1>3, <1>4

LEMMA WholeOrder ==
    ASSUME listed \subseteq 1..PlanSymbols
    PROVE  /\ Plan!Universe \in Seq(Nat) /\ Plan!Sorted(Plan!Universe)
           /\ \A s : s \in listed <=> \E j \in DOMAIN Plan!Universe : Plan!Universe[j] = s
<1> DEFINE u == Plan!Universe
           n == Cardinality(listed)
<1>1. u \in [1..n -> listed] /\ Plan!Sorted(u)
      <2>1. InOrder(listed)
    BY PlanAssumption, SomeOrder
  <2>2. \E v \in [1..n -> listed] : Plan!Sorted(v)
    BY <2>1 DEF InOrder
  <2>3. u = CHOOSE v \in [1..n -> listed] : Plan!Sorted(v)
    BY PlanSize DEF Plan!Universe
  <2> HIDE DEF u, n
  <2> QED BY <2>2, <2>3
<1>2. IsFiniteSet(listed) /\ n \in Nat
  <2>1. IsFiniteSet(1..PlanSymbols) /\ listed \in SUBSET (1..PlanSymbols)
    BY PlanAssumption, FS_Interval
  <2>2. IsFiniteSet(listed)
    BY <2>1, FS_Subset
  <2> QED BY <2>2, FS_CardinalityType
<1> HIDE DEF u, n
<1>0. \A s \in listed : s \in Nat
    BY PlanAssumption
<1>3. u \in Seq(Nat) /\ DOMAIN u = 1..n
  <2>1. u \in [1..n -> Nat]
    BY <1>0, <1>1
  <2> QED BY <1>2, <2>1
<1>4. ASSUME NEW i \in 1..n, NEW j \in 1..n, u[i] = u[j] PROVE i = j
  <2>0. u[i] \in Nat
    BY <1>0, <1>1
  <2>1. ~(u[i] < u[j]) /\ ~(u[j] < u[i])
    BY <1>4, <2>0
  <2>2. ~(i < j) /\ ~(j < i)
    BY <1>1, <2>1 DEF Plan!Sorted
  <2> QED BY <1>2, <2>2
<1>5. u \in Injection(1..n, listed)
    BY <1>1, <1>4 DEF Injection, IsInjective
<1>6. u \in Surjection(1..n, listed)
  <2>1. IsFiniteSet(1..n) /\ Cardinality(1..n) = n
    BY <1>2, FS_Interval
  <2>2. Cardinality(1..n) = Cardinality(listed)
    BY <2>1 DEF n
  <2> DEFINE D == 1..n
  <2> HIDE DEF D
  <2>3. IsFiniteSet(listed) /\ Cardinality(D) = Cardinality(listed) /\ u \in Injection(D, listed)
    BY <1>2, <1>5, <2>2 DEF D
  <2>4. u \in Surjection(D, listed)
    BY <2>3, FS_Injection
  <2> QED BY <2>4 DEF D
<1> QED BY <1>1, <1>3, <1>6 DEF u, Surjection

\* The batches of a list: batch after batch, each element once.
LEMMA Batches ==
    ASSUME NEW u \in Seq(Nat)
    PROVE  /\ Plan!Chunked(u) \in Seq(Seq(Nat))
           /\ \A i \in DOMAIN Plan!Chunked(u) :
                 /\ Len(Plan!Chunked(u)[i]) \in 1..PlanBatch
                 /\ \A k \in DOMAIN Plan!Chunked(u)[i] : /\ (i - 1) * PlanBatch + k \in DOMAIN u
                                                         /\ Plan!Chunked(u)[i][k] = u[(i - 1) * PlanBatch + k]
           /\ \A j \in DOMAIN u : \E i \in DOMAIN Plan!Chunked(u) : \E k \in DOMAIN Plan!Chunked(u)[i] :
                 j = (i - 1) * PlanBatch + k
<1>0. PlanBatch \in Nat \ {0}
    BY PlanAssumption
<1>1. PICK B \in Nat \ {0} : B = PlanBatch
    BY <1>0
<1>2. PICK n \in Nat : n = Len(u)
    OBVIOUS
<1> DEFINE c == (n + B - 1) \div B
           C == [i \in 1..c |-> SubSeq(u, (i - 1) * B + 1, Plan!Least(i * B, n))]
<1>3. n + B - 1 \in Nat /\ c \in Nat /\ c * B \in Nat /\ c * B <= n + B - 1 /\ n <= c * B
  <2>1. n + B - 1 \in Nat
    OBVIOUS
  <2>2. /\ n + B - 1 = c * B + ((n + B - 1) % B) /\ c \in Nat /\ (n + B - 1) % B \in 0..(B - 1)
    BY <2>1, Parts
  <2>3. c * B \in Nat
    BY <2>2, Multiples
  <2> HIDE DEF c
  <2> QED BY <2>1, <2>2, <2>3
<1>4. Plan!Chunked(u) = C
    BY <1>1, <1>2 DEF Plan!Chunked
<1> HIDE DEF c
<1>5. ASSUME NEW i \in 1..c
      PROVE  \E a \in Nat : \E z \in 1..n :
                 /\ a = (i - 1) * B /\ z = Plan!Least(i * B, n) /\ z = (IF a + B <= n THEN a + B ELSE n) /\ a < n
  <2>1. i - 1 \in Nat /\ c \in Nat /\ i - 1 < c
    BY <1>3
  <2>2. (i - 1) * B \in Nat /\ ((i - 1) + 1) * B = (i - 1) * B + B /\ (i - 1) * B + B <= c * B
    BY <2>1, Multiples
  <2>3. (i - 1) + 1 = i
    BY <1>3
  <2>4. PICK a \in Nat : a = (i - 1) * B
    BY <2>2
  <2>5. i * B = a + B /\ a < n
    BY <1>3, <2>2, <2>3, <2>4
  <2> QED BY <2>4, <2>5 DEF Plan!Least
<1>6. ASSUME NEW i \in 1..c
      PROVE  /\ C[i] \in Seq(Nat) /\ Len(C[i]) \in 1..B
             /\ \A k \in 1..Len(C[i]) : (i - 1) * B + k \in 1..n /\ C[i][k] = u[(i - 1) * B + k]
             /\ \A k \in 1..B : (i - 1) * B + k <= n => k \in 1..Len(C[i])
  <2>1. PICK a \in Nat, z \in 1..n : /\ a = (i - 1) * B /\ z = Plan!Least(i * B, n)
                                     /\ z = (IF a + B <= n THEN a + B ELSE n) /\ a < n
    BY <1>5
  <2>2. C[i] = SubSeq(u, a + 1, z)
    BY <2>1
  <2>3. a + 1 \in 1..n /\ z \in 1..n /\ a + 1 <= z
    BY <2>1
  <2>4. /\ SubSeq(u, a + 1, z) \in Seq(Nat) /\ Len(SubSeq(u, a + 1, z)) = z - a
        /\ \A k \in 1..(z - a) : SubSeq(u, a + 1, z)[k] = u[a + k]
  <3>1. a + 1 \in Int /\ z \in Int /\ \A k \in (a + 1)..z : u[k] \in Nat
    BY <1>2, <2>3
  <3>2. /\ SubSeq(u, a + 1, z) \in Seq(Nat) /\ Len(SubSeq(u, a + 1, z)) = IF a + 1 <= z THEN z - (a + 1) + 1 ELSE 0
        /\ \A k \in 1..(z - (a + 1) + 1) : SubSeq(u, a + 1, z)[k] = u[(a + 1) + k - 1]
    BY <3>1, SubSeqProperties
  <3>3. z - (a + 1) + 1 = z - a /\ \A k \in 1..(z - a) : (a + 1) + k - 1 = a + k
    BY <2>3
  <3> QED BY <2>3, <3>2, <3>3
  <2> HIDE DEF C
  <2> QED BY <2>1, <2>2, <2>3, <2>4
<1>7. C \in Seq(Seq(Nat)) /\ DOMAIN C = 1..c
  <2>1. DOMAIN C = 1..c /\ C = [i \in 1..c |-> C[i]]
    OBVIOUS
  <2> HIDE DEF C
  <2>2. C \in [1..c -> Seq(Nat)]
    BY <1>6, <2>1
  <2> QED BY <1>3, <2>1, <2>2
<1>8. ASSUME NEW j \in 1..n PROVE \E i \in 1..c : \E k \in 1..Len(C[i]) : j = (i - 1) * B + k
  <2>0. j - 1 \in Nat
    OBVIOUS
  <2> DEFINE q == (j - 1) \div B
             r == (j - 1) % B
  <2>1. q \in Nat /\ r \in 0..(B - 1) /\ j - 1 = q * B + r
    BY <2>0, Parts
  <2> HIDE DEF q, r, C
  <2>2. q * B \in Nat
    BY <2>1, Multiples
  <2>3. q < c
    <3>1. SUFFICES ASSUME c <= q PROVE FALSE
        BY <1>3, <2>1
    <3>2. c * B <= q * B
        BY <1>3, <2>1, <2>2, <3>1, Multiples
    <3> QED BY <1>3, <2>1, <2>2, <3>2
  <2>4. PICK i \in 1..c : i - 1 = q
    BY <1>3, <2>1, <2>3
  <2>5. PICK k \in 1..B : k = r + 1
    BY <2>1
  <2>6. j = (i - 1) * B + k
    BY <2>1, <2>2, <2>4, <2>5
  <2> QED BY <1>6, <2>6
<1> HIDE DEF C
<1>9. ASSUME NEW i \in DOMAIN C
      PROVE  Len(C[i]) \in 1..B /\ \A k \in DOMAIN C[i] : (i - 1) * B + k \in DOMAIN u /\ C[i][k] = u[(i - 1) * B + k]
  <2>1. i \in 1..c /\ DOMAIN C[i] = 1..Len(C[i])
    BY <1>6, <1>7
  <2> QED BY <1>2, <1>6, <2>1
<1>10. ASSUME NEW j \in DOMAIN u PROVE \E i \in DOMAIN C : \E k \in DOMAIN C[i] : j = (i - 1) * B + k
  <2>1. PICK i \in 1..c : \E k \in 1..Len(C[i]) : j = (i - 1) * B + k
    BY <1>2, <1>8
  <2>2. DOMAIN C[i] = 1..Len(C[i]) /\ i \in DOMAIN C
    BY <1>6, <1>7
  <2> QED BY <2>1, <2>2
<1> QED BY <1>1, <1>4, <1>7, <1>9, <1>10

LEMMA WholePlan == ASSUME listed \subseteq 1..PlanSymbols PROVE Plan!Split(Plan!Chunked(Plan!Universe))
<1> DEFINE u == Plan!Universe
           C == Plan!Chunked(u)
<1>1. /\ u \in Seq(Nat) /\ Plan!Sorted(u)
      /\ \A s : s \in listed <=> \E j \in DOMAIN u : u[j] = s
    BY WholeOrder
<1> HIDE DEF u
<1>2. /\ C \in Seq(Seq(Nat))
      /\ \A i \in DOMAIN C : /\ Len(C[i]) \in 1..PlanBatch
                             /\ \A k \in DOMAIN C[i] : /\ (i - 1) * PlanBatch + k \in DOMAIN u
                                                       /\ C[i][k] = u[(i - 1) * PlanBatch + k]
      /\ \A j \in DOMAIN u : \E i \in DOMAIN C : \E k \in DOMAIN C[i] : j = (i - 1) * PlanBatch + k
    BY <1>1, Batches
<1> HIDE DEF C
<1>3. ASSUME NEW s PROVE s \in listed <=> \E i \in DOMAIN C : \E k \in DOMAIN C[i] : C[i][k] = s
  <2>1. ASSUME s \in listed PROVE \E i \in DOMAIN C : \E k \in DOMAIN C[i] : C[i][k] = s
    <3>1. PICK j \in DOMAIN u : u[j] = s
        BY <1>1, <2>1
    <3>2. PICK i \in DOMAIN C : \E k \in DOMAIN C[i] : j = (i - 1) * PlanBatch + k
        BY <1>2
    <3>3. PICK k \in DOMAIN C[i] : j = (i - 1) * PlanBatch + k
        BY <3>2
    <3> QED BY <1>2, <3>1, <3>3
  <2>2. ASSUME NEW i \in DOMAIN C, NEW k \in DOMAIN C[i], C[i][k] = s PROVE s \in listed
    BY <1>1, <1>2, <2>2
  <2> QED BY <2>1, <2>2
<1>4. ASSUME NEW i \in DOMAIN C, NEW j \in DOMAIN C, NEW k \in DOMAIN C[i], NEW n \in DOMAIN C[j], i < j \/ (i = j /\ k < n)
      PROVE  C[i][k] < C[j][n]
  <2>1. PICK B \in Nat \ {0} : B = PlanBatch
    BY PlanAssumption
  <2>2. i \in Nat \ {0} /\ j \in Nat \ {0} /\ k \in 1..B /\ n \in Nat \ {0}
    <3>1. C \in Seq(Seq(Nat)) /\ Len(C[i]) \in 1..B
        BY <1>2, <2>1
    <3>2. i \in Nat \ {0} /\ j \in Nat \ {0} /\ C[i] \in Seq(Nat) /\ C[j] \in Seq(Nat)
        BY <3>1
    <3>3. k \in 1..Len(C[i]) /\ n \in Nat \ {0}
        BY <3>2
    <3> QED BY <3>1, <3>2, <3>3
  <2>3. (i - 1) * B \in Nat /\ (j - 1) * B \in Nat /\ (i < j => (i - 1) * B + B <= (j - 1) * B)
    <3>1. PICK a \in Nat, b \in Nat : a = i - 1 /\ b = j - 1
        BY <2>2
    <3>2. a * B \in Nat /\ b * B \in Nat /\ (a < b => a * B + B <= b * B)
        BY Multiples
    <3>3. i < j => a < b
        BY <2>2, <3>1
    <3> QED BY <3>1, <3>2, <3>3
  <2>4. (i - 1) * B + k < (j - 1) * B + n
    <3>1. CASE i < j
        BY <2>2, <2>3, <3>1
    <3>2. CASE i = j /\ k < n
        BY <2>2, <2>3, <3>2
    <3> QED BY <1>4, <3>1, <3>2
  <2>5. u[(i - 1) * B + k] < u[(j - 1) * B + n]
    BY <1>1, <1>2, <2>1, <2>4 DEF Plan!Sorted
  <2> QED BY <1>2, <2>1, <2>5
<1>5. \A i \in DOMAIN C : Len(C[i]) \in 1..PlanBatch
    BY <1>2
<1>6. Plan!Split(C)
    BY <1>3, <1>4, <1>5 DEF Plan!Split
<1> QED BY <1>6 DEF C, u

-----------------------------------------------------------------------------
\* Every task has the key of its place and list; the tasks a plan got have the
\* keys of its batches.
Lists == Seq(Nat)
Key == Nat \X Lists
Children == [key : Key, symbols : Lists, active : BOOLEAN]
Plans == [batches : Seq(Lists), got : Seq(Nat), active : BOOLEAN]
GotOk(p) == /\ Len(p.got) <= Len(p.batches)
            /\ \A i \in DOMAIN p.got : /\ p.got[i] \in DOMAIN planned
                                       /\ planned[p.got[i]].key = Plan!TaskKey(i, p.batches[i])
PlanInv == /\ listed \subseteq 1..PlanSymbols
           /\ planned \in Seq(Children)
           /\ \A t \in DOMAIN planned : \E i \in Nat : planned[t].key = Plan!TaskKey(i, planned[t].symbols)
           /\ plan \in Plans
           /\ GotOk(plan)
           /\ \A p \in ended : /\ p \in [batches : Seq(Lists), got : Seq(Nat)]
                               /\ Len(p.got) = Len(p.batches) /\ GotOk(p)

\* Keys tell the places apart, and the beginnings of the lists.
LEMMA KeyFacts ==
    ASSUME NEW i \in Nat, NEW s \in Lists
    PROVE  /\ Plan!TaskKey(i, s) \in Key
           /\ \A j \in Nat, r \in Lists : Plan!TaskKey(i, s) = Plan!TaskKey(j, r) =>
                 /\ i = j
                 /\ \A k \in 1..Plan!Least(PlanKey, Len(s)) : k \in DOMAIN r /\ r[k] = s[k]
<1> DEFINE top(r) == Plan!Least(PlanKey, Len(r))
           front(r) == SubSeq(r, 1, top(r))
<1>1. ASSUME NEW r \in Lists
      PROVE  /\ top(r) \in 0..Len(r) /\ front(r) \in Seq(Nat) /\ Len(front(r)) = top(r)
             /\ \A k \in 1..top(r) : k \in DOMAIN r /\ front(r)[k] = r[k]
  <2>1. Len(r) \in Nat /\ top(r) \in 0..Len(r)
    BY PlanAssumption DEF Lists, Plan!Least
  <2> HIDE DEF top
  <2>2. \A k \in 1..top(r) : k \in DOMAIN r /\ r[k] \in Nat
    BY <2>1 DEF Lists
  <2>3. /\ front(r) \in Seq(Nat) /\ Len(front(r)) = (IF 1 <= top(r) THEN top(r) - 1 + 1 ELSE 0)
        /\ \A k \in 1..(top(r) - 1 + 1) : front(r)[k] = r[1 + k - 1]
    BY <2>1, <2>2, SubSeqProperties
  <2>4. top(r) - 1 + 1 = top(r) /\ \A k \in 1..top(r) : 1 + k - 1 = k
    BY <2>1
  <2> HIDE DEF front
  <2> QED BY <2>1, <2>2, <2>3, <2>4
<1>2. \A j, r : Plan!TaskKey(j, r) = <<j, front(r)>>
    BY DEF Plan!TaskKey
<1> HIDE DEF front
<1>3. Plan!TaskKey(i, s) \in Key
    BY <1>1, <1>2 DEF Key, Lists
<1>4. ASSUME NEW j \in Nat, NEW r \in Lists, Plan!TaskKey(i, s) = Plan!TaskKey(j, r), NEW k \in 1..top(s)
      PROVE  k \in DOMAIN r /\ r[k] = s[k]
  <2>1. front(s) = front(r)
    BY <1>2, <1>4
  <2> HIDE DEF top
  <2>2. top(s) = top(r)
    BY <1>1, <2>1
  <2> QED BY <1>1, <1>4, <2>1, <2>2
<1>5. \A j \in Nat, r \in Lists : Plan!TaskKey(i, s) = Plan!TaskKey(j, r) => i = j
    BY <1>2
<1> QED BY <1>3, <1>4, <1>5

LEMMA PlanBegins == Plan!Init => PlanInv
<1> SUFFICES ASSUME Plan!Init PROVE PlanInv
    OBVIOUS
<1>1. listed \subseteq 1..PlanSymbols /\ planned = <<>> /\ plan = Plan!Idle /\ ended = {}
    BY DEF Plan!Init
<1>2. Plan!Idle \in Plans /\ Plan!Idle.got = <<>> /\ Plan!Idle.batches = <<>>
    BY DEF Plan!Idle, Plans
<1> QED BY <1>1, <1>2 DEF PlanInv, GotOk

\* What a plan got stays when tasks are added or end.
LEMMA GotStays ==
    ASSUME NEW p, GotOk(p), DOMAIN planned \subseteq DOMAIN planned',
           \A t \in DOMAIN planned : planned'[t].key = planned[t].key
    PROVE  /\ Len(p.got) <= Len(p.batches)
           /\ \A i \in DOMAIN p.got : /\ p.got[i] \in DOMAIN planned'
                                      /\ planned'[p.got[i]].key = Plan!TaskKey(i, p.batches[i])
BY DEF GotOk

LEMMA BeginPlanStays == ASSUME PlanInv, Plan!Begin PROVE PlanInv'
<1>1. Plan!Universe \in Seq(Nat)
    BY WholeOrder DEF PlanInv
<1>2. Plan!Chunked(Plan!Universe) \in Seq(Lists)
    BY <1>1, Batches DEF Lists
<1>3. PICK C \in Seq(Lists) : plan' = [batches |-> C, got |-> <<>>, active |-> TRUE]
    BY <1>2 DEF Plan!Begin
<1>4. plan' \in Plans /\ plan'.got = <<>> /\ plan'.batches = C
    BY <1>3 DEF Plans
<1>5. GotOk(plan)'
    BY <1>4 DEF GotOk
<1> QED BY <1>4, <1>5 DEF Plan!Begin, PlanInv, GotOk

LEMMA EnqueueStays == ASSUME PlanInv, Plan!Enqueue PROVE PlanInv'
<1> DEFINE i == Len(plan.got) + 1
           batch == plan.batches[i]
           key == Plan!TaskKey(i, batch)
           holder == Plan!Holder(key)
           t == IF holder # {} THEN CHOOSE x \in holder : TRUE ELSE Len(planned) + 1
           made == [key |-> key, symbols |-> batch, active |-> TRUE]
<1>1. /\ i <= Len(plan.batches) /\ plan' = [plan EXCEPT !.got = Append(plan.got, t)] /\ listed' = listed /\ ended' = ended
      /\ IF holder # {} THEN planned' = planned ELSE planned' = Append(planned, made)
    BY DEF Plan!Enqueue
<1>2. plan.got \in Seq(Nat) /\ plan.batches \in Seq(Lists) /\ i \in Nat /\ i \in DOMAIN plan.batches /\ batch \in Lists
    BY <1>1 DEF PlanInv, Plans
<1>3. key \in Key
    BY <1>2, KeyFacts
<1>4. made \in Children /\ made.key = key /\ made.symbols = batch
    BY <1>2, <1>3 DEF Children
<1>5. planned \in Seq(Children) /\ \A x \in holder : x \in DOMAIN planned /\ planned[x].key = key
    BY DEF PlanInv, Plan!Holder
<1> HIDE DEF i, batch, key, holder, made
<1>6. /\ planned' \in Seq(Children) /\ t \in Nat /\ t \in DOMAIN planned' /\ planned'[t].key = key
      /\ DOMAIN planned \subseteq DOMAIN planned'
      /\ \A x \in DOMAIN planned : planned'[x] = planned[x]
      /\ \A x \in DOMAIN planned' \ DOMAIN planned : planned'[x] = made
  <2>1. CASE holder # {}
    BY <1>1, <1>5, <2>1
  <2>2. CASE holder = {}
    BY <1>1, <1>4, <1>5, <2>2
  <2> QED BY <2>1, <2>2
<1> HIDE DEF t
<1>7. \A x \in DOMAIN planned' : \E n \in Nat : planned'[x].key = Plan!TaskKey(n, planned'[x].symbols)
    BY <1>2, <1>4, <1>6 DEF PlanInv, key
<1>8. /\ plan' \in Plans
      /\ plan'.batches = plan.batches /\ plan'.got = Append(plan.got, t)
  <2>1. Append(plan.got, t) \in Seq(Nat)
    BY <1>2, <1>6
  <2>2. plan \in Plans
    BY DEF PlanInv
  <2> HIDE DEF PlanInv
  <2> QED BY <1>1, <2>1, <2>2 DEF Plans
<1>9. GotOk(plan)'
  <2>1. /\ Len(plan.got) <= Len(plan.batches)
        /\ \A n \in DOMAIN plan.got : /\ plan.got[n] \in DOMAIN planned'
                                      /\ planned'[plan.got[n]].key = Plan!TaskKey(n, plan.batches[n])
    BY <1>6, GotStays DEF PlanInv
  <2>2. Len(plan'.got) = i /\ DOMAIN plan'.got = 1..i
    BY <1>2, <1>6, <1>8 DEF i
  <2>3. ASSUME NEW n \in 1..i
        PROVE  plan'.got[n] \in DOMAIN planned' /\ planned'[plan'.got[n]].key = Plan!TaskKey(n, plan.batches[n])
    <3>1. CASE n = i
      <4>1. plan'.got[n] = t
        BY <1>2, <1>6, <1>8, <3>1 DEF i
      <4> QED BY <1>6, <3>1, <4>1 DEF key, batch
    <3>2. CASE n # i
      <4>1. n \in DOMAIN plan.got /\ plan'.got[n] = plan.got[n]
        BY <1>2, <1>6, <1>8, <3>2 DEF i
      <4> QED BY <2>1, <4>1
    <3> QED BY <3>1, <3>2
  <2> QED BY <1>1, <1>8, <2>2, <2>3 DEF GotOk
<1>10. ASSUME NEW p \in ended PROVE GotOk(p)'
    BY <1>6, GotStays DEF PlanInv, GotOk
<1> QED BY <1>1, <1>6, <1>7, <1>8, <1>9, <1>10 DEF PlanInv

LEMMA EndStays == ASSUME PlanInv, NEW t \in DOMAIN planned, Plan!EndTask(t) PROVE PlanInv'
<1>1. planned \in Seq(Children) /\ planned' = [planned EXCEPT ![t] = [planned[t] EXCEPT !.active = FALSE]]
    BY DEF PlanInv, Plan!EndTask
<1>2. planned[t] \in Children
    BY <1>1
<1>3. /\ [planned[t] EXCEPT !.active = FALSE] \in Children
      /\ [planned[t] EXCEPT !.active = FALSE].key = planned[t].key
      /\ [planned[t] EXCEPT !.active = FALSE].symbols = planned[t].symbols
    BY <1>2 DEF Children
<1>4. /\ planned' \in Seq(Children) /\ DOMAIN planned' = DOMAIN planned
      /\ \A x \in DOMAIN planned : planned'[x].key = planned[x].key /\ planned'[x].symbols = planned[x].symbols
    BY <1>1, <1>3
<1>5. listed' = listed /\ plan' = plan /\ ended' = ended
    BY DEF Plan!EndTask
<1>6. GotOk(plan)' /\ \A p \in ended : GotOk(p)'
    BY <1>4, <1>5 DEF PlanInv, GotOk
<1> QED BY <1>4, <1>5, <1>6 DEF PlanInv

LEMMA PlanStays == PlanInv /\ [Plan!Next]_planVars => PlanInv'
<1> SUFFICES ASSUME PlanInv, [Plan!Next]_planVars PROVE PlanInv'
    OBVIOUS
<1>1. CASE UNCHANGED planVars
    BY <1>1 DEF PlanInv, GotOk, planVars
<1>2. ASSUME NEW s \in 1..PlanSymbols, Plan!List(s) PROVE PlanInv'
    BY <1>2 DEF PlanInv, GotOk, Plan!List
<1>3. Plan!Idle \in Plans /\ Plan!Idle.got = <<>> /\ Plan!Idle.batches = <<>>
    BY DEF Plan!Idle, Plans
<1>4. CASE Plan!Answer
  <2>1. /\ plan' = Plan!Idle /\ listed' = listed /\ planned' = planned
        /\ ended' = ended \cup {[batches |-> plan.batches, got |-> plan.got]} /\ Len(plan.got) = Len(plan.batches)
    BY <1>4 DEF Plan!Answer
  <2>2. PICK p \in [batches : Seq(Lists), got : Seq(Nat)] :
                p = [batches |-> plan.batches, got |-> plan.got] /\ p.batches = plan.batches /\ p.got = plan.got
    <3>1. plan.batches \in Seq(Lists) /\ plan.got \in Seq(Nat)
        BY DEF PlanInv, Plans
    <3> DEFINE r == [batches |-> plan.batches, got |-> plan.got]
    <3>2. r \in [batches : Seq(Lists), got : Seq(Nat)] /\ r.batches = plan.batches /\ r.got = plan.got
        BY <3>1
    <3>3. r = [batches |-> plan.batches, got |-> plan.got]
        OBVIOUS
    <3> HIDE DEF r
    <3> QED BY <3>2, <3>3
  <2>3. GotOk(plan)' /\ GotOk(p)' /\ Len(p.got) = Len(p.batches)
    BY <1>3, <2>1, <2>2 DEF PlanInv, GotOk
  <2>4. \A q \in ended : GotOk(q)'
    BY <2>1 DEF PlanInv, GotOk
  <2>5. \A q \in ended' : q \in ended \/ q = p
    BY <2>1, <2>2
  <2>6. ASSUME NEW q \in ended'
        PROVE  q \in [batches : Seq(Lists), got : Seq(Nat)] /\ Len(q.got) = Len(q.batches) /\ GotOk(q)'
    <3>1. CASE q \in ended
        BY <2>4, <3>1 DEF PlanInv
    <3>2. CASE q = p
        BY <2>2, <2>3, <3>2 DEF GotOk
    <3> QED BY <2>5, <3>1, <3>2
  <2>7. /\ listed \subseteq 1..PlanSymbols /\ planned \in Seq(Children)
        /\ \A t \in DOMAIN planned : \E i \in Nat : planned[t].key = Plan!TaskKey(i, planned[t].symbols)
    BY DEF PlanInv
  <2> QED BY <1>3, <2>1, <2>3, <2>6, <2>7 DEF PlanInv
<1>5. CASE Plan!Die
  <2>1. GotOk(plan)' /\ \A q \in ended : GotOk(q)'
    BY <1>3, <1>5 DEF Plan!Die, PlanInv, GotOk
  <2> QED BY <1>3, <1>5, <2>1 DEF Plan!Die, PlanInv
<1> QED BY <1>1, <1>2, <1>4, <1>5, BeginPlanStays, EnqueueStays, EndStays DEF Plan!Next

LEMMA PlansSound == PlanInv => Plan!PlanCovers /\ Plan!ChildrenApart
<1> SUFFICES ASSUME PlanInv, NEW p \in ended
             PROVE  /\ Len(p.got) = Len(p.batches)
                    /\ \A i \in DOMAIN p.batches : \A k \in 1..Plan!Least(PlanKey, Len(p.batches[i])) :
                          \E n \in DOMAIN planned[p.got[i]].symbols : planned[p.got[i]].symbols[n] = p.batches[i][k]
                    /\ \A i, j \in DOMAIN p.got : i # j => p.got[i] # p.got[j]
    BY DEF Plan!PlanCovers, Plan!ChildrenApart
<1>1. /\ Len(p.got) = Len(p.batches) /\ p.got \in Seq(Nat) /\ p.batches \in Seq(Lists)
      /\ \A i \in DOMAIN p.got : p.got[i] \in DOMAIN planned /\ planned[p.got[i]].key = Plan!TaskKey(i, p.batches[i])
    BY DEF PlanInv, GotOk
<1>2. ASSUME NEW i \in DOMAIN p.got PROVE i \in Nat /\ p.batches[i] \in Lists
    BY <1>1
<1>3. ASSUME NEW i \in DOMAIN p.batches, NEW k \in 1..Plan!Least(PlanKey, Len(p.batches[i]))
      PROVE  \E n \in DOMAIN planned[p.got[i]].symbols : planned[p.got[i]].symbols[n] = p.batches[i][k]
  <2>1. i \in DOMAIN p.got
    BY <1>1
  <2>2. PICK t \in DOMAIN planned : t = p.got[i] /\ planned[t].key = Plan!TaskKey(i, p.batches[i])
    BY <1>1, <2>1
  <2>3. planned[t].symbols \in Lists
    <3>1. planned[t] \in Children
        BY DEF PlanInv
    <3> QED BY <3>1 DEF Children
  <2>4. PICK j \in Nat : planned[t].key = Plan!TaskKey(j, planned[t].symbols)
    BY DEF PlanInv
  <2> HIDE DEF PlanInv
  <2>5. PICK r \in Lists : r = planned[t].symbols
    BY <2>3
  <2>6. PICK b \in Lists : b = p.batches[i]
    BY <1>2, <2>1
  <2>7. Plan!TaskKey(i, b) = Plan!TaskKey(j, r) /\ k \in 1..Plan!Least(PlanKey, Len(b)) /\ i \in Nat
    BY <1>2, <2>1, <2>2, <2>4, <2>5, <2>6
  <2>8. k \in DOMAIN r /\ r[k] = b[k]
    BY <2>7, KeyFacts
  <2> QED BY <2>2, <2>5, <2>6, <2>8
<1>4. ASSUME NEW i \in DOMAIN p.got, NEW j \in DOMAIN p.got, p.got[i] = p.got[j] PROVE i = j
    BY <1>1, <1>2, <1>4, KeyFacts
<1> QED BY <1>1, <1>3, <1>4

\* Only Begin makes a plan active.
LEMMA OnlyBegin ==
    ASSUME PlanInv, [Plan!Next]_planVars, plan.active = FALSE, plan'.active
    PROVE  Plan!Split(plan'.batches)
<1>1. CASE UNCHANGED planVars
    BY <1>1 DEF planVars
<1>2. CASE Plan!Begin
  <2>1. plan'.batches = Plan!Chunked(Plan!Universe)
    BY <1>2 DEF Plan!Begin
  <2> QED BY <2>1, WholePlan DEF PlanInv
<1>3. ASSUME Plan!Enqueue \/ Plan!Answer \/ Plan!Die PROVE FALSE
    BY <1>3 DEF Plan!Enqueue, Plan!Answer, Plan!Die
<1>4. ASSUME NEW s \in 1..PlanSymbols, Plan!List(s) PROVE FALSE
    BY <1>4 DEF Plan!List
<1>5. ASSUME NEW t \in DOMAIN planned, Plan!EndTask(t) PROVE FALSE
    BY <1>5 DEF Plan!EndTask
<1> QED BY <1>1, <1>2, <1>3, <1>4, <1>5 DEF Plan!Next

-----------------------------------------------------------------------------
\* Each part keeps its invariant in the behaviours that are about it.
MarketInv == /\ world = "index" => IndexInv
             /\ world = "snaps" => SnapInv
             /\ world = "master" => MasterInv
             /\ world \in {"gaps", "runs"} => SyncInv
             /\ world = "plan" => PlanInv

LEMMA MarketBegins == MarketInit => MarketInv
BY IndexBegins, SnapBegins, MasterBegins, SyncBegins, PlanBegins DEF MarketInit, MarketInv

LEMMA PartsMove ==
    ASSUME [MarketNext]_marketVars
    PROVE  /\ world' = world
           /\ world = "index" => [Index!Next]_<<today, indexVars>>
           /\ world = "snaps" => [Snaps!Next]_snapVars
           /\ world = "master" => [Master!Next]_masterVars
           /\ world \in {"gaps", "runs"} => [Sync!Next]_syncAll
           /\ world \notin {"gaps", "runs"} => UNCHANGED syncing
           /\ world = "plan" => [Plan!Next]_planVars
           /\ world # "plan" => UNCHANGED plan
BY DEF MarketNext, marketVars, syncVars, syncAll, planVars

LEMMA MarketStays == MarketInv /\ [MarketNext]_marketVars => MarketInv'
BY PartsMove, IndexStays, SnapStays, MasterStays, SyncStays, PlanStays DEF MarketInv

LEMMA MarketThroughout == MarketSpec => []MarketInv
<1>1. MarketInit => MarketInv
    BY MarketBegins
<1>2. MarketInv /\ [MarketNext]_marketVars => MarketInv'
    BY MarketStays
<1> QED BY <1>1, <1>2, PTL DEF MarketSpec

(* Whatever two jobs write at once and wherever one dies, a cached indicator   *)
(* that still counts is in the index that counts, or a job that died or is on  *)
(* its way left it out (_precompute_2560_indicators of                         *)
(* application/sync_api_service.py).                                           *)
THEOREM IndexAlwaysCovers == MarketSpec => []IndexCovers
<1>1. MarketInv => IndexCovers
    BY DEF MarketInv, IndexInv, Covered, IndexCovers, Index!IndexCovers, Index!Live
<1> QED BY <1>1, MarketThroughout, PTL

(* However long tasks wait and providers take, an auction row that nobody      *)
(* forced comes from a task started in the window of its date, and without     *)
(* forced tasks the latest row is the one taken last                           *)
(* (_sync_auction_snapshots of application/sync_api_service.py).               *)
THEOREM SnapshotsStaySound == MarketSpec => []SnapshotsSound
<1>1. MarketInv => SnapshotsSound
    BY SnapRows, SnapLatest DEF MarketInv, SnapshotsSound
<1> QED BY <1>1, MarketThroughout, PTL

(* For every calendar the table's constraint admits, at most one rule is found *)
(* for a security and a date, unlimited days are its first ones, and what a    *)
(* stock list said of a warning holds (resolve_limit_rule and upsert_stocks of *)
(* repositories/market_data_repo.py).                                          *)
THEOREM LimitRulesStaySound == MarketSpec => []LimitRulesSound
<1>1. MarketInv => LimitRulesSound
    BY MasterSound DEF MarketInv, LimitRulesSound
<1> QED BY <1>1, MarketThroughout, PTL

(* However sync runs of several workers overlap, fail, die and meet reads that *)
(* fill the table, a run that ended has one item for each name it was asked    *)
(* for and its counts, a synced symbol has bars and a row, no state claims     *)
(* coverage its bars do not have, and an undisturbed incremental window makes  *)
(* no gap after the symbol's first day (_sync_market_data of                   *)
(* application/sync_api_service.py).                                           *)
THEOREM SyncStaysHonest == MarketSpec => SyncHonest
<1>1. MarketInv => (world \in {"gaps", "runs"} => Sync!RunAccounted /\ Sync!StateWithinBars)
    BY RunsSound, StatesSound DEF MarketInv
<1>2. MarketInv /\ [MarketNext]_marketVars => [\A p \in Workers : Sync!AddsNoGap(p)]_(Sync!vars)
  <2> SUFFICES ASSUME MarketInv, [MarketNext]_marketVars, NEW p \in Workers, syncing[p].step = "bars", syncing'[p].step = "state",
                      run[syncing[p].run].req.incremental, run[syncing[p].run].req.start = 0, ~syncing[p].raced,
                      NEW d \in Sync!Gaps(syncing[p].sym)' \ Sync!Gaps(syncing[p].sym)
               PROVE  /\ run[syncing[p].run].req.correction > 0 /\ Sync!DaysOf(syncing[p].sym) # {}
                      /\ \A e \in Sync!DaysOf(syncing[p].sym) : d < e
    BY DEF Sync!AddsNoGap
  <2>1. SyncInv /\ [Sync!Next]_syncAll
    BY PartsMove DEF MarketInv
  <2> QED BY <2>1, OnlyTheWrite, GapsFew
<1> QED BY <1>1, <1>2, MarketThroughout, PTL DEF MarketSpec, SyncHonest, Sync!NoGapMade

(* However symbols are listed, plans die and begin again and child tasks of    *)
(* earlier plans end, a plan splits the symbols it resolved into whole batches *)
(* in order, and one that ended has a task of its own for each batch, whose    *)
(* list holds every symbol the key of the batch shows (_plan_market_sync and   *)
(* _chunked of application/sync_api_service.py).                               *)
THEOREM PlanStaysSound == MarketSpec => PlanSound
<1>1. MarketInv => (world = "plan" => Plan!PlanCovers /\ Plan!ChildrenApart)
    BY PlansSound DEF MarketInv
<1>2. MarketInv /\ [MarketNext]_marketVars => [plan.active = FALSE /\ plan'.active => Plan!Split(plan'.batches)]_plan
    BY PartsMove, OnlyBegin DEF MarketInv
<1> QED BY <1>1, <1>2, MarketThroughout, PTL DEF MarketSpec, PlanSound, Plan!PlanWhole
===============================================================================
