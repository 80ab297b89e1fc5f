------------------------------- MODULE SyncPlan -------------------------------
(***************************************************************************)
(* The plans that split a market synchronisation into child tasks          *)
(* (_plan_market_sync and _plan_quote_snapshot_sync of                     *)
(* application/sync_api_service.py): batch after batch is enqueued under a *)
(* key made of its position and of the beginning of its list of symbols,   *)
(* and a key that an unfinished task holds gets that task.  Securities are *)
(* numbered in the order of their codes.                                   *)
(***************************************************************************)
EXTENDS Integers, Sequences, FiniteSets

CONSTANTS MaxSymbol,  \* securities 1..MaxSymbol
          BatchSize,  \* symbols in a batch
          KeyLen,     \* symbols that fit the 256 characters of the key
          MaxTasks    \* bound on child tasks

VARIABLES listed,  \* the stocks table
          task,    \* child tasks, in order
          plan,    \* the plan task: its batches and the tasks it got
          ended    \* plans that ended

vars == <<listed, task, plan, ended>>

Least(a, b) == IF a < b THEN a ELSE b

\* list_stocks orders by symbol.
Sorted(u) == \A i, j \in DOMAIN u : i < j => u[i] < u[j]
Universe == CHOOSE u \in [1..Cardinality(listed) -> listed] : Sorted(u)

\* _chunked
SlipChunked(items) == [i \in 1..Len(items) \div BatchSize |-> SubSeq(items, (i - 1) * BatchSize + 1, i * BatchSize)]
Chunked(items) == [i \in 1..(Len(items) + BatchSize - 1) \div BatchSize |->
                       SubSeq(items, (i - 1) * BatchSize + 1, Least(i * BatchSize, Len(items)))]

\* _task_key: the other parts of the payload are the same for every plan here.
TaskKey(i, batch) == <<i, SubSeq(batch, 1, Least(KeyLen, Len(batch)))>>

Idle == [batches |-> <<>>, got |-> <<>>, active |-> FALSE]
Init == /\ listed = {i \in 1..MaxSymbol : i % 2 = 1}
        /\ task = <<>> /\ plan = Idle /\ ended = {}

\* A security is listed: the stock list or a sync adds its row.
List(s) == s \notin listed /\ listed' = listed \cup {s} /\ UNCHANGED <<task, plan, ended>>

\* _resolve_symbols and _chunked; a retry of the plan begins anew.
Begin == /\ ~plan.active /\ Len(task) < MaxTasks
         /\ plan' = [batches |-> Chunked(Universe), got |-> <<>>, active |-> TRUE]
         /\ UNCHANGED <<listed, task, ended>>

\* enqueue_task with the key of the next batch.
Holder(key) == {t \in DOMAIN task : task[t].active /\ task[t].key = key}
Enqueue ==
    LET i == Len(plan.got) + 1
        batch == plan.batches[i]
        holder == Holder(TaskKey(i, batch))
    IN /\ plan.active /\ i <= Len(plan.batches) /\ Len(task) < MaxTasks
       /\ IF holder # {} THEN UNCHANGED task ELSE task' = Append(task, [key |-> TaskKey(i, batch), symbols |-> batch, active |-> TRUE])
       /\ plan' = [plan EXCEPT !.got = Append(@, IF holder # {} THEN CHOOSE t \in holder : TRUE ELSE Len(task) + 1)]
       /\ UNCHANGED <<listed, ended>>

\* The plan answers with its children.
Answer == /\ plan.active /\ Len(plan.got) = Len(plan.batches)
          /\ ended' = ended \cup {[batches |-> plan.batches, got |-> plan.got]}
          /\ plan' = Idle
          /\ UNCHANGED <<listed, task>>

\* The plan task dies or raises half way.
Die == plan.active /\ plan' = Idle /\ UNCHANGED <<listed, task, ended>>

\* A child task ends.
EndTask(t) == task[t].active /\ task' = [task EXCEPT ![t].active = FALSE] /\ UNCHANGED <<listed, plan, ended>>

Next == \/ \E s \in 1..MaxSymbol : List(s)
        \/ Begin \/ Enqueue \/ Answer \/ Die
        \/ \E t \in DOMAIN task : EndTask(t)

Spec == Init /\ [][Next]_vars

-------------------------------------------------------------------------------
(* A plan that ended has a child for every batch, its batches are all it       *)
(* resolved, and each symbol that the key of its batch shows is in the list of *)
(* the child the plan got for it, be it a new task or one of an earlier plan.  *)
PlanCovers ==
    \A p \in ended :
        /\ Len(p.got) = Len(p.batches)
        /\ \A i \in DOMAIN p.batches : \A k \in 1..Least(KeyLen, Len(p.batches[i])) :
               \E n \in DOMAIN task[p.got[i]].symbols : task[p.got[i]].symbols[n] = p.batches[i][k]

(* The plan at hand splits the symbols listed when it began into batches that  *)
(* are not empty nor too long, each symbol once and in order.                  *)
Split(batches) ==
    /\ \A i \in DOMAIN batches : Len(batches[i]) \in 1..BatchSize
    /\ \A s \in 1..MaxSymbol : s \in listed <=> \E i \in DOMAIN batches : \E k \in DOMAIN batches[i] : batches[i][k] = s
    /\ \A i, j \in DOMAIN batches : \A k \in DOMAIN batches[i], n \in DOMAIN batches[j] :
           i < j \/ (i = j /\ k < n) => batches[i][k] < batches[j][n]
PlanWhole == [][plan.active = FALSE /\ plan'.active => Split(plan'.batches)]_plan

(* Two children of one plan are never the same task.                           *)
ChildrenApart == \A p \in ended : \A i, j \in DOMAIN p.got : i # j => p.got[i] # p.got[j]
===============================================================================
