--------------------------- MODULE TaskQueueProofs ---------------------------
(***************************************************************************)
(* Proofs about TaskQueue, for any number of keys, threads, processes,     *)
(* tasks, retries and crashes: the types, and the safety theorems.  A task *)
(* is delivered once, its handler is entered at most 1 + MaxRetries times, *)
(* market tasks of a process exclude each other, a finished task stays     *)
(* finished, and one that was cancelled in a queue never runs.             *)
(*                                                                         *)
(* Typed is the type invariant, one conjunct per group of variables, with  *)
(* the fact that an activation that is under way has a task.  The rest     *)
(* stands on Places: a task id is in at most one of the hands of a caller, *)
(* a queue, or the hands of a runner.  So a runner is the only one to      *)
(* write an active status of its task, whatever copies the cancel API and  *)
(* the stale marker still hold.                                            *)
(***************************************************************************)
EXTENDS TaskQueue, SequenceTheorems, TLAPS

Homes == Procs \cup {Redis}

StoreTyped ==
    /\ store \in [Tasks -> Record]
    /\ idem \in [Keys -> Tasks \cup {NoTask}]
    /\ taskKey \in [Tasks -> Keys \cup {NoKey}]
    /\ queue \in [Homes -> Seq(Tasks)]
    /\ lane \in [Procs -> Runners \cup {NoRunner}]
    /\ created \in 0..MaxTasks
    /\ runs \in [Tasks -> Nat]
    /\ crashes \in 0..MaxCrashes
    /\ expiries \in 0..MaxExpiries

EnqTyped ==
    /\ epc \in [Enqueuers -> EnqPC]
    /\ ekey \in [Enqueuers -> Keys \cup {NoKey}]
    /\ etid \in [Enqueuers -> Tasks \cup {NoTask}]
    /\ \A e \in Enqueuers : epc[e] # "idle" => etid[e] \in Tasks /\ ekey[e] \in Keys

RunTyped ==
    /\ rpc \in [Runners -> RunPC]
    /\ rtid \in [Runners -> Tasks \cup {NoTask}]
    /\ rcur \in [Runners -> Record]
    /\ rev \in [Runners -> Record]
    /\ \A r \in Runners : rpc[r] # "idle" => rtid[r] \in Tasks

CanTyped ==
    /\ cpc \in [Cancellers -> {"idle", "load", "save"}]
    /\ ctid \in [Cancellers -> Tasks \cup {NoTask}]
    /\ ccur \in [Cancellers -> Record]
    /\ \A c \in Cancellers : cpc[c] # "idle" => ctid[c] \in Tasks

MarkTyped ==
    /\ mpc \in [Markers -> {"idle", "save"}]
    /\ mtid \in [Markers -> Tasks \cup {NoTask}]
    /\ mcur \in [Markers -> Record]
    /\ \A m \in Markers : mpc[m] # "idle" => mtid[m] \in Tasks

Typed == StoreTyped /\ EnqTyped /\ RunTyped /\ CanTyped /\ MarkTyped

USE KeysAssumption, ProcAssumption, ModeAssumption, BoundAssumption, NullAssumption
    DEF Tasks, Homes

-----------------------------------------------------------------------------
(* What the helper operators do to the types *)

LEMMA RecordFacts ==
    /\ Absent \in Record /\ Pending \in Record
    /\ \A rec \in Record : rec.status \in Status /\ rec.retry \in 0..MaxRetries
    /\ \A rec \in Record, s \in Status :
          With(rec, s) \in Record /\ With(rec, s).status = s /\ With(rec, s).retry = rec.retry
BY DEF Absent, Pending, Record, Status, Active, Terminal, With

LEMMA EnqGotoTyped ==
    ASSUME EnqTyped, NEW e \in Enqueuers, NEW pc \in EnqPC, epc[e] # "idle", EnqGoto(e, pc)
    PROVE  EnqTyped'
BY DEF EnqTyped, EnqGoto

LEMMA EnqSetTyped ==
    ASSUME EnqTyped, NEW e \in Enqueuers, NEW pc \in EnqPC, NEW k \in Keys, NEW t \in Tasks,
           EnqSet(e, pc, k, t)
    PROVE  EnqTyped'
BY DEF EnqTyped, EnqSet

LEMMA EnqDoneTyped ==
    ASSUME EnqTyped, NEW e \in Enqueuers, EnqDone(e)
    PROVE  EnqTyped'
BY DEF EnqTyped, EnqSet, EnqDone, EnqPC

LEMMA RunGotoTyped ==
    ASSUME RunTyped, NEW r \in Runners, NEW pc \in RunPC, rpc[r] # "idle", RunGoto(r, pc)
    PROVE  RunTyped'
BY DEF RunTyped, RunGoto

LEMMA CarryTyped ==
    ASSUME RunTyped, NEW r \in Runners, NEW pc \in RunPC, NEW rec \in Record,
           rpc[r] # "idle", Carry(r, pc, rec)
    PROVE  RunTyped'
BY DEF RunTyped, Carry

LEMMA RunDoneTyped ==
    ASSUME RunTyped, NEW r \in Runners, RunDone(r)
    PROVE  RunTyped'
BY RecordFacts DEF RunTyped, RunDone, RunPC

LEMMA CanSetTyped ==
    ASSUME CanTyped, NEW c \in Cancellers, NEW pc \in {"idle", "load", "save"},
           NEW t \in Tasks \cup {NoTask}, NEW rec \in Record,
           pc = "idle" \/ t \in Tasks, CanSet(c, pc, t, rec)
    PROVE  CanTyped'
BY DEF CanTyped, CanSet

LEMMA MarkSetTyped ==
    ASSUME MarkTyped, NEW m \in Markers, NEW pc \in {"idle", "save"},
           NEW t \in Tasks \cup {NoTask}, NEW rec \in Record,
           pc = "idle" \/ t \in Tasks, MarkSet(m, pc, t, rec)
    PROVE  MarkTyped'
BY DEF MarkTyped, MarkSet

LEMMA Frames ==
    /\ EnqTyped /\ UNCHANGED enq => EnqTyped'
    /\ RunTyped /\ UNCHANGED run => RunTyped'
    /\ CanTyped /\ UNCHANGED can => CanTyped'
    /\ MarkTyped /\ UNCHANGED mark => MarkTyped'
    /\ StoreTyped /\ UNCHANGED <<stores, bounds>> => StoreTyped'
BY DEF EnqTyped, RunTyped, CanTyped, MarkTyped, StoreTyped, enq, run, can, mark, stores, bounds

LEMMA SaveTyped ==
    ASSUME store \in [Tasks -> Record], NEW t, NEW rec \in Record, Save(t, rec)
    PROVE  store' \in [Tasks -> Record]
BY DEF Save

LEMMA LatestTyped ==
    ASSUME StoreTyped, RunTyped, NEW r \in Runners, rpc[r] # "idle"
    PROVE  Latest(r) \in Record
BY DEF StoreTyped, RunTyped, Latest

LEMMA ReleaseTyped ==
    ASSUME StoreTyped, NEW r \in Runners, Release(r)
    PROVE  lane' \in [Procs -> Runners \cup {NoRunner}]
BY DEF StoreTyped, Release

-----------------------------------------------------------------------------
(* Type correctness *)

LEMMA TypedInit == Init => Typed
BY RecordFacts DEF Init, Typed, StoreTyped, EnqTyped, RunTyped, CanTyped, MarkTyped, EnqPC, RunPC

LEMMA TypedNext == Typed /\ [Next]_vars => Typed'
<1> SUFFICES ASSUME Typed, [Next]_vars PROVE Typed'
    OBVIOUS
<1> USE RecordFacts, Frames DEF Typed
<1>1. ASSUME NEW e \in Enqueuers, NEW k \in Keys, EnqCheck(e, k) PROVE Typed'
    <2>1. EnqTyped'
        BY <1>1, EnqSetTyped DEF EnqCheck, EnqPC, StoreTyped
    <2>2. StoreTyped'
        BY <1>1 DEF EnqCheck, StoreTyped
    <2>3. QED
        BY <1>1, <2>1, <2>2 DEF EnqCheck
<1>2. ASSUME NEW e \in Enqueuers, EnqClaim(e) PROVE Typed'
    <2>1. EnqTyped'
        BY <1>2, EnqGotoTyped DEF EnqClaim, EnqPC
    <2>2. StoreTyped'
        BY <1>2 DEF EnqClaim, StoreTyped, EnqTyped, bounds
    <2>3. QED
        BY <1>2, <2>1, <2>2 DEF EnqClaim
<1>3. ASSUME NEW e \in Enqueuers, EnqRecheck(e) PROVE Typed'
    <2>1. EnqTyped'
        BY <1>3, EnqGotoTyped, EnqDoneTyped DEF EnqRecheck, EnqPC
    <2>2. StoreTyped'
        BY <1>3 DEF EnqRecheck
    <2>3. QED
        BY <1>3, <2>1, <2>2 DEF EnqRecheck
<1>4. ASSUME NEW e \in Enqueuers, EnqOverwrite(e) PROVE Typed'
    <2>1. EnqTyped'
        BY <1>4, EnqGotoTyped DEF EnqOverwrite, EnqPC
    <2>2. StoreTyped'
        BY <1>4 DEF EnqOverwrite, StoreTyped, EnqTyped, bounds
    <2>3. QED
        BY <1>4, <2>1, <2>2 DEF EnqOverwrite
<1>5. ASSUME NEW e \in Enqueuers, EnqSave(e) PROVE Typed'
    <2>1. EnqTyped'
        BY <1>5, EnqGotoTyped DEF EnqSave, EnqPC
    <2>2. StoreTyped'
        BY <1>5, SaveTyped DEF EnqSave, StoreTyped, bounds
    <2>3. QED
        BY <1>5, <2>1, <2>2 DEF EnqSave
<1>6. ASSUME NEW e \in Enqueuers, EnqDispatch(e) PROVE Typed'
    <2>1. EnqTyped'
        BY <1>6, EnqDoneTyped DEF EnqDispatch
    <2>2. StoreTyped'
        BY <1>6 DEF EnqDispatch, StoreTyped, EnqTyped, bounds, Home
    <2>3. QED
        BY <1>6, <2>1, <2>2 DEF EnqDispatch
<1>7. ASSUME NEW r \in Runners, RunTake(r) PROVE Typed'
    <2> DEFINE h == Home(ProcOf[r])
    <2>1. h \in Homes
        BY DEF Home
    <2>2. queue[h] \in Seq(Tasks) /\ queue[h] # <<>>
        BY <1>7, <2>1 DEF RunTake, StoreTyped
    <2> HIDE DEF h
    <2>3. Head(queue[h]) \in Tasks /\ Tail(queue[h]) \in Seq(Tasks)
        BY <2>2, HeadTailProperties
    <2> USE DEF h
    <2>4. RunTyped'
        BY <1>7, <2>3 DEF RunTake, RunTyped, RunPC
    <2>5. StoreTyped'
        BY <1>7, <2>3 DEF RunTake, StoreTyped, bounds
    <2>6. QED
        BY <1>7, <2>4, <2>5 DEF RunTake
<1>8. ASSUME NEW r \in Runners, RunLookup(r) PROVE Typed'
    <2>1. RunTyped'
        BY <1>8, RunGotoTyped, RunDoneTyped DEF RunLookup, RunPC
    <2>2. StoreTyped'
        BY <1>8 DEF RunLookup
    <2>3. QED
        BY <1>8, <2>1, <2>2 DEF RunLookup
<1>9. ASSUME NEW r \in Runners, RunUnregLoad(r) PROVE Typed'
    <2> DEFINE rec == With(store[rtid[r]], "failed")
    <2>0. rec \in Record /\ "unregsave" \in RunPC
        BY <1>9, RecordFacts DEF RunUnregLoad, StoreTyped, RunTyped, RunPC, Status, Terminal
    <2>1. RunTyped'
        BY <1>9, <2>0, CarryTyped, RunDoneTyped DEF RunUnregLoad
    <2>2. StoreTyped'
        BY <1>9 DEF RunUnregLoad
    <2>3. QED
        BY <1>9, <2>1, <2>2 DEF RunUnregLoad
<1>10. ASSUME NEW r \in Runners, RunUnregSave(r) PROVE Typed'
    <2>1. RunTyped'
        BY <1>10, RunDoneTyped DEF RunUnregSave
    <2>2. StoreTyped'
        BY <1>10, SaveTyped DEF RunUnregSave, StoreTyped, RunTyped, bounds
    <2>3. QED
        BY <1>10, <2>1, <2>2 DEF RunUnregSave
<1>11. ASSUME NEW r \in Runners, RunExec(r) PROVE Typed'
    <2>1. RunTyped'
        BY <1>11, RunGotoTyped, RunDoneTyped, CarryTyped DEF RunExec, RunPC, StoreTyped, RunTyped
    <2>2. StoreTyped'
        BY <1>11 DEF RunExec, StoreTyped, bounds
    <2>3. QED
        BY <1>11, <2>1, <2>2 DEF RunExec
<1>12. ASSUME NEW r \in Runners, RunLaneSave(r) PROVE Typed'
    <2>1. RunTyped'
        BY <1>12, RunGotoTyped DEF RunLaneSave, RunPC
    <2>2. StoreTyped'
        BY <1>12, SaveTyped DEF RunLaneSave, StoreTyped, RunTyped, bounds
    <2>3. QED
        BY <1>12, <2>1, <2>2 DEF RunLaneSave
<1>13. ASSUME NEW r \in Runners, RunLaneAcquire(r) PROVE Typed'
    <2>1. RunTyped'
        BY <1>13, RunGotoTyped DEF RunLaneAcquire, RunPC
    <2>2. StoreTyped'
        BY <1>13 DEF RunLaneAcquire, StoreTyped, bounds
    <2>3. QED
        BY <1>13, <2>1, <2>2 DEF RunLaneAcquire
<1>14. ASSUME NEW r \in Runners, RunStart(r) PROVE Typed'
    <2>1. RunTyped'
        BY <1>14, RunDoneTyped, CarryTyped DEF RunStart, RunPC, StoreTyped, RunTyped, Status, Active
    <2>2. StoreTyped'
        BY <1>14, ReleaseTyped DEF RunStart, StoreTyped, bounds
    <2>3. QED
        BY <1>14, <2>1, <2>2 DEF RunStart
<1>15. ASSUME NEW r \in Runners, RunSaveRunning(r) PROVE Typed'
    <2>1. RunTyped'
        BY <1>15, RunGotoTyped DEF RunSaveRunning, RunPC
    <2>2. StoreTyped'
        BY <1>15, SaveTyped DEF RunSaveRunning, StoreTyped, RunTyped, bounds
    <2>3. QED
        BY <1>15, <2>1, <2>2 DEF RunSaveRunning
<1>16. ASSUME NEW r \in Runners, RunBeat(r) PROVE Typed'
    <2>1. RunTyped'
        BY <1>16, RunGotoTyped DEF RunBeat, RunPC
    <2>2. store' \in [Tasks -> Record]
        BY <1>16, SaveTyped DEF RunBeat, StoreTyped, RunTyped
    <2>3. runs' \in [Tasks -> Nat]
        BY <1>16 DEF RunBeat, StoreTyped, RunTyped
    <2>4. StoreTyped'
        BY <1>16, <2>2, <2>3 DEF RunBeat, StoreTyped
    <2>5. QED
        BY <1>16, <2>1, <2>4 DEF RunBeat
<1>17. ASSUME NEW r \in Runners, RunEventLoad(r) PROVE Typed'
    <2>1. RunTyped'
        BY <1>17 DEF RunEventLoad, RunTyped, StoreTyped, RunPC
    <2>2. StoreTyped'
        BY <1>17 DEF RunEventLoad
    <2>3. QED
        BY <1>17, <2>1, <2>2 DEF RunEventLoad
<1>18. ASSUME NEW r \in Runners, RunEventSave(r) PROVE Typed'
    <2>1. RunTyped'
        BY <1>18 DEF RunEventSave, RunTyped, RunPC
    <2>2. StoreTyped'
        BY <1>18, SaveTyped DEF RunEventSave, StoreTyped, RunTyped, bounds
    <2>3. QED
        BY <1>18, <2>1, <2>2 DEF RunEventSave
<1>19. ASSUME NEW r \in Runners, RunReturn(r) PROVE Typed'
    <2>1. RunTyped'
        BY <1>19, CarryTyped, LatestTyped DEF RunReturn, RunPC, RunTyped, Status, Terminal
    <2>2. StoreTyped'
        BY <1>19 DEF RunReturn
    <2>3. QED
        BY <1>19, <2>1, <2>2 DEF RunReturn
<1>20. ASSUME NEW r \in Runners, RunRaise(r) PROVE Typed'
    <2>1. rpc[r] # "idle" /\ rcur[r] \in Record /\ Latest(r) \in Record
        BY <1>20, LatestTyped DEF RunRaise, RunTyped
    <2>2. rcur[r].retry < MaxRetries
             => [status |-> "retrying", retry |-> rcur[r].retry + 1] \in Record
        BY <2>1 DEF Record, Status, Active
    <2>3. With(rcur[r], "failed") \in Record
        BY <2>1 DEF Status, Terminal
    <2>4. RunTyped'
        BY <1>20, <2>1, <2>2, <2>3, CarryTyped DEF RunRaise, RunPC
    <2>5. QED
        BY <1>20, <2>4 DEF RunRaise
<1>21. ASSUME NEW r \in Runners, RunSaveRetry(r) PROVE Typed'
    <2>1. RunTyped'
        BY <1>21, CarryTyped DEF RunSaveRetry, RunPC, RunTyped, Status, Active
    <2>2. StoreTyped'
        BY <1>21, SaveTyped DEF RunSaveRetry, StoreTyped, RunTyped, bounds
    <2>3. QED
        BY <1>21, <2>1, <2>2 DEF RunSaveRetry
<1>22. ASSUME NEW r \in Runners, RunFinal(r) PROVE Typed'
    <2>1. RunTyped'
        BY <1>22, RunDoneTyped DEF RunFinal
    <2>2. StoreTyped'
        BY <1>22, SaveTyped, ReleaseTyped DEF RunFinal, StoreTyped, RunTyped, bounds
    <2>3. QED
        BY <1>22, <2>1, <2>2 DEF RunFinal
<1>23. ASSUME NEW c \in Cancellers, NEW t \in Tasks, CanCheck(c, t) PROVE Typed'
    <2>1. CanTyped'
        BY <1>23, CanSetTyped DEF CanCheck
    <2>2. StoreTyped'
        BY <1>23 DEF CanCheck
    <2>3. QED
        BY <1>23, <2>1, <2>2 DEF CanCheck
<1>24. ASSUME NEW c \in Cancellers, CanLoad(c) PROVE Typed'
    <2>1. CanTyped'
        BY <1>24, CanSetTyped DEF CanLoad, CanTyped, StoreTyped, Status, Terminal
    <2>2. StoreTyped'
        BY <1>24 DEF CanLoad
    <2>3. QED
        BY <1>24, <2>1, <2>2 DEF CanLoad
<1>25. ASSUME NEW c \in Cancellers, CanSave(c) PROVE Typed'
    <2>1. CanTyped'
        BY <1>25, CanSetTyped DEF CanSave
    <2>2. StoreTyped'
        BY <1>25, SaveTyped DEF CanSave, StoreTyped, CanTyped, bounds
    <2>3. QED
        BY <1>25, <2>1, <2>2 DEF CanSave
<1>26. ASSUME NEW x \in Markers, NEW t \in Tasks, MarkLoad(x, t) PROVE Typed'
    <2>1. MarkTyped'
        BY <1>26, MarkSetTyped DEF MarkLoad, StoreTyped, Status, Terminal
    <2>2. StoreTyped'
        BY <1>26 DEF MarkLoad
    <2>3. QED
        BY <1>26, <2>1, <2>2 DEF MarkLoad
<1>27. ASSUME NEW x \in Markers, MarkSave(x) PROVE Typed'
    <2>1. MarkTyped'
        BY <1>27, MarkSetTyped DEF MarkSave
    <2>2. StoreTyped'
        BY <1>27, SaveTyped DEF MarkSave, StoreTyped, MarkTyped, bounds
    <2>3. QED
        BY <1>27, <2>1, <2>2 DEF MarkSave
<1>28. ASSUME NEW p \in Procs, Crash(p) PROVE Typed'
    <2>1. EnqTyped'
        BY <1>28 DEF Crash, EnqTyped, EnqPC
    <2>2. RunTyped'
        BY <1>28 DEF Crash, RunTyped, RunPC
    <2>3. StoreTyped'
        BY <1>28 DEF Crash, StoreTyped
    <2>4. QED
        BY <1>28, <2>1, <2>2, <2>3 DEF Crash
<1>29. ASSUME NEW t \in Tasks, Expire(t) PROVE Typed'
    <2>1. StoreTyped'
        BY <1>29, SaveTyped DEF Expire, StoreTyped
    <2>2. QED
        BY <1>29, <2>1 DEF Expire
<1>30. CASE UNCHANGED vars
    BY <1>30 DEF vars
<1>31. QED
    BY <1>1, <1>2, <1>3, <1>4, <1>5, <1>6, <1>7, <1>8, <1>9, <1>10, <1>11,
       <1>12, <1>13, <1>14, <1>15, <1>16, <1>17, <1>18, <1>19, <1>20, <1>21,
       <1>22, <1>23, <1>24, <1>25, <1>26, <1>27, <1>28, <1>29, <1>30
    DEF Next, EnqStep, RunStep, CanNext, CanStep, MarkNext

\* Every reachable state is well typed: every record in the store and in every
\* local copy has a known status and a retry count within the budget.
THEOREM TypeCorrect == Spec => []TypeOK
<1>1. Spec => []Typed
    BY TypedInit, TypedNext, PTL DEF Spec
<1>2. Typed => TypeOK
    BY DEF Typed, StoreTyped, EnqTyped, RunTyped, CanTyped, MarkTyped, TypeOK
<1>3. QED
    BY <1>1, <1>2, PTL

-----------------------------------------------------------------------------
(* Where a task is *)

USE DEF Tasks, Homes

Calling(e) == epc[e] # "idle"

Places ==
    /\ \A e \in Enqueuers : Calling(e) => etid[e] <= created
    /\ \A e1, e2 \in Enqueuers :
          e1 # e2 /\ Calling(e1) /\ Calling(e2) => etid[e1] # etid[e2]
    /\ \A e \in Enqueuers : Calling(e) => ~Queued(etid[e])
    /\ \A e \in Enqueuers, r \in Runners : Calling(e) /\ Busy(r) => rtid[r] # etid[e]
    /\ \A r \in Runners : Busy(r) => rtid[r] <= created
    /\ \A t \in Tasks : Queued(t) => t <= created
    /\ DeliveredOnce

\* The part of a step that Places depends on: nobody new holds a task.
EnqQuiet == \A e \in Enqueuers : Calling(e)' => Calling(e) /\ etid'[e] = etid[e]
RunQuiet == \A r \in Runners : Busy(r)' => Busy(r) /\ rtid'[r] = rtid[r]

\* Every action but four.
Quiet == EnqQuiet /\ RunQuiet /\ UNCHANGED <<queue, created, taskKey>>

LEMMA HelpersQuiet ==
    /\ \A e \in Enqueuers, pc \in EnqPC :
          EnqTyped /\ Calling(e) /\ EnqGoto(e, pc) => EnqQuiet
    /\ \A e \in Enqueuers : EnqTyped /\ EnqDone(e) => EnqQuiet
    /\ UNCHANGED enq => EnqQuiet
    /\ \A r \in Runners, pc \in RunPC : RunTyped /\ Busy(r) /\ RunGoto(r, pc) => RunQuiet
    /\ \A r \in Runners, pc \in RunPC, rec \in Record :
          RunTyped /\ Busy(r) /\ Carry(r, pc, rec) => RunQuiet
    /\ \A r \in Runners : RunTyped /\ RunDone(r) => RunQuiet
    /\ UNCHANGED run => RunQuiet
<1> USE DEF EnqTyped, RunTyped, Calling, Busy, EnqQuiet, RunQuiet
<1>1. ASSUME NEW e \in Enqueuers, NEW pc \in EnqPC, EnqTyped, Calling(e), EnqGoto(e, pc)
      PROVE  EnqQuiet
    BY <1>1 DEF EnqGoto
<1>2. ASSUME NEW e \in Enqueuers, EnqTyped, EnqDone(e) PROVE EnqQuiet
    BY <1>2 DEF EnqDone, EnqSet
<1>3. ASSUME UNCHANGED enq PROVE EnqQuiet
    BY <1>3 DEF enq
<1>4. ASSUME NEW r \in Runners, NEW pc \in RunPC, RunTyped, Busy(r), RunGoto(r, pc)
      PROVE  RunQuiet
    BY <1>4 DEF RunGoto
<1>5. ASSUME NEW r \in Runners, NEW pc \in RunPC, NEW rec \in Record, RunTyped, Busy(r),
             Carry(r, pc, rec)
      PROVE  RunQuiet
    BY <1>5 DEF Carry
<1>6. ASSUME NEW r \in Runners, RunTyped, RunDone(r) PROVE RunQuiet
    BY <1>6 DEF RunDone
<1>7. ASSUME UNCHANGED run PROVE RunQuiet
    BY <1>7 DEF run
<1>8. QED
    BY <1>1, <1>2, <1>3, <1>4, <1>5, <1>6, <1>7

Loud ==
    \/ \E e \in Enqueuers : EnqDispatch(e) \/ \E k \in Keys : EnqCheck(e, k)
    \/ \E r \in Runners : RunTake(r)
    \/ \E p \in Procs : Crash(p)

LEMMA QuietOrLoud == Typed /\ [Next]_vars => Quiet \/ Loud
<1> SUFFICES ASSUME Typed, [Next]_vars, ~Loud PROVE Quiet
    OBVIOUS
<1> USE HelpersQuiet, RecordFacts DEF Typed, Quiet, stores, bounds, Calling, Busy
<1>1. ASSUME NEW e \in Enqueuers, EnqStep(e), ~EnqDispatch(e) PROVE Quiet
    BY <1>1 DEF EnqStep, EnqClaim, EnqRecheck, EnqOverwrite, EnqSave, EnqPC
<1>2. ASSUME NEW r \in Runners, RunLookup(r) \/ RunUnregLoad(r) \/ RunUnregSave(r)
      PROVE Quiet
    <2>1. CASE RunLookup(r) \/ RunUnregSave(r)
        BY <2>1 DEF RunLookup, RunUnregSave, RunPC
    <2>2. CASE RunUnregLoad(r)
        <3>1. With(store[rtid[r]], "failed") \in Record /\ "unregsave" \in RunPC
            BY <2>2 DEF RunUnregLoad, StoreTyped, RunTyped, RunPC, Status, Terminal
        <3>2. QED
            BY <2>2, <3>1 DEF RunUnregLoad
    <2>3. QED
        BY <1>2, <2>1, <2>2
<1>3. ASSUME NEW r \in Runners, RunExec(r) \/ RunLaneSave(r) \/ RunLaneAcquire(r)
      PROVE Quiet
    BY <1>3 DEF RunExec, RunLaneSave, RunLaneAcquire, RunPC, StoreTyped, RunTyped
<1>4. ASSUME NEW r \in Runners, RunStart(r) \/ RunSaveRunning(r) \/ RunBeat(r)
      PROVE Quiet
    BY <1>4 DEF RunStart, RunSaveRunning, RunBeat, RunPC, StoreTyped, RunTyped, Status, Active
<1>5. ASSUME NEW r \in Runners, RunEventLoad(r) \/ RunEventSave(r) PROVE Quiet
    BY <1>5 DEF RunEventLoad, RunEventSave, RunQuiet, RunTyped
<1>6. ASSUME NEW r \in Runners, RunReturn(r) \/ RunSaveRetry(r) \/ RunFinal(r)
      PROVE Quiet
    BY <1>6, LatestTyped DEF RunReturn, RunSaveRetry, RunFinal, RunPC, RunTyped, Status,
       Active, Terminal
<1>7. ASSUME NEW r \in Runners, RunRaise(r) PROVE Quiet
    <2>1. RunQuiet
        BY <1>7 DEF RunRaise, RunQuiet, RunTyped, Carry
    <2>2. QED
        BY <1>7, <2>1 DEF RunRaise
<1>8. ASSUME CanNext \/ MarkNext PROVE Quiet
    BY <1>8 DEF CanNext, CanStep, CanCheck, CanLoad, CanSave, MarkNext, MarkLoad, MarkSave
<1>9. ASSUME NEW t \in Tasks, Expire(t) PROVE Quiet
    BY <1>9 DEF Expire
<1>10. CASE UNCHANGED vars
    BY <1>10 DEF vars
<1>11. QED
    BY <1>1, <1>2, <1>3, <1>4, <1>5, <1>6, <1>7, <1>8, <1>9, <1>10 DEF Next, RunStep, Loud

-----------------------------------------------------------------------------
(* A task is in one place *)

QueueUnique ==
    \A h1, h2 \in Homes :
        \A i \in DOMAIN queue[h1], j \in DOMAIN queue[h2] :
            queue[h1][i] = queue[h2][j] => h1 = h2 /\ i = j

LEMMA TakeMoves ==
    ASSUME Typed, QueueUnique, NEW r \in Runners, RunTake(r), NEW x, x = rtid'[r]
    PROVE  /\ QueueUnique'
           /\ Queued(x) /\ x \in Tasks
           /\ \A t : Queued(t)' => Queued(t) /\ t # x
<1> DEFINE h == Home(ProcOf[r])
<1>1. /\ h \in Homes
      /\ queue \in [Homes -> Seq(Tasks)]
      /\ queue[h] # <<>>
      /\ queue' = [queue EXCEPT ![h] = Tail(queue[h])]
      /\ x = Head(queue[h])
    BY DEF RunTake, Home, Typed, StoreTyped, RunTyped
<1> HIDE DEF h
<1>2. /\ queue[h] \in Seq(Tasks)
      /\ Len(queue[h]) \in Nat \ {0}
      /\ DOMAIN queue[h] = 1..Len(queue[h])
      /\ DOMAIN Tail(queue[h]) = 1..(Len(queue[h]) - 1)
      /\ \A i \in 1..(Len(queue[h]) - 1) : Tail(queue[h])[i] = queue[h][i + 1]
      /\ Head(queue[h]) = queue[h][1]
    BY <1>1
<1>3. /\ DOMAIN queue' = Homes
      /\ queue'[h] = Tail(queue[h])
      /\ \A g \in Homes : g # h => queue'[g] = queue[g]
    BY <1>1
<1>4. \A i \in DOMAIN queue'[h] : i + 1 \in DOMAIN queue[h] /\ queue'[h][i] = queue[h][i + 1]
    BY <1>2, <1>3
<1>5. QueueUnique'
    <2> SUFFICES ASSUME NEW h1 \in Homes, NEW h2 \in Homes,
                        NEW i \in DOMAIN queue'[h1], NEW j \in DOMAIN queue'[h2],
                        queue'[h1][i] = queue'[h2][j]
                 PROVE  h1 = h2 /\ i = j
        BY DEF QueueUnique
    <2>1. CASE h1 = h /\ h2 = h
        <3>1. i \in Nat /\ j \in Nat
            BY <2>1, <1>2, <1>3
        <3>2. queue[h][i + 1] = queue[h][j + 1] /\ i + 1 \in DOMAIN queue[h] /\ j + 1 \in DOMAIN queue[h]
            BY <2>1, <1>4
        <3>3. i + 1 = j + 1
            BY <3>2, <1>1 DEF QueueUnique
        <3>4. QED
            BY <3>1, <3>3, <2>1
    <2>2. CASE h1 = h /\ h2 # h
        BY <2>2, <1>1, <1>3, <1>4 DEF QueueUnique
    <2>3. CASE h1 # h /\ h2 = h
        BY <2>3, <1>1, <1>3, <1>4 DEF QueueUnique
    <2>4. CASE h1 # h /\ h2 # h
        BY <2>4, <1>3 DEF QueueUnique
    <2>5. QED
        BY <2>1, <2>2, <2>3, <2>4
<1>6. Queued(x) /\ x \in Tasks
    BY <1>1, <1>2 DEF Queued
<1>7. ASSUME NEW t, Queued(t)' PROVE Queued(t) /\ t # x
    <2>1. PICK g \in Homes : \E i \in DOMAIN queue'[g] : queue'[g][i] = t
        BY <1>7 DEF Queued
    <2>2. PICK i \in DOMAIN queue'[g] : queue'[g][i] = t
        BY <2>1
    <2>3. CASE g = h
        <3>1. i \in Nat /\ i >= 1 /\ i + 1 \in DOMAIN queue[h] /\ queue[h][i + 1] = t
            BY <2>2, <2>3, <1>2, <1>3, <1>4
        <3>2. t # queue[h][1]
            BY <3>1, <1>1, <1>2 DEF QueueUnique
        <3>3. QED
            BY <3>1, <3>2, <1>1, <1>2 DEF Queued
    <2>4. CASE g # h
        <3>1. i \in DOMAIN queue[g] /\ queue[g][i] = t
            BY <2>2, <2>4, <1>3
        <3>2. t # queue[h][1]
            BY <3>1, <2>4, <1>1, <1>2 DEF QueueUnique
        <3>3. QED
            BY <3>1, <3>2, <1>1, <1>2 DEF Queued
    <2>5. QED
        BY <2>3, <2>4
<1>8. QED
    BY <1>5, <1>6, <1>7

LEMMA DispatchMoves ==
    ASSUME Typed, QueueUnique, NEW e \in Enqueuers, EnqDispatch(e), ~Queued(etid[e])
    PROVE  /\ QueueUnique'
           /\ \A t : Queued(t)' => Queued(t) \/ t = etid[e]
<1> DEFINE h == Home(ProcOf[e])
           x == etid[e]
<1>1. /\ h \in Homes
      /\ queue \in [Homes -> Seq(Tasks)]
      /\ x \in Tasks
      /\ queue' = [queue EXCEPT ![h] = Append(queue[h], x)]
    BY DEF EnqDispatch, Home, Typed, StoreTyped, EnqTyped
<1> HIDE DEF h, x
<1>2. /\ queue[h] \in Seq(Tasks)
      /\ Len(queue[h]) \in Nat
      /\ DOMAIN queue[h] = 1..Len(queue[h])
      /\ DOMAIN Append(queue[h], x) = 1..(Len(queue[h]) + 1)
      /\ \A i \in 1..Len(queue[h]) : Append(queue[h], x)[i] = queue[h][i]
      /\ Append(queue[h], x)[Len(queue[h]) + 1] = x
    BY <1>1
<1>3. /\ queue'[h] = Append(queue[h], x)
      /\ \A g \in Homes : g # h => queue'[g] = queue[g]
    BY <1>1
<1>4. \A g \in Homes : \A i \in DOMAIN queue'[g] :
          \/ i \in DOMAIN queue[g] /\ queue'[g][i] = queue[g][i]
          \/ g = h /\ i = Len(queue[h]) + 1 /\ queue'[g][i] = x
    <2> SUFFICES ASSUME NEW g \in Homes, NEW i \in DOMAIN queue'[g]
                 PROVE  \/ i \in DOMAIN queue[g] /\ queue'[g][i] = queue[g][i]
                        \/ g = h /\ i = Len(queue[h]) + 1 /\ queue'[g][i] = x
        OBVIOUS
    <2>1. CASE g = h
        BY <2>1, <1>2, <1>3
    <2>2. CASE g # h
        BY <2>2, <1>3
    <2>3. QED
        BY <2>1, <2>2
<1>5. \A g \in Homes : \A i \in DOMAIN queue[g] : queue[g][i] # x
    BY DEF Queued, x
<1>6. QueueUnique'
    BY <1>4, <1>5 DEF QueueUnique
<1>7. \A t : Queued(t)' => Queued(t) \/ t = x
    BY <1>4 DEF Queued
<1>8. QED
    BY <1>6, <1>7 DEF x

LEMMA CrashMoves ==
    ASSUME Typed, QueueUnique, NEW p \in Procs, Crash(p)
    PROVE  QueueUnique' /\ \A t : Queued(t)' => Queued(t)
<1>1. \A g \in Homes : \A i \in DOMAIN queue'[g] :
          i \in DOMAIN queue[g] /\ queue'[g][i] = queue[g][i]
    BY DEF Crash, Typed, StoreTyped
<1>2. QED
    BY <1>1 DEF QueueUnique, Queued

LEMMA PlacesInit == Init => Places
BY DEF Init, Places, DeliveredOnce, Calling, Busy, Queued

LEMMA PlacesNext == Typed /\ Places /\ [Next]_vars => Places'
<1> SUFFICES ASSUME Typed, Places, [Next]_vars PROVE Places'
    OBVIOUS
<1>1. QueueUnique
    BY DEF Places, DeliveredOnce, QueueUnique
<1>2. CASE Quiet
    <2>1. \A t : Queued(t)' <=> Queued(t)
        BY <1>2 DEF Quiet, Queued
    <2>2. DeliveredOnce'
        BY <1>2, <2>1 DEF Quiet, RunQuiet, Places, DeliveredOnce
    <2>3. QED
        BY <1>2, <2>1, <2>2 DEF Quiet, EnqQuiet, RunQuiet, Places
<1>3. ASSUME NEW e \in Enqueuers, NEW k \in Keys, EnqCheck(e, k) PROVE Places'
    <2>1. /\ created' = created + 1 /\ created \in Nat
          /\ etid' = [etid EXCEPT ![e] = created + 1]
          /\ epc' = [epc EXCEPT ![e] = "claim"]
          /\ UNCHANGED <<queue, rpc, rtid>>
        BY <1>3 DEF EnqCheck, EnqSet, Typed, StoreTyped, run
    <2>2. \A t : Queued(t)' <=> Queued(t)
        BY <2>1 DEF Queued
    <2>3. DeliveredOnce'
        BY <2>1, <2>2 DEF Places, DeliveredOnce, Busy
    <2>4. \A t \in Tasks : Queued(t) => t # created + 1
        BY <2>1 DEF Places
    <2>5. \A f \in Enqueuers : etid[f] \in Tasks \cup {NoTask} /\ (Calling(f) => etid[f] \in Tasks)
        BY DEF Typed, EnqTyped, Calling
    <2>6. \A q \in Runners : Busy(q) => rtid[q] \in Tasks
        BY DEF Typed, RunTyped, Busy
    <2>7. created + 1 \in Tasks
        BY <1>3, <2>1 DEF EnqCheck
    <2>8. \A f \in Enqueuers : Calling(f)' => (f = e /\ etid'[f] = created + 1)
                                              \/ (f # e /\ Calling(f) /\ etid'[f] = etid[f])
        BY <2>1 DEF Calling, Typed, EnqTyped
    <2>9. \A f \in Enqueuers : Calling(f) => etid[f] # created + 1
        BY <2>1, <2>5 DEF Places
    <2>10. \A q \in Runners : Busy(q) => rtid[q] # created + 1
        BY <2>1, <2>6 DEF Places
    <2>11. \A q \in Runners : Busy(q)' <=> Busy(q)
        BY <2>1 DEF Busy
    <2>12. \A f \in Enqueuers : Calling(f)' => etid'[f] <= created'
        BY <2>1, <2>5, <2>8 DEF Places
    <2>13. \A e1, e2 \in Enqueuers :
              e1 # e2 /\ Calling(e1)' /\ Calling(e2)' => etid'[e1] # etid'[e2]
        BY <2>8, <2>9 DEF Places
    <2>14. \A f \in Enqueuers : Calling(f)' => ~Queued(etid'[f])
        BY <2>4, <2>7, <2>8 DEF Places
    <2>15. \A f \in Enqueuers, q \in Runners : Calling(f)' /\ Busy(q) => rtid[q] # etid'[f]
        BY <2>8, <2>10 DEF Places
    <2>16. \A q \in Runners : Busy(q) => rtid[q] <= created'
        BY <2>1, <2>6 DEF Places
    <2>17. \A t \in Tasks : Queued(t) => t <= created'
        BY <2>1 DEF Places
    <2>18. QED
        BY <2>1, <2>2, <2>3, <2>11, <2>12, <2>13, <2>14, <2>15, <2>16, <2>17 DEF Places
<1>4. ASSUME NEW e \in Enqueuers, EnqDispatch(e) PROVE Places'
    <2>1. Calling(e) /\ etid[e] \in Tasks /\ ~Queued(etid[e])
        BY <1>4 DEF EnqDispatch, Calling, Places, Typed, EnqTyped
    <2>2. /\ QueueUnique'
          /\ \A t : Queued(t)' => Queued(t) \/ t = etid[e]
        BY <1>1, <1>4, <2>1, DispatchMoves
    <2>3. UNCHANGED <<rpc, rtid, created>>
        BY <1>4 DEF EnqDispatch, run, bounds
    <2>4. \A f \in Enqueuers : Calling(f)' => f # e /\ Calling(f) /\ etid'[f] = etid[f]
        BY <1>4 DEF EnqDispatch, EnqDone, EnqSet, Calling, Typed, EnqTyped
    <2>5. DeliveredOnce'
        BY <2>1, <2>2, <2>3 DEF Places, DeliveredOnce, QueueUnique, Busy
    <2>6. QED
        BY <2>1, <2>2, <2>3, <2>4, <2>5 DEF Places, Busy
<1>5. ASSUME NEW r \in Runners, RunTake(r) PROVE Places'
    <2>1. PICK x : x = rtid'[r]
        OBVIOUS
    <2>2. /\ QueueUnique'
          /\ Queued(x) /\ x \in Tasks
          /\ \A t : Queued(t)' => Queued(t) /\ t # x
        BY <1>1, <1>5, <2>1, TakeMoves
    <2>3. UNCHANGED <<epc, etid, created>>
        BY <1>5 DEF RunTake, enq, bounds
    <2>4. \A q \in Runners : Busy(q)' => (q = r /\ rtid'[q] = x)
                                         \/ (q # r /\ Busy(q) /\ rtid'[q] = rtid[q])
        BY <1>5, <2>1 DEF RunTake, Busy, Typed, RunTyped
    <2>5. \A q \in Runners : Busy(q) => rtid[q] # x
        BY <2>2 DEF Places, DeliveredOnce
    <2>6. \A q1, q2 \in Runners : q1 # q2 /\ Busy(q1)' /\ Busy(q2)' => rtid'[q1] # rtid'[q2]
        BY <2>4, <2>5 DEF Places, DeliveredOnce
    <2>7. \A q \in Runners : Busy(q)' => ~Queued(rtid[q])'
        BY <2>2, <2>4 DEF Places, DeliveredOnce
    <2>8. DeliveredOnce'
        BY <2>2, <2>6, <2>7 DEF DeliveredOnce, QueueUnique
    <2>9. \A e \in Enqueuers : Calling(e) => etid[e] # x
        BY <2>2 DEF Places
    <2>10. x <= created
        BY <2>2 DEF Places
    <2>11. QED
        BY <2>2, <2>3, <2>4, <2>8, <2>9, <2>10 DEF Places, Calling
<1>6. ASSUME NEW p \in Procs, Crash(p) PROVE Places'
    <2>1. QueueUnique' /\ \A t : Queued(t)' => Queued(t)
        BY <1>1, <1>6, CrashMoves
    <2>2. EnqQuiet /\ RunQuiet /\ UNCHANGED created
        BY <1>6 DEF Crash, EnqQuiet, RunQuiet, Calling, Busy
    <2>3. DeliveredOnce'
        BY <2>1, <2>2 DEF Places, DeliveredOnce, QueueUnique, RunQuiet
    <2>4. QED
        BY <2>1, <2>2, <2>3 DEF Places, EnqQuiet, RunQuiet
<1>7. QED
    BY QuietOrLoud, <1>2, <1>3, <1>4, <1>5, <1>6 DEF Loud

Core == Typed /\ Places

LEMMA CoreInit == Init => Core
BY TypedInit, PlacesInit DEF Core

LEMMA CoreNext == Core /\ [Next]_vars => Core'
BY TypedNext, PlacesNext DEF Core

\* A task waits in one place or is held by one runner.
THEOREM DeliveredAtMostOnce == Spec => []DeliveredOnce
<1>1. Spec => []Core
    BY CoreInit, CoreNext, PTL DEF Spec
<1>2. Core => DeliveredOnce
    BY DEF Core, Places
<1>3. QED
    BY <1>1, <1>2, PTL

-----------------------------------------------------------------------------
(* What a runner knows about its task.  Its copy of the record has the status *)
(* its place in the code implies, the retry count of the copy bounds the      *)
(* number of attempts, and the task is not finished.                          *)

Finished == {"completed", "failed"}
BeforeStart == {"lookup", "unregload", "unregsave", "exec", "lanesave", "lanewait", "start"}

RunOK(r) ==
    /\ rpc[r] \in BeforeStart => runs[rtid[r]] = 0
    /\ rpc[r] \in {"saverunning", "beat"} =>
          rcur[r].status = "running" /\ runs[rtid[r]] <= rcur[r].retry
    /\ rpc[r] \in {"func", "event"} =>
          /\ rcur[r].status = "running"
          /\ runs[rtid[r]] > 0 /\ runs[rtid[r]] <= rcur[r].retry + 1
    /\ rpc[r] = "saveretry" =>
          rcur[r].status = "retrying" /\ runs[rtid[r]] <= rcur[r].retry
    /\ rpc[r] = "unregsave" => rcur[r].status = "failed"
    /\ rpc[r] = "lanesave" => rcur[r].status \notin Finished
    /\ rpc[r] = "event" => rev[r].status \notin Finished
    /\ rpc[r] = "final" =>
          \/ rcur[r].status \in {"cancelled", "failed"}
          \/ rcur[r].status = "completed" /\ runs[rtid[r]] > 0

StoreOK(t) ==
    /\ store[t].status \in Finished =>
          /\ t <= created /\ ~Queued(t)
          /\ \A e \in Enqueuers : Calling(e) => etid[e] # t
          /\ \A r \in Runners : Busy(r) => rtid[r] # t
    /\ store[t].status = "completed" => runs[t] > 0
    /\ t > created \/ Queued(t) => runs[t] = 0
    /\ runs[t] <= MaxRetries + 1

EnqOK(e) == Calling(e) => runs[etid[e]] = 0
CopyOK ==
    /\ \A c \in Cancellers : cpc[c] = "save" => ccur[c].status = "cancelled"
    /\ \A m \in Markers : mpc[m] = "save" => mcur[m].status = "stale"

Discipline ==
    /\ \A r \in Runners : RunOK(r)
    /\ \A t \in Tasks : StoreOK(t)
    /\ \A e \in Enqueuers : EnqOK(e)
    /\ CopyOK

\* No runner but r moves.
OnlyRunner(r) ==
    \A q \in Runners : q # r => /\ rpc'[q] = rpc[q] /\ rtid'[q] = rtid[q]
                                /\ rcur'[q] = rcur[q] /\ rev'[q] = rev[q]

LEMMA OthersOK ==
    ASSUME Discipline, NEW r \in Runners, OnlyRunner(r), UNCHANGED runs
    PROVE  \A q \in Runners : q # r => RunOK(q)'
BY DEF Discipline, OnlyRunner, RunOK

LEMMA StoreKept ==
    ASSUME Typed, Discipline, Quiet, UNCHANGED runs,
           \A t \in Tasks : store'[t].status \in Finished => store[t].status = store'[t].status
    PROVE  /\ \A t \in Tasks : StoreOK(t)'
           /\ \A e \in Enqueuers : EnqOK(e)'
<1>1. \A t : Queued(t)' <=> Queued(t)
    BY DEF Quiet, Queued
<1>2. ASSUME NEW t \in Tasks PROVE StoreOK(t)'
    BY <1>1, <1>2 DEF Discipline, StoreOK, Quiet, EnqQuiet, RunQuiet, Finished
<1>3. ASSUME NEW e \in Enqueuers PROVE EnqOK(e)'
    BY <1>3 DEF Discipline, EnqOK, Quiet, EnqQuiet
<1>4. QED
    BY <1>2, <1>3

LEMMA CopyKept == CopyOK /\ UNCHANGED <<can, mark>> => CopyOK'
BY DEF CopyOK, can, mark

\* The record of a task a runner holds is not finished.
LEMMA HeldUnfinished ==
    ASSUME Typed, Discipline, NEW r \in Runners, Busy(r)
    PROVE  rtid[r] \in Tasks /\ store[rtid[r]].status \notin Finished
BY DEF Discipline, StoreOK, Typed, RunTyped, Busy

\* An action of a runner that holds its task, enters no handler and leaves the
\* record unfinished.
LEMMA RunnerKeeps ==
    ASSUME Typed, Discipline, NEW r \in Runners, Quiet, OnlyRunner(r),
           UNCHANGED <<runs, can, mark>>, RunOK(r)',
           \A t \in Tasks : store'[t].status \in Finished => store[t].status = store'[t].status
    PROVE  Discipline'
BY OthersOK, StoreKept, CopyKept DEF Discipline

\* The last save of a runner, which may finish the task.
LEMMA RunnerEnds ==
    ASSUME Typed, Places, Discipline, NEW r \in Runners, Busy(r), RunDone(r), Quiet,
           UNCHANGED <<runs, can, mark>>, Save(rtid[r], rcur[r]),
           rcur[r].status = "completed" => runs[rtid[r]] > 0
    PROVE  Discipline'
<1>1. OnlyRunner(r) /\ RunOK(r)' /\ ~Busy(r)'
    BY DEF RunDone, OnlyRunner, RunOK, Busy, BeforeStart, Typed, RunTyped
<1>2. \A t : Queued(t)' <=> Queued(t)
    BY DEF Quiet, Queued
<1>3. ASSUME NEW t \in Tasks, t # rtid[r] PROVE StoreOK(t)'
    <2>1. store'[t] = store[t]
        BY <1>3 DEF Save, Typed, StoreTyped
    <2>2. QED
        BY <1>2, <2>1 DEF Discipline, StoreOK, Quiet, EnqQuiet, RunQuiet
<1>4. ASSUME NEW t \in Tasks, t = rtid[r] PROVE StoreOK(t)'
    <2>1. store'[t] = rcur[r]
        BY <1>4 DEF Save, Typed, StoreTyped
    <2>2. t <= created /\ ~Queued(t) /\ \A e \in Enqueuers : Calling(e) => etid[e] # t
        BY <1>4 DEF Places, DeliveredOnce
    <2>3. \A q \in Runners : Busy(q)' => rtid'[q] # t
        BY <1>1, <1>4 DEF Places, DeliveredOnce, Quiet, RunQuiet
    <2>4. created' = created /\ created \in Nat /\ t \in Nat
        BY DEF Quiet, Typed, StoreTyped
    <2>5. QED
        BY <1>2, <1>4, <2>1, <2>2, <2>3, <2>4 DEF Discipline, StoreOK, Quiet, EnqQuiet
<1>5. \A e \in Enqueuers : EnqOK(e)'
    BY DEF Discipline, EnqOK, Quiet, EnqQuiet
<1>6. QED
    BY <1>1, <1>3, <1>4, <1>5, OthersOK, CopyKept DEF Discipline

LEMMA DisciplineInit == Init => Discipline
BY DEF Init, Discipline, RunOK, StoreOK, EnqOK, CopyOK, Calling, Busy, Queued, Absent,
   BeforeStart, Finished

LEMMA DisciplineNext == Core /\ Discipline /\ [Next]_vars => Discipline'
<1> SUFFICES ASSUME Core, Discipline, [Next]_vars PROVE Discipline'
    OBVIOUS
<1> Typed /\ Places /\ Typed' /\ Places'
    BY CoreNext DEF Core
<1> USE RecordFacts
<1>1. ASSUME NEW e \in Enqueuers, NEW k \in Keys, EnqCheck(e, k) PROVE Discipline'
    <2>1. /\ created' = created + 1 /\ created \in Nat /\ created + 1 \in Tasks
          /\ etid' = [etid EXCEPT ![e] = created + 1]
          /\ epc' = [epc EXCEPT ![e] = "claim"]
          /\ UNCHANGED <<queue, run, runs, store, can, mark>>
        BY <1>1 DEF EnqCheck, EnqSet, Typed, StoreTyped
    <2>2. \A r \in Runners : RunOK(r)'
        BY <2>1 DEF Discipline, RunOK, run
    <2>3. \A t : Queued(t)' <=> Queued(t)
        BY <2>1 DEF Queued
    <2>4. \A f \in Enqueuers : Calling(f)' => (f = e /\ etid'[f] = created + 1)
                                              \/ (f # e /\ Calling(f) /\ etid'[f] = etid[f])
        BY <2>1 DEF Calling, Typed, EnqTyped
    <2>5. ASSUME NEW t \in Tasks PROVE StoreOK(t)'
        <3>1. StoreOK(t)
            BY DEF Discipline
        <3>2. t > created' \/ Queued(t)' => runs'[t] = 0
            BY <2>1, <2>3, <3>1 DEF StoreOK
        <3>3. store[t].status \in Finished => t # created + 1
            BY <2>1, <3>1 DEF StoreOK
        <3>4. ASSUME store[t].status \in Finished, NEW f \in Enqueuers, Calling(f)'
              PROVE  etid'[f] # t
            BY <2>4, <3>1, <3>3, <3>4 DEF StoreOK
        <3>5. ASSUME store[t].status \in Finished PROVE t <= created' /\ ~Queued(t)'
            BY <2>1, <2>3, <3>1, <3>5 DEF StoreOK
        <3>6. \A r \in Runners : Busy(r)' <=> Busy(r)
            BY <2>1 DEF Busy, run
        <3>7. QED
            BY <2>1, <3>1, <3>2, <3>4, <3>5, <3>6 DEF StoreOK, run
    <2>6. runs[created + 1] = 0
        BY <2>1 DEF Discipline, StoreOK
    <2>7. \A f \in Enqueuers : EnqOK(f)'
        BY <2>1, <2>4, <2>6 DEF Discipline, EnqOK
    <2>8. QED
        BY <2>1, <2>2, <2>5, <2>7, CopyKept DEF Discipline
<1>2. ASSUME NEW e \in Enqueuers, EnqClaim(e) \/ EnqRecheck(e) \/ EnqOverwrite(e) \/ EnqSave(e)
      PROVE  Discipline'
    <2>1. UNCHANGED <<run, runs, can, mark>>
        BY <1>2 DEF EnqClaim, EnqRecheck, EnqOverwrite, EnqSave, bounds
    <2>2. Quiet
        BY <1>2, HelpersQuiet DEF EnqClaim, EnqRecheck, EnqOverwrite, EnqSave, EnqPC, Quiet,
           Calling, stores, bounds, Typed
    <2>3. \A t \in Tasks : store'[t].status \in Finished => store[t].status = store'[t].status
        <3>1. CASE EnqSave(e)
            BY <3>1 DEF EnqSave, Save, Pending, Finished, Typed, StoreTyped
        <3>2. CASE ~EnqSave(e)
            BY <1>2, <3>2 DEF EnqClaim, EnqRecheck, EnqOverwrite, stores
        <3>3. QED
            BY <3>1, <3>2
    <2>4. \A r \in Runners : RunOK(r)'
        BY <2>1 DEF Discipline, RunOK, run
    <2>5. QED
        BY <2>1, <2>2, <2>3, <2>4, StoreKept, CopyKept DEF Discipline
<1>3. ASSUME NEW e \in Enqueuers, EnqDispatch(e) PROVE Discipline'
    <2>1. UNCHANGED <<run, runs, can, mark, store, created>>
        BY <1>3 DEF EnqDispatch, bounds
    <2>2. Calling(e) /\ etid[e] \in Tasks /\ ~Queued(etid[e]) /\ runs[etid[e]] = 0
          /\ store[etid[e]].status \notin Finished
        BY <1>3 DEF EnqDispatch, Calling, Places, Typed, EnqTyped, Discipline, EnqOK, StoreOK
    <2>3. \A t : Queued(t)' => Queued(t) \/ t = etid[e]
        BY <1>3, <2>2, DispatchMoves DEF Places, DeliveredOnce, QueueUnique
    <2>4. EnqQuiet
        BY <1>3, HelpersQuiet DEF EnqDispatch, Typed
    <2>5. \A r \in Runners : RunOK(r)'
        BY <2>1 DEF Discipline, RunOK, run
    <2>6. \A t \in Tasks : StoreOK(t)'
        BY <2>1, <2>2, <2>3, <2>4 DEF Discipline, StoreOK, EnqQuiet, run, Busy
    <2>7. \A f \in Enqueuers : EnqOK(f)'
        BY <2>1, <2>4 DEF Discipline, EnqOK, EnqQuiet
    <2>8. QED
        BY <2>1, <2>5, <2>6, <2>7, CopyKept DEF Discipline
<1>4. ASSUME NEW r \in Runners, RunTake(r) PROVE Discipline'
    <2>1. PICK x : x = rtid'[r]
        OBVIOUS
    <2>2. Queued(x) /\ x \in Tasks /\ \A t : Queued(t)' => Queued(t) /\ t # x
        BY <1>4, <2>1, TakeMoves DEF Places, DeliveredOnce, QueueUnique
    <2>3. UNCHANGED <<runs, store, created, enq, can, mark>> /\ OnlyRunner(r)
          /\ rpc'[r] \in {"lookup", "exec"}
        BY <1>4 DEF RunTake, bounds, OnlyRunner, Typed, RunTyped
    <2>4. store[x].status \notin Finished /\ runs[x] = 0
        BY <2>2 DEF Discipline, StoreOK
    <2>5. RunOK(r)'
        BY <2>1, <2>3, <2>4 DEF RunOK, BeforeStart
    <2>6. ASSUME NEW t \in Tasks PROVE StoreOK(t)'
        <3>1. StoreOK(t)
            BY DEF Discipline
        <3>2. \A q \in Runners : Busy(q)' => rtid'[q] = x \/ (Busy(q) /\ rtid'[q] = rtid[q])
            BY <2>1, <2>3 DEF OnlyRunner, Busy
        <3>3. Queued(t)' => Queued(t)
            BY <2>2
        <3>4. QED
            BY <2>3, <2>4, <3>1, <3>2, <3>3 DEF StoreOK, Calling, enq
    <2>7. \A f \in Enqueuers : EnqOK(f)'
        BY <2>3 DEF Discipline, EnqOK, enq, Calling
    <2>8. QED
        BY <2>3, <2>5, <2>6, <2>7, OthersOK, CopyKept DEF Discipline
<1>5. ASSUME NEW r \in Runners, RunLookup(r) \/ RunUnregLoad(r) PROVE Discipline'
    <2>1. UNCHANGED <<runs, store, enq, can, mark, queue, created, taskKey>> /\ Busy(r)
        BY <1>5 DEF RunLookup, RunUnregLoad, bounds, stores, Busy
    <2>2. OnlyRunner(r) /\ RunQuiet /\ EnqQuiet
        BY <1>5, <2>1, HelpersQuiet DEF RunLookup, RunUnregLoad, RunDone, RunGoto, Carry,
           OnlyRunner, RunQuiet, Busy, Typed, RunTyped
    <2>3. RunOK(r)'
        <3>1. CASE RunLookup(r)
            BY <3>1, <2>1 DEF RunLookup, RunDone, RunGoto, RunOK, Discipline, BeforeStart,
               Typed, RunTyped
        <3>2. CASE RunUnregLoad(r)
            <4>1. store[rtid[r]] \in Record
                BY <2>1 DEF Typed, StoreTyped, RunTyped, Busy
            <4>2. With(store[rtid[r]], "failed").status = "failed"
                BY <4>1, RecordFacts DEF Status, Terminal
            <4>3. CASE store[rtid[r]].status = "absent"
                BY <3>2, <2>1, <4>3 DEF RunUnregLoad, RunDone, RunOK, Discipline, BeforeStart,
                   Typed, RunTyped
            <4>4. CASE store[rtid[r]].status # "absent"
                <5>1. rpc'[r] = "unregsave" /\ rcur'[r].status = "failed" /\ rtid' = rtid
                    BY <3>2, <4>2, <4>4 DEF RunUnregLoad, Carry, Typed, RunTyped
                <5>2. QED
                    BY <3>2, <2>1, <5>1 DEF RunUnregLoad, RunOK, Discipline, BeforeStart
            <4>5. QED
                BY <4>3, <4>4
        <3>3. QED
            BY <1>5, <3>1, <3>2
    <2>4. QED
        BY <2>1, <2>2, <2>3, RunnerKeeps DEF Quiet
<1>6. ASSUME NEW r \in Runners, RunUnregSave(r) \/ RunFinal(r) PROVE Discipline'
    <2>1. /\ UNCHANGED <<runs, enq, can, mark, queue, created, taskKey>>
          /\ Busy(r) /\ RunDone(r) /\ Save(rtid[r], rcur[r])
        BY <1>6 DEF RunUnregSave, RunFinal, bounds, Busy
    <2>2. rcur[r].status = "completed" => runs[rtid[r]] > 0
        BY <1>6 DEF RunUnregSave, RunFinal, Discipline, RunOK
    <2>3. Quiet
        BY <2>1, HelpersQuiet DEF Quiet, Typed
    <2>4. QED
        BY <2>1, <2>2, <2>3, RunnerEnds
<1>7. ASSUME NEW r \in Runners, RunExec(r) \/ RunLaneAcquire(r) PROVE Discipline'
    <2>1. UNCHANGED <<runs, store, enq, can, mark, queue, created, taskKey>> /\ Busy(r)
        BY <1>7 DEF RunExec, RunLaneAcquire, bounds, Busy
    <2>2. OnlyRunner(r) /\ RunQuiet /\ EnqQuiet
        BY <1>7, <2>1, HelpersQuiet DEF RunExec, RunLaneAcquire, RunDone, RunGoto, Carry,
           OnlyRunner, RunQuiet, Busy, Typed, RunTyped
    <2>3. store[rtid[r]].status \notin Finished
        BY <2>1, HeldUnfinished
    <2>4. RunOK(r)'
        BY <1>7, <2>1, <2>3 DEF RunExec, RunLaneAcquire, RunDone, RunGoto, Carry, RunOK,
           Discipline, BeforeStart, Typed, RunTyped
    <2>5. QED
        BY <2>1, <2>2, <2>4, RunnerKeeps DEF Quiet
<1>8. ASSUME NEW r \in Runners, RunLaneSave(r) \/ RunSaveRunning(r) PROVE Discipline'
    <2>1. /\ UNCHANGED <<runs, enq, can, mark, queue, created, taskKey>> /\ Busy(r)
          /\ Save(rtid[r], rcur[r]) /\ rcur[r].status \notin Finished
        BY <1>8 DEF RunLaneSave, RunSaveRunning, bounds, Busy, Discipline, RunOK, Finished
    <2>2. OnlyRunner(r) /\ RunQuiet /\ EnqQuiet
        BY <1>8, <2>1, HelpersQuiet DEF RunLaneSave, RunSaveRunning, RunGoto,
           OnlyRunner, RunQuiet, Busy, Typed, RunTyped
    <2>3. RunOK(r)'
        BY <1>8, <2>1 DEF RunLaneSave, RunSaveRunning, RunGoto, RunOK, Discipline,
           BeforeStart, Typed, RunTyped
    <2>4. \A t \in Tasks : store'[t].status \in Finished => store[t].status = store'[t].status
        BY <2>1 DEF Save, Typed, StoreTyped
    <2>5. QED
        BY <2>1, <2>2, <2>3, <2>4, RunnerKeeps DEF Quiet
<1>9. ASSUME NEW r \in Runners, RunStart(r) PROVE Discipline'
    <2>1. UNCHANGED <<runs, store, enq, can, mark, queue, created, taskKey>>
          /\ rpc[r] = "start" /\ Busy(r) /\ runs[rtid[r]] = 0 /\ rtid[r] \in Tasks
          /\ store[rtid[r]] \in Record
        BY <1>9 DEF RunStart, bounds, Busy, Discipline, RunOK, BeforeStart, Typed, RunTyped,
           StoreTyped
    <2>2. OnlyRunner(r) /\ RunQuiet /\ EnqQuiet
        BY <1>9, <2>1, HelpersQuiet DEF RunStart, RunDone, Carry,
           OnlyRunner, RunQuiet, Busy, Typed, RunTyped
    <2>3. /\ With(store[rtid[r]], "running").status = "running"
          /\ With(store[rtid[r]], "running").retry = store[rtid[r]].retry
          /\ store[rtid[r]].retry \in Nat
        BY <2>1 DEF Status, Active
    <2>4. RunOK(r)'
        <3>1. \/ rpc'[r] = "idle"
              \/ rpc'[r] = "final" /\ rcur'[r].status = "cancelled"
              \/ /\ rpc'[r] = "saverunning" /\ rtid'[r] = rtid[r]
                 /\ rcur'[r] = With(store[rtid[r]], "running")
            BY <1>9, <2>1 DEF RunStart, RunDone, Carry, Typed, RunTyped
        <3>2. QED
            BY <2>1, <2>3, <3>1 DEF RunOK, BeforeStart
    <2>5. QED
        BY <2>1, <2>2, <2>4, RunnerKeeps DEF Quiet
<1>10. ASSUME NEW r \in Runners, RunBeat(r) PROVE Discipline'
    <2>1. /\ UNCHANGED <<enq, can, mark, queue, created, taskKey>>
          /\ rpc[r] = "beat" /\ Busy(r) /\ rtid[r] \in Tasks
          /\ Save(rtid[r], rcur[r]) /\ RunGoto(r, "func")
          /\ runs' = [runs EXCEPT ![rtid[r]] = runs[rtid[r]] + 1]
          /\ rcur[r].status = "running" /\ runs[rtid[r]] <= rcur[r].retry
          /\ runs[rtid[r]] \in Nat /\ rcur[r].retry \in 0..MaxRetries
        BY <1>10 DEF RunBeat, Busy, Discipline, RunOK, Typed, RunTyped, StoreTyped
    <2>2. OnlyRunner(r) /\ RunQuiet /\ EnqQuiet
        BY <2>1, HelpersQuiet DEF RunGoto, OnlyRunner, RunQuiet, Busy, Typed, RunTyped
    <2>3. \A t \in Tasks : t # rtid[r] => runs'[t] = runs[t] /\ store'[t] = store[t]
        BY <2>1 DEF Save, Typed, StoreTyped
    <2>4. runs'[rtid[r]] = runs[rtid[r]] + 1 /\ store'[rtid[r]] = rcur[r]
        BY <2>1 DEF Save, Typed, StoreTyped
    <2>5. RunOK(r)'
        BY <2>1, <2>4 DEF RunGoto, RunOK, BeforeStart, Typed, RunTyped
    <2>6. ASSUME NEW q \in Runners, q # r PROVE RunOK(q)'
        <3>1. Busy(q) => rtid[q] \in Tasks /\ rtid[q] # rtid[r]
            BY <2>1, <2>6 DEF Places, DeliveredOnce, Typed, RunTyped, Busy
        <3>2. Busy(q) => runs'[rtid[q]] = runs[rtid[q]]
            BY <3>1, <2>3
        <3>3. QED
            BY <2>2, <2>6, <3>2 DEF OnlyRunner, Discipline, RunOK, Busy, BeforeStart
    <2>7. \A t : Queued(t)' <=> Queued(t)
        BY <2>1 DEF Queued
    <2>8. ASSUME NEW t \in Tasks PROVE StoreOK(t)'
        <3>1. CASE t # rtid[r]
            <4>1. runs'[t] = runs[t] /\ store'[t] = store[t] /\ created' = created /\ StoreOK(t)
                BY <3>1, <2>1, <2>3 DEF Discipline
            <4>2. QED
                BY <4>1, <2>2, <2>7 DEF StoreOK, EnqQuiet, RunQuiet
        <3>2. CASE t = rtid[r]
            <4>1. t <= created /\ ~Queued(t)
                BY <3>2, <2>1 DEF Places, DeliveredOnce
            <4>2. created \in Nat
                BY DEF Typed, StoreTyped
            <4>3. QED
                BY <3>2, <4>1, <4>2, <2>1, <2>4, <2>7 DEF StoreOK, Finished
        <3>3. QED
            BY <3>1, <3>2
    <2>9. ASSUME NEW e \in Enqueuers PROVE EnqOK(e)'
        <3>1. Calling(e) => etid[e] \in Tasks /\ etid[e] # rtid[r] /\ runs[etid[e]] = 0
            BY <2>1 DEF Places, Typed, EnqTyped, Calling, Discipline, EnqOK
        <3>2. QED
            BY <3>1, <2>2, <2>3 DEF EnqOK, EnqQuiet
    <2>10. QED
        BY <2>1, <2>5, <2>6, <2>8, <2>9, CopyKept DEF Discipline
<1>11. ASSUME NEW r \in Runners, RunEventLoad(r) PROVE Discipline'
    <2>1. UNCHANGED <<runs, store, enq, can, mark, queue, created, taskKey, rtid, rcur>>
          /\ Busy(r) /\ rpc[r] = "func" /\ rpc'[r] = "event" /\ rev'[r] = store[rtid[r]]
        BY <1>11 DEF RunEventLoad, bounds, stores, Busy, Typed, RunTyped
    <2>2. OnlyRunner(r) /\ RunQuiet /\ EnqQuiet
        BY <1>11, <2>1, HelpersQuiet DEF RunEventLoad, OnlyRunner, RunQuiet, Busy, Typed, RunTyped
    <2>3. store[rtid[r]].status \notin Finished
        BY <2>1, HeldUnfinished
    <2>4. RunOK(r)'
        BY <2>1, <2>3 DEF RunOK, Discipline, BeforeStart
    <2>5. QED
        BY <2>1, <2>2, <2>4, RunnerKeeps DEF Quiet
<1>12. ASSUME NEW r \in Runners, RunEventSave(r) PROVE Discipline'
    <2>1. UNCHANGED <<runs, enq, can, mark, queue, created, taskKey, rtid, rcur>>
          /\ Busy(r) /\ rpc[r] = "event" /\ rpc'[r] = "func"
          /\ Save(rtid[r], rev[r]) /\ rev[r].status \notin Finished
        BY <1>12 DEF RunEventSave, bounds, Busy, Typed, RunTyped, Discipline, RunOK
    <2>2. OnlyRunner(r) /\ RunQuiet /\ EnqQuiet
        BY <1>12, <2>1, HelpersQuiet DEF RunEventSave, OnlyRunner, RunQuiet, Busy, Typed, RunTyped
    <2>3. \A t \in Tasks : store'[t].status \in Finished => store[t].status = store'[t].status
        BY <2>1 DEF Save, Typed, StoreTyped
    <2>4. RunOK(r)'
        BY <2>1 DEF RunOK, Discipline, BeforeStart
    <2>5. QED
        BY <2>1, <2>2, <2>3, <2>4, RunnerKeeps DEF Quiet
<1>13. ASSUME NEW r \in Runners, RunReturn(r) \/ RunRaise(r) PROVE Discipline'
    <2>1. UNCHANGED <<runs, store, enq, can, mark, queue, created, taskKey>>
          /\ Busy(r) /\ rpc[r] \in {"beat", "func"} /\ rcur[r] \in Record
          /\ runs[rtid[r]] <= rcur[r].retry + 1 /\ (rpc[r] = "func" => runs[rtid[r]] > 0)
        BY <1>13 DEF RunReturn, RunRaise, bounds, stores, Busy, Discipline, RunOK, Typed,
           RunTyped, StoreTyped
    <2>2. OnlyRunner(r) /\ RunQuiet /\ EnqQuiet
        BY <1>13, <2>1, HelpersQuiet DEF RunReturn, RunRaise, Carry, OnlyRunner, RunQuiet,
           Busy, Typed, RunTyped
    <2>3. With(rcur[r], "failed").status = "failed"
          /\ With(rcur[r], "completed").status = "completed"
        BY <2>1 DEF Status, Terminal
    <2>4. CASE RunReturn(r)
        <3>1. /\ rpc'[r] = "final" /\ rtid' = rtid /\ rpc[r] = "func"
              /\ rcur'[r].status \in {"cancelled", "completed"}
            BY <2>3, <2>4 DEF RunReturn, Carry, Typed, RunTyped
        <3>2. RunOK(r)'
            BY <2>1, <3>1 DEF RunOK, BeforeStart
        <3>3. QED
            BY <2>1, <2>2, <3>2, RunnerKeeps DEF Quiet
    <2>5. CASE RunRaise(r)
        <3>1. rtid' = rtid
            BY <2>5 DEF RunRaise, Carry
        <3>2. \/ rpc'[r] = "final" /\ rcur'[r].status \in {"cancelled", "failed"}
              \/ /\ rpc'[r] = "saveretry" /\ rcur'[r].status = "retrying"
                 /\ rcur'[r].retry = rcur[r].retry + 1
            BY <2>3, <2>5 DEF RunRaise, Carry, Typed, RunTyped
        <3>3. RunOK(r)'
            BY <2>1, <3>1, <3>2 DEF RunOK, BeforeStart
        <3>4. QED
            BY <2>1, <2>2, <3>3, RunnerKeeps DEF Quiet
    <2>6. QED
        BY <1>13, <2>4, <2>5
<1>14. ASSUME NEW r \in Runners, RunSaveRetry(r) PROVE Discipline'
    <2>1. UNCHANGED <<runs, enq, can, mark, queue, created, taskKey>>
          /\ Busy(r) /\ Save(rtid[r], rcur[r]) /\ rcur[r] \in Record
          /\ rcur[r].status = "retrying" /\ runs[rtid[r]] <= rcur[r].retry
          /\ Carry(r, "saverunning", With(rcur[r], "running"))
        BY <1>14 DEF RunSaveRetry, bounds, Busy, Typed, RunTyped, Discipline, RunOK
    <2>2. OnlyRunner(r) /\ RunQuiet /\ EnqQuiet
        BY <2>1, HelpersQuiet DEF Carry, OnlyRunner, RunQuiet, Busy, Typed, RunTyped
    <2>3. \A t \in Tasks : store'[t].status \in Finished => store[t].status = store'[t].status
        BY <2>1 DEF Save, Typed, StoreTyped, Finished
    <2>4. With(rcur[r], "running").status = "running"
          /\ With(rcur[r], "running").retry = rcur[r].retry
        BY <2>1 DEF Status, Active
    <2>5. RunOK(r)'
        BY <2>1, <2>4 DEF Carry, RunOK, BeforeStart, Typed, RunTyped
    <2>6. QED
        BY <2>1, <2>2, <2>3, <2>5, RunnerKeeps DEF Quiet
<1>15. ASSUME CanNext \/ MarkNext \/ \E t \in Tasks : Expire(t) PROVE Discipline'
    <2>1. UNCHANGED <<runs, enq, run, queue, created, taskKey>>
        BY <1>15 DEF CanNext, CanStep, CanCheck, CanLoad, CanSave, MarkNext, MarkLoad,
           MarkSave, Expire, stores, bounds
    <2>2. \A t \in Tasks : store'[t].status \in Finished => store[t].status = store'[t].status
        <3>1. CASE CanNext
            BY <3>1 DEF CanNext, CanStep, CanCheck, CanLoad, CanSave, stores, Save, Discipline,
               CopyOK, Finished, Typed, StoreTyped
        <3>2. CASE MarkNext
            BY <3>2 DEF MarkNext, MarkLoad, MarkSave, stores, Save, Discipline,
               CopyOK, Finished, Typed, StoreTyped
        <3>3. CASE \E t \in Tasks : Expire(t)
            BY <3>3 DEF Expire, Save, Absent, Finished, Typed, StoreTyped
        <3>4. QED
            BY <1>15, <3>1, <3>2, <3>3
    <2>3. CopyOK'
        <3>1. \A c \in Cancellers, t \in Tasks : CanCheck(c, t) => CopyOK'
            BY DEF CanCheck, CanSet, Discipline, CopyOK, mark, Typed, CanTyped
        <3>2. ASSUME NEW c \in Cancellers, CanLoad(c) PROVE CopyOK'
            <4>1. With(store[ctid[c]], "cancelled").status = "cancelled"
                BY <3>2 DEF CanLoad, Typed, CanTyped, StoreTyped, Status, Terminal
            <4>2. QED
                BY <3>2, <4>1 DEF CanLoad, CanSet, Discipline, CopyOK, mark, Typed, CanTyped
        <3>3. \A c \in Cancellers : CanSave(c) => CopyOK'
            BY DEF CanSave, CanSet, Discipline, CopyOK, mark, Typed, CanTyped
        <3>4. ASSUME NEW x \in Markers, NEW t \in Tasks, MarkLoad(x, t) PROVE CopyOK'
            <4>1. With(store[t], "stale").status = "stale"
                BY DEF Typed, StoreTyped, Status, Terminal
            <4>2. QED
                BY <3>4, <4>1 DEF MarkLoad, MarkSet, Discipline, CopyOK, can, Typed, MarkTyped
        <3>5. \A x \in Markers : MarkSave(x) => CopyOK'
            BY DEF MarkSave, MarkSet, Discipline, CopyOK, can, Typed, MarkTyped
        <3>6. \A t \in Tasks : Expire(t) => CopyOK'
            BY CopyKept DEF Expire, Discipline
        <3>7. QED
            BY <1>15, <3>1, <3>2, <3>3, <3>4, <3>5, <3>6 DEF CanNext, CanStep, MarkNext
    <2>4. \A r \in Runners : RunOK(r)'
        BY <2>1 DEF Discipline, RunOK, run
    <2>5. Quiet
        BY <2>1, HelpersQuiet DEF Quiet
    <2>6. QED
        BY <2>1, <2>2, <2>3, <2>4, <2>5, StoreKept DEF Discipline
<1>16. ASSUME NEW p \in Procs, Crash(p) PROVE Discipline'
    <2>1. \A t : Queued(t)' => Queued(t)
        BY <1>16, CrashMoves DEF Places, DeliveredOnce, QueueUnique
    <2>2. UNCHANGED <<runs, store, created, can, mark>> /\ EnqQuiet /\ RunQuiet
        BY <1>16 DEF Crash, EnqQuiet, RunQuiet, Calling, Busy
    <2>3. \A r \in Runners : RunOK(r)'
        BY <1>16, <2>2 DEF Crash, Discipline, RunOK, BeforeStart, Absent
    <2>4. \A t \in Tasks : StoreOK(t)'
        BY <2>1, <2>2 DEF Discipline, StoreOK, EnqQuiet, RunQuiet
    <2>5. \A e \in Enqueuers : EnqOK(e)'
        BY <2>2 DEF Discipline, EnqOK, EnqQuiet
    <2>6. QED
        BY <2>2, <2>3, <2>4, <2>5, CopyKept DEF Discipline
<1>17. CASE UNCHANGED vars
    <2>1. UNCHANGED <<runs, enq, run, can, mark, queue, created, taskKey, store>>
        BY <1>17 DEF vars, stores, bounds
    <2>2. \A r \in Runners : RunOK(r)'
        BY <2>1 DEF Discipline, RunOK, run
    <2>3. Quiet
        BY <2>1, HelpersQuiet DEF Quiet
    <2>4. QED
        BY <2>1, <2>2, <2>3, StoreKept, CopyKept DEF Discipline
<1>18. QED
    BY <1>1, <1>2, <1>3, <1>4, <1>5, <1>6, <1>7, <1>8, <1>9, <1>10, <1>11, <1>12, <1>13,
       <1>14, <1>15, <1>16, <1>17
    DEF Next, EnqStep, RunStep

-----------------------------------------------------------------------------
(* The theorems about attempts and final statuses *)

Disciplined == Core /\ Discipline

LEMMA DisciplinedAlways == Spec => []Disciplined
<1>1. Init => Disciplined
    BY CoreInit, DisciplineInit DEF Disciplined
<1>2. Disciplined /\ [Next]_vars => Disciplined'
    BY CoreNext, DisciplineNext DEF Disciplined
<1>3. QED
    BY <1>1, <1>2, PTL DEF Spec

\* A handler is entered at most 1 + MaxRetries times per task, whatever stale
\* copies of the record other actors write back.
THEOREM AttemptsAreBounded == Spec => []AttemptsBounded
<1>1. Disciplined => AttemptsBounded
    BY DEF Disciplined, Discipline, StoreOK, AttemptsBounded
<1>2. QED
    BY <1>1, DisciplinedAlways, PTL

\* Nothing but a handler that was entered and returned makes a record say
\* completed.
THEOREM CompletedHasRun == Spec => []CompletedRan
<1>1. Disciplined => CompletedRan
    BY DEF Disciplined, Discipline, StoreOK, CompletedRan
<1>2. QED
    BY <1>1, DisciplinedAlways, PTL

\* Whoever saves an active status holds the task, and nobody holds a finished one.
LEMMA FinishedStep ==
    ASSUME Disciplined, [Next]_vars, NEW t \in Tasks, store[t].status \in Finished
    PROVE  store'[t].status \in Terminal
<1> Typed /\ Places /\ Discipline
    BY DEF Disciplined, Core
<1>1. /\ \A e \in Enqueuers : Calling(e) => etid[e] # t
      /\ \A r \in Runners : Busy(r) => rtid[r] # t
    BY DEF Discipline, StoreOK
<1>2. CASE UNCHANGED store
    BY <1>2 DEF Finished, Terminal
<1>3. ASSUME NEW e \in Enqueuers, EnqStep(e) \/ \E k \in Keys : EnqCheck(e, k)
      PROVE  UNCHANGED store \/ store'[t] = store[t]
    BY <1>1, <1>3 DEF EnqStep, EnqCheck, EnqClaim, EnqRecheck, EnqOverwrite, EnqSave,
       EnqDispatch, Save, stores, Calling, Typed, StoreTyped
<1>4. ASSUME NEW r \in Runners, RunStep(r)
      PROVE  UNCHANGED store \/ store'[t] = store[t]
    <2>1. UNCHANGED store \/ (Busy(r) /\ \E rec : Save(rtid[r], rec))
        BY <1>4 DEF RunStep, RunTake, RunLookup, RunUnregLoad, RunUnregSave, RunExec,
           RunLaneSave, RunLaneAcquire, RunStart, RunSaveRunning, RunBeat, RunEventLoad,
           RunEventSave, RunReturn, RunRaise, RunSaveRetry, RunFinal, stores, Busy
    <2>2. QED
        BY <2>1, <1>1 DEF Save, Typed, StoreTyped
<1>5. ASSUME CanNext PROVE UNCHANGED store \/ store'[t] = store[t] \/ store'[t].status = "cancelled"
    BY <1>5 DEF CanNext, CanStep, CanCheck, CanLoad, CanSave, stores, Save, Discipline,
       CopyOK, Typed, StoreTyped
<1>6. ASSUME MarkNext PROVE UNCHANGED store \/ store'[t] = store[t] \/ store'[t].status = "stale"
    BY <1>6 DEF MarkNext, MarkLoad, MarkSave, stores, Save, Discipline, CopyOK, Typed, StoreTyped
<1>7. ASSUME NEW p \in Procs, Crash(p) PROVE UNCHANGED store
    BY <1>7 DEF Crash
<1>8. ASSUME NEW u \in Tasks, Expire(u) PROVE store'[t] = store[t]
    BY <1>8 DEF Expire, Save, Finished, Typed, StoreTyped
<1>9. CASE UNCHANGED vars
    BY <1>9, <1>2 DEF vars, stores
<1>10. QED
    BY <1>2, <1>3, <1>4, <1>5, <1>6, <1>7, <1>8, <1>9 DEF Next, Finished, Terminal

\* A task that is completed or failed is never active again: the last save of a
\* runner is not undone by a retry, a late event or a copy in other hands.
THEOREM FinishedIsFinal == Spec => FinishedStaysFinished
<1>1. ASSUME Disciplined, [Next]_vars
      PROVE  [\A t \in Tasks : store[t].status \in {"completed", "failed"}
                               => store'[t].status \in Terminal]_vars
    BY <1>1, FinishedStep DEF Finished
<1>2. QED
    BY <1>1, DisciplinedAlways, PTL DEF Spec, FinishedStaysFinished

-----------------------------------------------------------------------------
(* The market lane: whoever is past the acquire with a market task holds it *)

LanePC == {"start", "saverunning", "beat", "func", "event", "saveretry", "final"}
InLane(r) == rpc[r] \in LanePC /\ Market(rtid[r])
LaneOK == \A r \in Runners : InLane(r) => lane[ProcOf[r]] = r

\* A step in which no runner enters the lane.
NobodyEnters == \A q \in Runners : InLane(q)' => InLane(q)

LEMMA LaneQuiet ==
    ASSUME LaneOK, NobodyEnters, UNCHANGED lane
    PROVE  LaneOK'
BY DEF LaneOK, NobodyEnters

LEMMA LaneReleased ==
    ASSUME Typed, LaneOK, NEW r \in Runners, Release(r), RunDone(r), UNCHANGED taskKey
    PROVE  LaneOK'
BY DEF LaneOK, InLane, LanePC, Release, RunDone, Market, Typed, StoreTyped, RunTyped

LEMMA LaneTaken ==
    ASSUME Typed, LaneOK, NEW r \in Runners, lane[ProcOf[r]] = NoRunner,
           lane' = [lane EXCEPT ![ProcOf[r]] = r], RunGoto(r, "start"), UNCHANGED taskKey
    PROVE  LaneOK'
BY DEF LaneOK, InLane, LanePC, RunGoto, Market, Typed, StoreTyped, RunTyped

LEMMA LaneInit == Init => LaneOK
BY DEF Init, LaneOK, InLane, LanePC

LEMMA LaneNext == Core /\ LaneOK /\ [Next]_vars => LaneOK'
<1> SUFFICES ASSUME Typed, Places, LaneOK, [Next]_vars PROVE LaneOK'
    BY DEF Core
<1> USE DEF NobodyEnters, InLane, LanePC, Market
<1>1. ASSUME NEW e \in Enqueuers, NEW k \in Keys, EnqCheck(e, k) PROVE LaneOK'
    <2>1. \A t \in Tasks : t <= created => taskKey'[t] = taskKey[t]
        BY <1>1 DEF EnqCheck, Typed, StoreTyped
    <2>2. \A r \in Runners : rpc[r] \in LanePC => rtid[r] \in Tasks /\ rtid[r] <= created
        BY DEF Places, Busy, Typed, RunTyped
    <2>3. QED
        BY <1>1, <2>1, <2>2 DEF EnqCheck, run, LaneOK
<1>2. ASSUME NEW e \in Enqueuers, EnqStep(e) PROVE LaneOK'
    BY <1>2, LaneQuiet DEF EnqStep, EnqClaim, EnqRecheck, EnqOverwrite, EnqSave, EnqDispatch,
       stores, run
<1>3. ASSUME NEW r \in Runners, RunTake(r) \/ RunLookup(r) \/ RunUnregLoad(r) \/ RunUnregSave(r)
      PROVE  LaneOK'
    BY <1>3, LaneQuiet DEF RunTake, RunLookup, RunUnregLoad, RunUnregSave, RunDone, RunGoto,
       Carry, stores, Typed, RunTyped
<1>4. ASSUME NEW r \in Runners, RunExec(r) PROVE LaneOK'
    <2>1. CASE RunGoto(r, "start") /\ ~Market(rtid[r]) /\ UNCHANGED lane
        BY <1>4, <2>1, LaneQuiet DEF RunExec, RunGoto, Typed, RunTyped
    <2>2. CASE RunDone(r) /\ UNCHANGED lane
        BY <1>4, <2>2, LaneQuiet DEF RunExec, RunDone, Typed, RunTyped
    <2>3. CASE UNCHANGED lane /\ \E rec : Carry(r, "lanesave", rec)
        BY <1>4, <2>3, LaneQuiet DEF RunExec, Carry, Typed, RunTyped
    <2>4. CASE RunGoto(r, "start") /\ lane[ProcOf[r]] = NoRunner
               /\ lane' = [lane EXCEPT ![ProcOf[r]] = r]
        BY <1>4, <2>4, LaneTaken DEF RunExec
    <2>5. QED
        BY <1>4, <2>1, <2>2, <2>3, <2>4 DEF RunExec
<1>5. ASSUME NEW r \in Runners, RunLaneAcquire(r) PROVE LaneOK'
    BY <1>5, LaneTaken DEF RunLaneAcquire
<1>6. ASSUME NEW r \in Runners, RunStart(r) PROVE LaneOK'
    <2>1. CASE RunDone(r) /\ Release(r)
        BY <1>6, <2>1, LaneReleased DEF RunStart
    <2>2. CASE UNCHANGED lane /\ \E pc, rec : Carry(r, pc, rec)
        BY <1>6, <2>2, LaneQuiet DEF RunStart, Carry, Typed, RunTyped
    <2>3. QED
        BY <1>6, <2>1, <2>2 DEF RunStart
<1>7. ASSUME NEW r \in Runners, RunFinal(r) PROVE LaneOK'
    BY <1>7, LaneReleased DEF RunFinal
<1>8. ASSUME NEW r \in Runners,
             RunLaneSave(r) \/ RunSaveRunning(r) \/ RunBeat(r) \/ RunEventLoad(r) \/ RunEventSave(r)
      PROVE  LaneOK'
    BY <1>8, LaneQuiet DEF RunLaneSave, RunSaveRunning, RunBeat, RunEventLoad, RunEventSave,
       RunGoto, stores, Typed, RunTyped
<1>9. ASSUME NEW r \in Runners, RunReturn(r) \/ RunRaise(r) \/ RunSaveRetry(r) PROVE LaneOK'
    BY <1>9, LaneQuiet DEF RunReturn, RunRaise, RunSaveRetry, Carry, stores, Typed, RunTyped
<1>10. ASSUME CanNext \/ MarkNext \/ \E t \in Tasks : Expire(t) PROVE LaneOK'
    BY <1>10, LaneQuiet DEF CanNext, CanStep, CanCheck, CanLoad, CanSave, MarkNext, MarkLoad,
       MarkSave, Expire, stores, run
<1>11. ASSUME NEW p \in Procs, Crash(p) PROVE LaneOK'
    BY <1>11 DEF Crash, LaneOK, Typed, StoreTyped
<1>12. CASE UNCHANGED vars
    BY <1>12, LaneQuiet DEF vars, stores, run
<1>13. QED
    BY <1>1, <1>2, <1>3, <1>4, <1>5, <1>6, <1>7, <1>8, <1>9, <1>10, <1>11, <1>12
    DEF Next, RunStep

\* Two threads of a process are never both inside handlers of market tasks, also
\* not after a cancel, a retry, a missing record or a crash of another process.
THEOREM LaneIsExclusive == Spec => []LaneExclusive
<1>1. Spec => [](Core /\ LaneOK)
    BY CoreInit, CoreNext, LaneInit, LaneNext, PTL DEF Spec
<1>2. LaneOK => LaneExclusive
    BY DEF LaneOK, LaneExclusive, InHandler, InLane, LanePC
<1>3. QED
    BY <1>1, <1>2, PTL
-----------------------------------------------------------------------------
(* A task that was cancelled in a queue.  Until its runner starts, no record  *)
(* or copy of a task says running, so no marker has it in hand; from the      *)
(* cancel on only cancels and the runner that finds it so write its record.   *)

Waits(t) ==
    \/ t > created \/ Queued(t)
    \/ \E e \in Enqueuers : Calling(e) /\ etid[e] = t
    \/ \E r \in Runners : rpc[r] \in BeforeStart /\ rtid[r] = t
Unmarked ==
    /\ \A t \in Tasks : Waits(t) => /\ store[t].status # "running"
                                    /\ \A m \in Markers : mpc[m] = "save" => mtid[m] # t
    /\ \A r \in Runners : rpc[r] = "lanesave" => rcur[r].status # "running"

CalledOff(t) ==
    /\ t <= created /\ runs[t] = 0
    /\ \A e \in Enqueuers : Calling(e) => etid[e] # t
    /\ \A m \in Markers : mpc[m] = "save" => mtid[m] # t
    /\ store[t].status \in {"cancelled", "failed"}
    /\ Queued(t) => store[t].status = "cancelled"
    /\ \A r \in Runners : Busy(r) /\ rtid[r] = t =>
          /\ store[t].status = "cancelled"
          /\ rpc[r] \in BeforeStart \cup {"final"}
          /\ rpc[r] \in {"lanesave", "final"} => rcur[r].status = "cancelled"

\* What a runner's own step does to others: nothing.
LEMMA RunOnly == ASSUME Typed, NEW r \in Runners, RunStep(r) PROVE OnlyRunner(r)
<1> USE DEF OnlyRunner, Typed, RunTyped, RunGoto, RunDone, Carry
<1>1. CASE RunTake(r) \/ RunLookup(r) \/ RunUnregLoad(r) \/ RunUnregSave(r)
    BY <1>1 DEF RunTake, RunLookup, RunUnregLoad, RunUnregSave
<1>2. CASE RunExec(r) \/ RunLaneSave(r) \/ RunLaneAcquire(r) \/ RunStart(r)
    BY <1>2 DEF RunExec, RunLaneSave, RunLaneAcquire, RunStart
<1>3. CASE RunSaveRunning(r) \/ RunBeat(r) \/ RunEventLoad(r) \/ RunEventSave(r)
    BY <1>3 DEF RunSaveRunning, RunBeat, RunEventLoad, RunEventSave
<1>4. CASE RunReturn(r) \/ RunRaise(r) \/ RunSaveRetry(r) \/ RunFinal(r)
    BY <1>4 DEF RunReturn, RunRaise, RunSaveRetry, RunFinal
<1>5. QED
    BY <1>1, <1>2, <1>3, <1>4 DEF RunStep

LEMMA Moves ==
    ASSUME Typed, [Next]_vars, NEW r \in Runners
    PROVE  \/ RunStep(r) /\ rpc[r] \in RunPC
           \/ rpc'[r] = rpc[r] /\ rtid'[r] = rtid[r] /\ rcur'[r] = rcur[r]
           \/ rpc'[r] = "idle"
<1>1. CASE UNCHANGED run
    BY <1>1 DEF run
<1>2. ASSUME NEW q \in Runners, RunStep(q)
      PROVE  q = r \/ (rpc'[r] = rpc[r] /\ rtid'[r] = rtid[r] /\ rcur'[r] = rcur[r])
    BY <1>2, RunOnly DEF OnlyRunner
<1>3. ASSUME NEW p \in Procs, Crash(p)
      PROVE  rpc'[r] = "idle" \/ (rpc'[r] = rpc[r] /\ rtid'[r] = rtid[r] /\ rcur'[r] = rcur[r])
    BY <1>3 DEF Crash
<1>4. ASSUME NEW e \in Enqueuers, EnqStep(e) \/ \E k \in Keys : EnqCheck(e, k) PROVE UNCHANGED run
    BY <1>4 DEF EnqStep, EnqCheck, EnqClaim, EnqRecheck, EnqOverwrite, EnqSave, EnqDispatch
<1>5. ASSUME CanNext \/ MarkNext \/ \E t \in Tasks : Expire(t) PROVE UNCHANGED run
    BY <1>5 DEF CanNext, CanStep, CanCheck, CanLoad, CanSave, MarkNext, MarkLoad, MarkSave, Expire
<1>6. rpc[r] \in RunPC
    BY DEF Typed, RunTyped
<1>7. QED
    BY <1>1, <1>2, <1>3, <1>4, <1>5, <1>6 DEF Next, vars

\* A step of a busy runner ends with its task or keeps it.
LEMMA StepKeeps ==
    ASSUME Typed, NEW r \in Runners, RunStep(r), ~RunTake(r), rpc'[r] # "idle"
    PROVE  rpc[r] # "idle" /\ rtid'[r] = rtid[r]
<1> USE DEF Typed, RunTyped, RunGoto, RunDone, Carry
<1>1. CASE RunLookup(r) \/ RunUnregLoad(r) \/ RunUnregSave(r)
    BY <1>1 DEF RunLookup, RunUnregLoad, RunUnregSave
<1>2. CASE RunExec(r) \/ RunLaneSave(r) \/ RunLaneAcquire(r)
    BY <1>2 DEF RunExec, RunLaneSave, RunLaneAcquire
<1>3. CASE RunStart(r) \/ RunSaveRunning(r) \/ RunBeat(r) \/ RunEventLoad(r) \/ RunEventSave(r)
    BY <1>3 DEF RunStart, RunSaveRunning, RunBeat, RunEventLoad, RunEventSave
<1>4. CASE RunReturn(r) \/ RunRaise(r) \/ RunSaveRetry(r) \/ RunFinal(r)
    BY <1>4 DEF RunReturn, RunRaise, RunSaveRetry, RunFinal
<1>5. QED
    BY <1>1, <1>2, <1>3, <1>4 DEF RunStep

\* A runner comes to a place before its start from such a place or from a queue,
\* and to the save of a waiting record with the record it read.
LEMMA BeforeMoves ==
    ASSUME Typed, [Next]_vars, NEW r \in Runners, rpc'[r] \in BeforeStart
    PROVE  \/ RunTake(r) /\ rpc'[r] # "lanesave"
           \/ /\ rpc[r] \in BeforeStart /\ rtid'[r] = rtid[r]
              /\ rpc'[r] = "lanesave" => rcur'[r] = store[rtid[r]] \/ (rpc[r] = "lanesave" /\ rcur'[r] = rcur[r])
<1> USE DEF BeforeStart, Typed, RunTyped, RunGoto, RunDone, Carry
<1>1. CASE ~RunStep(r)
    BY <1>1, Moves
<1>2. CASE RunTake(r) \/ RunLookup(r) \/ RunUnregLoad(r) \/ RunUnregSave(r)
    BY <1>2 DEF RunTake, RunLookup, RunUnregLoad, RunUnregSave
<1>3. CASE RunExec(r) \/ RunLaneSave(r) \/ RunLaneAcquire(r) \/ RunStart(r)
    <2>1. CASE RunExec(r)
        BY <2>1 DEF RunExec
    <2>2. CASE RunLaneSave(r) \/ RunLaneAcquire(r)
        BY <2>2 DEF RunLaneSave, RunLaneAcquire
    <2>3. CASE RunStart(r)
        BY <2>3 DEF RunStart
    <2>4. QED
        BY <1>3, <2>1, <2>2, <2>3
<1>4. CASE RunSaveRunning(r) \/ RunBeat(r) \/ RunEventLoad(r) \/ RunEventSave(r)
    BY <1>4 DEF RunSaveRunning, RunBeat, RunEventLoad, RunEventSave
<1>5. CASE RunReturn(r) \/ RunRaise(r) \/ RunSaveRetry(r) \/ RunFinal(r)
    BY <1>5 DEF RunReturn, RunRaise, RunSaveRetry, RunFinal
<1>6. QED
    BY <1>1, <1>2, <1>3, <1>4, <1>5 DEF RunStep

\* The queues, the callers and the counter of ids.
LEMMA QueueMoves ==
    ASSUME Core, [Next]_vars, NEW t \in Tasks
    PROVE  /\ created <= created'
           /\ Queued(t)' => Queued(t) \/ \E e \in Enqueuers : Calling(e) /\ etid[e] = t
           /\ \A e \in Enqueuers : Calling(e)' /\ etid'[e] = t =>
                 t > created \/ (Calling(e) /\ etid[e] = t)
           /\ \A r \in Runners : RunTake(r) /\ rtid'[r] = t => Queued(t)
<1> Typed /\ Places /\ created \in Nat
    BY DEF Core, Typed, StoreTyped
<1>0. ASSUME NEW r \in Runners, RunTake(r) PROVE Queued(rtid'[r]) /\ \A u : Queued(u)' => Queued(u)
    <2>1. PICK x : x = rtid'[r]
        OBVIOUS
    <2>2. QED
        BY <1>0, <2>1, TakeMoves DEF Places, DeliveredOnce, QueueUnique
<1>1. CASE Quiet
    BY <1>0, <1>1 DEF Quiet, EnqQuiet, Queued
<1>2. ASSUME NEW e \in Enqueuers, EnqDispatch(e)
      PROVE  /\ UNCHANGED created /\ EnqQuiet /\ Calling(e)
             /\ \A u : Queued(u)' => Queued(u) \/ u = etid[e]
    <2>1. Calling(e) /\ ~Queued(etid[e])
        BY <1>2 DEF EnqDispatch, Calling, Places
    <2>2. QED
        BY <1>2, <2>1, DispatchMoves, HelpersQuiet DEF EnqDispatch, bounds, Places, DeliveredOnce, QueueUnique, Typed
<1>3. ASSUME NEW e \in Enqueuers, NEW k \in Keys, EnqCheck(e, k)
      PROVE  /\ created' = created + 1 /\ UNCHANGED queue
             /\ \A f \in Enqueuers : Calling(f)' => etid'[f] = created + 1 \/ (Calling(f) /\ etid'[f] = etid[f])
    BY <1>3 DEF EnqCheck, EnqSet, Calling, Typed, EnqTyped
<1>4. ASSUME NEW p \in Procs, Crash(p) PROVE UNCHANGED created /\ EnqQuiet /\ \A u : Queued(u)' => Queued(u)
    BY <1>4, CrashMoves DEF Crash, EnqQuiet, Calling, Places, DeliveredOnce, QueueUnique
<1>5. CASE \E e \in Enqueuers : EnqDispatch(e)
    BY <1>0, <1>2, <1>5 DEF EnqQuiet
<1>6. CASE \E e \in Enqueuers : \E k \in Keys : EnqCheck(e, k)
    <2>1. Queued(t)' <=> Queued(t)
        BY <1>3, <1>6 DEF Queued
    <2>2. QED
        BY <1>0, <1>3, <1>6, <2>1
<1>7. CASE \E r \in Runners : RunTake(r)
    <2>1. UNCHANGED <<created, epc, etid>>
        BY <1>7 DEF RunTake, bounds, enq
    <2>2. QED
        BY <1>0, <1>7, <2>1 DEF Calling
<1>8. CASE \E p \in Procs : Crash(p)
    BY <1>0, <1>4, <1>8 DEF EnqQuiet
<1>9. QED
    BY QuietOrLoud, <1>1, <1>5, <1>6, <1>7, <1>8 DEF Loud

LEMMA WaitsOnce == ASSUME Core, [Next]_vars, NEW t \in Tasks, Waits(t)' PROVE Waits(t)
<1>0. Typed /\ Typed'
    BY TypedNext DEF Core
<1> created \in Nat /\ created' \in Nat
    BY <1>0 DEF Typed, StoreTyped
<1>1. CASE t > created'
    BY <1>1, QueueMoves DEF Waits
<1>2. CASE Queued(t)'
    BY <1>2, QueueMoves DEF Waits
<1>3. CASE \E e \in Enqueuers : Calling(e)' /\ etid'[e] = t
    BY <1>3, QueueMoves DEF Waits
<1>4. CASE \E r \in Runners : rpc'[r] \in BeforeStart /\ rtid'[r] = t
    BY <1>0, <1>4, BeforeMoves, QueueMoves DEF Waits
<1>5. QED
    BY <1>1, <1>2, <1>3, <1>4 DEF Waits

\* Who writes the record of a task, and what.
LEMMA Writes ==
    ASSUME Disciplined, [Next]_vars, NEW t \in Tasks
    PROVE  \/ store'[t] = store[t]
           \/ \E e \in Enqueuers : Calling(e) /\ etid[e] = t /\ store'[t] = Pending
           \/ \E r \in Runners : /\ Busy(r) /\ rtid[r] = t
                                 /\ \/ rpc[r] \in {"unregsave", "final"} /\ store'[t] = rcur[r] /\ rpc'[r] = "idle"
                                    \/ rpc[r] = "lanesave" /\ store'[t] = rcur[r]
                                    \/ rpc[r] \notin BeforeStart \cup {"final"}
           \/ store'[t].status = "cancelled"
           \/ store'[t].status = "stale" /\ \E m \in Markers : mpc[m] = "save" /\ mtid[m] = t
           \/ store'[t] = Absent /\ store[t].status = "pending"
<1> Typed /\ Discipline
    BY DEF Disciplined, Core
<1> USE DEF Typed, StoreTyped, Save
<1>1. CASE UNCHANGED store
    BY <1>1
<1>2. ASSUME NEW e \in Enqueuers, EnqStep(e) \/ \E k \in Keys : EnqCheck(e, k)
      PROVE  UNCHANGED store \/ store'[t] = store[t] \/ (Calling(e) /\ etid[e] = t /\ store'[t] = Pending)
    BY <1>2 DEF EnqStep, EnqCheck, EnqClaim, EnqRecheck, EnqOverwrite, EnqSave, EnqDispatch,
       stores, Calling, EnqTyped
<1>3. ASSUME NEW r \in Runners, RunStep(r)
      PROVE  \/ UNCHANGED store
             \/ store'[t] = store[t]
             \/ /\ Busy(r) /\ rtid[r] = t
                /\ \/ rpc[r] \in {"unregsave", "final"} /\ store'[t] = rcur[r] /\ rpc'[r] = "idle"
                   \/ rpc[r] = "lanesave" /\ store'[t] = rcur[r]
                   \/ rpc[r] \notin BeforeStart \cup {"final"}
    <2>1. CASE RunUnregSave(r) \/ RunFinal(r) \/ RunLaneSave(r)
        BY <2>1 DEF RunUnregSave, RunFinal, RunLaneSave, RunDone, Busy, RunTyped
    <2>2. CASE RunSaveRunning(r) \/ RunBeat(r) \/ RunEventSave(r) \/ RunSaveRetry(r)
        BY <2>2 DEF RunSaveRunning, RunBeat, RunEventSave, RunSaveRetry, Busy, BeforeStart, RunTyped
    <2>3. CASE UNCHANGED store
        BY <2>3
    <2>4. QED
        BY <1>3, <2>1, <2>2, <2>3 DEF RunStep, RunTake, RunLookup, RunUnregLoad, RunExec,
           RunLaneAcquire, RunStart, RunEventLoad, RunReturn, RunRaise, stores
<1>4. ASSUME CanNext PROVE UNCHANGED store \/ store'[t] = store[t] \/ store'[t].status = "cancelled"
    BY <1>4 DEF CanNext, CanStep, CanCheck, CanLoad, CanSave, stores, Discipline, CopyOK
<1>5. ASSUME MarkNext
      PROVE  \/ UNCHANGED store
             \/ store'[t] = store[t]
             \/ store'[t].status = "stale" /\ \E m \in Markers : mpc[m] = "save" /\ mtid[m] = t
    BY <1>5 DEF MarkNext, MarkLoad, MarkSave, stores, Discipline, CopyOK
<1>6. ASSUME NEW p \in Procs, Crash(p) PROVE UNCHANGED store
    BY <1>6 DEF Crash
<1>7. ASSUME NEW u \in Tasks, Expire(u)
      PROVE  store'[t] = store[t] \/ (store'[t] = Absent /\ store[t].status = "pending")
    BY <1>7 DEF Expire
<1>8. CASE UNCHANGED vars
    BY <1>8 DEF vars, stores
<1>9. QED
    BY <1>1, <1>2, <1>3, <1>4, <1>5, <1>6, <1>7, <1>8 DEF Next

\* A marker takes up running records only, and a handler is entered at the beat.
LEMMA MarkerMoves ==
    ASSUME Typed, [Next]_vars, NEW m \in Markers, mpc'[m] = "save"
    PROVE  (mpc[m] = "save" /\ mtid'[m] = mtid[m]) \/ store[mtid'[m]].status = "running"
<1>1. CASE UNCHANGED mark
    BY <1>1 DEF mark
<1>2. CASE MarkNext
    BY <1>2 DEF MarkNext, MarkLoad, MarkSave, MarkSet, Typed, MarkTyped
<1>3. QED
    BY <1>1, <1>2 DEF Next, vars, CanNext, CanStep, CanCheck, CanLoad, CanSave, Expire, Crash,
       EnqStep, EnqCheck, EnqClaim, EnqRecheck, EnqOverwrite, EnqSave, EnqDispatch,
       RunStep, RunTake, RunLookup, RunUnregLoad, RunUnregSave, RunExec, RunLaneSave,
       RunLaneAcquire, RunStart, RunSaveRunning, RunBeat, RunEventLoad, RunEventSave,
       RunReturn, RunRaise, RunSaveRetry, RunFinal

LEMMA EntryMoves ==
    ASSUME Typed, [Next]_vars, NEW t \in Tasks
    PROVE  runs'[t] = runs[t] \/ \E r \in Runners : rpc[r] = "beat" /\ rtid[r] = t
<1>1. CASE UNCHANGED runs
    BY <1>1
<1>2. CASE \E r \in Runners : RunBeat(r)
    BY <1>2 DEF RunBeat, Typed, StoreTyped
<1>3. QED
    BY <1>1, <1>2 DEF Next, vars, bounds, CanNext, CanStep, CanCheck, CanLoad, CanSave, Expire, Crash,
       MarkNext, MarkLoad, MarkSave,
       EnqStep, EnqCheck, EnqClaim, EnqRecheck, EnqOverwrite, EnqSave, EnqDispatch,
       RunStep, RunTake, RunLookup, RunUnregLoad, RunUnregSave, RunExec, RunLaneSave,
       RunLaneAcquire, RunStart, RunSaveRunning, RunEventLoad, RunEventSave,
       RunReturn, RunRaise, RunSaveRetry, RunFinal

LEMMA UnmarkedInit == Init => Unmarked
BY DEF Init, Unmarked, Absent

LEMMA UnmarkedNext == Disciplined /\ Unmarked /\ [Next]_vars => Unmarked'
<1> SUFFICES ASSUME Disciplined, Unmarked, [Next]_vars PROVE Unmarked'
    OBVIOUS
<1> Core /\ Typed /\ Places /\ Discipline
    BY DEF Disciplined, Core
<1>1. ASSUME NEW t \in Tasks, Waits(t)' PROVE store'[t].status # "running"
    <2>1. Waits(t) /\ store[t].status # "running"
        BY <1>1, WaitsOnce DEF Unmarked
    <2>2. ASSUME NEW r \in Runners, Busy(r), rtid[r] = t PROVE rpc[r] \in BeforeStart
        <3>1. t <= created /\ ~Queued(t) /\ \A e \in Enqueuers : Calling(e) => etid[e] # t
            BY <2>2 DEF Places, DeliveredOnce
        <3>2. PICK q \in Runners : rpc[q] \in BeforeStart /\ rtid[q] = t
            BY <2>1, <3>1 DEF Waits, Typed, StoreTyped
        <3>3. q = r
            BY <2>2, <3>2 DEF Places, DeliveredOnce, Busy, BeforeStart
        <3>4. QED
            BY <3>2, <3>3
    <2>3. \A r \in Runners : rpc[r] \in {"unregsave", "lanesave"} => rcur[r].status # "running"
        BY DEF Discipline, RunOK, Unmarked
    <2>4. "final" \notin BeforeStart
        BY DEF BeforeStart
    <2>5. QED
        BY Writes, <2>1, <2>2, <2>3, <2>4 DEF Pending, Absent
<1>2. ASSUME NEW t \in Tasks, Waits(t)', NEW m \in Markers, mpc'[m] = "save" PROVE mtid'[m] # t
    BY <1>2, WaitsOnce, MarkerMoves DEF Unmarked
<1>3. ASSUME NEW r \in Runners, rpc'[r] = "lanesave" PROVE rcur'[r].status # "running"
    <2>1. rpc[r] \in BeforeStart /\ (rcur'[r] = store[rtid[r]] \/ (rpc[r] = "lanesave" /\ rcur'[r] = rcur[r]))
        BY <1>3, BeforeMoves DEF BeforeStart
    <2>2. rtid[r] \in Tasks /\ Waits(rtid[r])
        BY <2>1 DEF Waits, BeforeStart, Typed, RunTyped
    <2>3. QED
        BY <2>1, <2>2 DEF Unmarked
<1>4. QED
    BY <1>1, <1>2, <1>3 DEF Unmarked

\* A runner that holds a cancelled task before its start ends without running it.
LEMMA CalledOffMoves ==
    ASSUME Typed, [Next]_vars, NEW r \in Runners, rpc[r] \in BeforeStart \cup {"final"},
           store[rtid[r]].status = "cancelled",
           rpc[r] \in {"lanesave", "final"} => rcur[r].status = "cancelled"
    PROVE  \/ rpc'[r] = "idle"
           \/ /\ rtid'[r] = rtid[r] /\ rpc'[r] \in BeforeStart \cup {"final"}
              /\ rpc'[r] \in {"lanesave", "final"} => rcur'[r].status = "cancelled"
<1> USE DEF BeforeStart, Typed, RunTyped, RunGoto, RunDone, Carry
<1>1. CASE ~RunStep(r)
    BY <1>1, Moves
<1>2. CASE RunTake(r) \/ RunLookup(r) \/ RunUnregLoad(r) \/ RunUnregSave(r)
    BY <1>2 DEF RunTake, RunLookup, RunUnregLoad, RunUnregSave
<1>3. CASE RunExec(r) \/ RunLaneSave(r) \/ RunLaneAcquire(r) \/ RunStart(r)
    BY <1>3 DEF RunExec, RunLaneSave, RunLaneAcquire, RunStart
<1>4. CASE RunSaveRunning(r) \/ RunBeat(r) \/ RunEventLoad(r) \/ RunEventSave(r)
    BY <1>4 DEF RunSaveRunning, RunBeat, RunEventLoad, RunEventSave
<1>5. CASE RunReturn(r) \/ RunRaise(r) \/ RunSaveRetry(r) \/ RunFinal(r)
    BY <1>5 DEF RunReturn, RunRaise, RunSaveRetry, RunFinal
<1>6. QED
    BY <1>1, <1>2, <1>3, <1>4, <1>5 DEF RunStep

LEMMA CalledOffNext ==
    ASSUME Disciplined, [Next]_vars, NEW t \in Tasks, CalledOff(t)
    PROVE  CalledOff(t)'
<1> Core /\ Typed /\ Places /\ Discipline /\ Typed'
    BY TypedNext DEF Disciplined, Core
<1> created \in Nat /\ created' \in Nat
    BY DEF Typed, StoreTyped
<1>1. t <= created'
    BY QueueMoves DEF CalledOff
<1>2. runs'[t] = 0
    BY EntryMoves DEF CalledOff, Busy, BeforeStart
<1>3. ASSUME NEW e \in Enqueuers, Calling(e)' PROVE etid'[e] # t
    BY <1>3, QueueMoves DEF CalledOff
<1>4. ASSUME NEW m \in Markers, mpc'[m] = "save" PROVE mtid'[m] # t
    BY <1>4, MarkerMoves DEF CalledOff
\* The record keeps saying cancelled, until a runner without a handler ends.
<1>5. \/ store'[t] = store[t]
      \/ store'[t].status = "cancelled"
      \/ \E r \in Runners : Busy(r) /\ rtid[r] = t /\ store'[t].status = "failed" /\ rpc'[r] = "idle"
    <2>1. \A r \in Runners : Busy(r) /\ rtid[r] = t =>
             /\ rpc[r] \in BeforeStart \cup {"final"}
             /\ rpc[r] \in {"lanesave", "final"} => rcur[r].status = "cancelled"
             /\ rpc[r] = "unregsave" => rcur[r].status = "failed"
        BY DEF CalledOff, Discipline, RunOK
    <2>2. QED
        BY Writes, <2>1 DEF CalledOff
<1>6. Queued(t)' => Queued(t)
    BY QueueMoves DEF CalledOff
<1>7. Queued(t) => \A r \in Runners : Busy(r) => rtid[r] # t
    BY DEF Places, DeliveredOnce
<1>8. ASSUME NEW r \in Runners, Busy(r)', rtid'[r] = t
      PROVE  /\ store'[t].status = "cancelled"
             /\ rpc'[r] \in BeforeStart \cup {"final"}
             /\ rpc'[r] \in {"lanesave", "final"} => rcur'[r].status = "cancelled"
    <2>1. CASE RunTake(r)
        <3>1. Queued(t) /\ rpc'[r] \in {"lookup", "exec"}
            BY <1>8, <2>1, QueueMoves DEF RunTake, Typed, RunTyped
        <3>2. QED
            BY <1>5, <1>7, <3>1 DEF CalledOff, BeforeStart
    <2>2. CASE ~RunTake(r)
        <3>1. Busy(r) /\ rtid[r] = t
            BY <1>8, <2>2, Moves, StepKeeps DEF Busy
        <3>2. \A q \in Runners : Busy(q) /\ rtid[q] = t => q = r
            BY <3>1 DEF Places, DeliveredOnce
        <3>3. store'[t].status = "cancelled"
            BY <1>5, <1>8, <3>1, <3>2 DEF CalledOff, Busy
        <3>4. QED
            BY <1>8, <3>1, <3>3, CalledOffMoves DEF CalledOff, Busy
    <2>3. QED
        BY <2>1, <2>2
<1>9. QED
    BY <1>1, <1>2, <1>3, <1>4, <1>5, <1>6, <1>7, <1>8 DEF CalledOff

LEMMA CalledOffEntry ==
    ASSUME Disciplined, Unmarked, NEW t \in Tasks, store[t].status = "cancelled", Queued(t)
    PROVE  CalledOff(t)
<1>1. t <= created /\ \A e \in Enqueuers : Calling(e) => etid[e] # t
    BY DEF Disciplined, Core, Places
<1>2. runs[t] = 0
    BY DEF Disciplined, Discipline, StoreOK
<1>3. \A m \in Markers : mpc[m] = "save" => mtid[m] # t
    BY DEF Unmarked, Waits
<1>4. \A r \in Runners : Busy(r) => rtid[r] # t
    BY DEF Disciplined, Core, Places, DeliveredOnce
<1>5. QED
    BY <1>1, <1>2, <1>3, <1>4 DEF CalledOff

\* A task that says cancelled while it waits in a queue is not executed by anyone
\* ever after, whatever cancels, marks, waits for the lane and crashes follow.
THEOREM CancelledNeverRuns == Spec => CancelledInQueueNeverRuns
<1>1. Spec => [](Disciplined /\ Unmarked)
    <2>1. Init => Unmarked
        BY UnmarkedInit
    <2>2. Disciplined /\ Unmarked /\ [Next]_vars => Unmarked'
        BY UnmarkedNext
    <2>3. QED
        BY <2>1, <2>2, DisciplinedAlways, PTL DEF Spec
<1>2. ASSUME NEW t \in Tasks
      PROVE  Spec => [](store[t].status = "cancelled" /\ Queued(t) => [](runs[t] = 0))
    <2>1. Disciplined /\ Unmarked /\ store[t].status = "cancelled" /\ Queued(t) => CalledOff(t)
        BY CalledOffEntry
    <2>2. Disciplined /\ CalledOff(t) /\ [Next]_vars => CalledOff(t)'
        BY CalledOffNext
    <2>3. CalledOff(t) => runs[t] = 0
        BY DEF CalledOff
    <2>4. QED
        BY <1>1, <2>1, <2>2, <2>3, PTL DEF Spec
<1>3. QED
    BY <1>2 DEF CancelledInQueueNeverRuns
=============================================================================
