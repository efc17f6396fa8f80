--------------------------- MODULE SyncQueue_proofs ---------------------------
(***************************************************************************)
(* Proofs that the safety properties of SyncQueue hold for every set of    *)
(* workers and runs of main.py, every bound and every threshold.           *)
(*                                                                         *)
(* The inductive invariant is built in layers, each proved with the help   *)
(* of the ones below it: types, the lock, runs, jobs.                      *)
(***************************************************************************)
EXTENDS MCSyncQueue, WellFoundedInduction, TLAPS

\* The points of a sync between the creation of its run and its last word on it.
RunPoints == {"exec", "finish", "success", "gate", "except"}

\* A process that is about to record a result has one.
ResultKnown ==
  \A p \in Procs : pc[p] \in {"finish", "success", "gate", "unlock", "finishJob"}
                     => res[p] \in {"success", "failed"}

\* A worker works for a job from its claim to its end, and a process that has
\* created its run knows it.
OwnerKnown ==
  /\ \A w \in Workers : pc[w] \in JobPoints \cup SyncPoints => job[w] \in JobIds
  /\ \A p \in Procs : pc[p] \in RunPoints \cup {"unlock", "finishJob"} => run[p] \in RunIds

TypeInv == TypeOK /\ ResultKnown /\ OwnerKnown

\* The lock is held exactly at the points between its acquisition and release.
LockInv ==
  \A p \in Procs : pc[p] \in SyncPoints \cup ProbePoints <=> lock = p

\* Only rows whose id was drawn exist.
DrawnRuns == \A r \in RunIds : runs[r].status # "none" => r \in UsedRuns

\* The run of a sync is the newest one, and nobody else's run is running.
OwnRun(p) ==
  /\ pc[p] \in RunPoints => IsMax(run[p], UsedRuns) /\ Running \subseteq {run[p]}
  /\ pc[p] = "create" => Running = {}
  /\ pc[p] \in {"exec", "finish"} => runs[run[p]].status = "running"
  /\ pc[p] \in {"success", "gate"} => runs[run[p]].status = "success"
  /\ pc[p] = "except" => runs[run[p]].status \in {"running", "success"}

NewestRunKept == \A r \in RunIds : IsMax(r, UsedRuns) => runs[r].status # "none"

RunInv ==
  /\ DrawnRuns
  /\ OneRunningRun
  /\ NewestRunKept
  /\ \A p \in Procs : OwnRun(p)

\* A claimed job is drawn and not in the queue.
OwnJob(w) == job[w] # NULL => jobs[job[w]].status # "queued" /\ job[w] \in UsedJobs

NewestJobsKept ==
  \A j \in UsedJobs :
    (\A k \in UsedJobs : jobs[k].tenant = jobs[j].tenant => k <= j) => jobs[j].status # "none"

JobInv ==
  /\ \A j \in JobIds : jobs[j].status # "none" => j \in UsedJobs
  /\ \A w \in Workers : OwnJob(w)
  /\ JobHasOneOwner
  /\ NoDanglingRun
  /\ NewestJobsKept
  /\ \A w \in Workers : pc[w] = "gate" => jobs[job[w]].tenant = NULL

IInv == TypeInv /\ LockInv /\ RunInv /\ JobInv

-----------------------------------------------------------------------------
(* Types.                                                                  *)

\* The initial state is well typed.
LEMMA TypeInit == Init => TypeInv
  BY ConstantsAssumption
     DEF ConstantsAssumption, Init, TypeInv, TypeOK, ResultKnown, OwnerKnown, NoRun, NoJob, RunRow,
         JobRow, Points, JobPoints, SyncPoints, RunPoints, StateKeys, Procs, Workers

\* No step breaks a type, and every path to a point that records a result
\* goes through one that sets it.
LEMMA TypeStep == TypeInv /\ [Next]_vars => TypeInv'
<1> SUFFICES ASSUME TypeInv, [Next]_vars PROVE TypeInv'
  OBVIOUS
<1> USE ConstantsAssumption
    DEF ConstantsAssumption, TypeInv, TypeOK, ResultKnown, OwnerKnown, RunPoints, RunRow, JobRow, Points, SyncPoints,
        ProbePoints, JobPoints, IdlePoints, Procs, Workers, Goto, At, tables, locals, bounds
<1>1. ASSUME NEW t \in Tenants \cup {NULL}, ApiEnqueue(t) PROVE TypeInv'
  BY <1>1 DEF ApiEnqueue, InsertJob, NewJob
<1>2. ASSUME NEW w \in Workers, PollPreCheck(w) PROVE TypeInv'
  BY <1>2 DEF PollPreCheck, AfterNothing
<1>3. ASSUME NEW w \in Workers, ClaimNextJob(w) PROVE TypeInv'
  <2>1. CASE Queued = {} /\ Goto(w, AfterNothing(w)) /\ UNCHANGED <<jobs, job>>
    BY <1>3, <2>1 DEF ClaimNextJob, AfterNothing
  <2>2. ASSUME NEW j \in JobIds, jobs' = [jobs EXCEPT ![j] = Touched(j, "running", jobs[j].run)],
               job' = [job EXCEPT ![w] = j], Goto(w, "lock")
        PROVE  TypeInv'
    BY <1>3, <2>2 DEF ClaimNextJob, Touched
  <2>3. QED
    BY <1>3, <2>1, <2>2 DEF ClaimNextJob
<1>4. ASSUME NEW w \in Workers, ReleaseJobToQueue(w) PROVE TypeInv'
  BY <1>4, SMTT(30) DEF ReleaseJobToQueue, AfterNothing
<1>5. ASSUME NEW w \in Workers, FinishJob(w) PROVE TypeInv'
  BY <1>5 DEF FinishJob, Forget, Touched
<1>6. ASSUME NEW w \in Workers, FailJob(w) PROVE TypeInv'
  BY <1>6 DEF FailJob, Forget, Touched
<1>7. ASSUME NEW w \in Workers, StartWorker(w) PROVE TypeInv'
  BY <1>7 DEF StartWorker
<1>8. ASSUME NEW p \in Procs, AcquireLock(p) PROVE TypeInv'
  BY <1>8 DEF AcquireLock
<1>9. ASSUME NEW p \in Procs, CleanupStaleRuns(p) PROVE TypeInv'
  BY <1>9 DEF CleanupStaleRuns, Abandoned
<1>10. ASSUME NEW p \in Procs, CreateRun(p) PROVE TypeInv'
  BY <1>10 DEF CreateRun
<1>11. ASSUME NEW p \in Procs, Execute(p) PROVE TypeInv'
  <2>1. PICK r \in {"success", "failed"} : res' = [res EXCEPT ![p] = r]
    BY <1>11 DEF Execute
  <2>2. QED
    BY <1>11, <2>1 DEF Execute
<1>12. ASSUME NEW p \in Procs, FinishRun(p) PROVE TypeInv'
  BY <1>12 DEF FinishRun
<1>13. ASSUME NEW p \in Procs, SetLastSuccessful(p) PROVE TypeInv'
  BY <1>13 DEF SetLastSuccessful
<1>14. ASSUME NEW p \in Procs, SetLastUnscoped(p) PROVE TypeInv'
  BY <1>14 DEF SetLastUnscoped
<1>15. ASSUME NEW p \in Procs, FinishRunFailed(p) PROVE TypeInv'
  BY <1>15 DEF FinishRunFailed
<1>16. ASSUME NEW p \in Procs, ReleaseLock(p) PROVE TypeInv'
  <2>1. CASE At(p, "unlock") /\ p \in Workers /\ Goto(p, "finishJob") /\ UNCHANGED locals
    BY <1>16, <2>1 DEF ReleaseLock, Unlocked
  <2>2. CASE At(p, "raise") /\ p \in Workers /\ Goto(p, "fail") /\ UNCHANGED locals
    BY <1>16, <2>2 DEF ReleaseLock, Unlocked
  <2>3. CASE p \in Clis /\ Goto(p, "dead") /\ Forget(p)
    BY <1>16, <2>3 DEF ReleaseLock, Unlocked, Forget
  <2>4. QED
    BY <1>16, <2>1, <2>2, <2>3 DEF ReleaseLock
<1>17. ASSUME NEW p \in Procs, Crash(p) PROVE TypeInv'
  BY <1>17 DEF Crash, Die, Unlocked, Forget
<1>18. ASSUME NEW p \in Procs, Fault(p) PROVE TypeInv'
  <2>1. CASE Die(p)
    BY <1>18, <2>1 DEF Fault, DbError, Die, Unlocked, Forget
  <2>2. CASE ~Die(p)
    BY <1>18, <2>2 DEF Fault, DbError, Handler, Unlocked, AfterRaise
  <2>3. QED
    BY <2>1, <2>2
<1>19. ASSUME NEW p \in Procs, Reject(p) PROVE TypeInv'
  BY <1>19, SMTT(30) DEF Reject, Rejected, DbError, Die, Handler, Unlocked, Forget, AfterRaise
<1>20. ASSUME NEW w \in Loopers, ReapCheck(w) PROVE TypeInv'
  BY <1>20 DEF ReapCheck
<1>21. ASSUME NEW w \in Loopers, ProbeIdleLock(w) PROVE TypeInv'
  BY <1>21 DEF ProbeIdleLock
<1>22. ASSUME NEW w \in Loopers, ReapRuns(w) PROVE TypeInv'
  BY <1>22 DEF ReapRuns, Abandoned
<1>23. ASSUME NEW w \in Loopers, ReapJobsRead(w) PROVE TypeInv'
  BY <1>23 DEF ReapJobsRead, StaleJobs
<1>24. ASSUME NEW w \in Loopers, ReapJobsWrite(w) PROVE TypeInv'
  BY <1>24 DEF ReapJobsWrite, Touched
<1>25. ASSUME NEW w \in Loopers, ProbeRelease(w) PROVE TypeInv'
  BY <1>25 DEF ProbeRelease, Unlocked
<1>26. ASSUME NEW w \in Loopers, AutoGate(w) PROVE TypeInv'
  BY <1>26 DEF AutoGate, AfterAuto
<1>27. ASSUME NEW w \in Loopers, AutoCheckTenant(w) PROVE TypeInv'
  BY <1>27 DEF AutoCheckTenant, AfterAuto
<1>28. ASSUME NEW w \in Loopers, AutoEnqueue(w) PROVE TypeInv'
  <2>1. CASE InsertJob(pick[w], TRUE)
    BY <1>28, <2>1 DEF AutoEnqueue, InsertJob, NewJob
  <2>2. CASE UNCHANGED jobs
    BY <1>28, <2>2 DEF AutoEnqueue
  <2>3. QED
    BY <1>28, <2>1, <2>2 DEF AutoEnqueue
<1>29. ASSUME NEW w \in Loopers, SweepRuns(w) PROVE TypeInv'
  BY <1>29 DEF SweepRuns, SweepGate
<1>30. ASSUME NEW w \in Loopers, PurgeOldRuns(w) PROVE TypeInv'
  BY <1>30, SMTT(30) DEF PurgeOldRuns, GoneRun
<1>31. ASSUME NEW w \in Loopers, SweepJobs(w) PROVE TypeInv'
  BY <1>31 DEF SweepJobs, SweepGate
<1>32. ASSUME NEW w \in Loopers, PurgeOldJobs(w) PROVE TypeInv'
  BY <1>32 DEF PurgeOldJobs, GoneJob
<1>33. ASSUME NEW c \in Clis, StartCli(c) PROVE TypeInv'
  BY <1>33 DEF StartCli
<1>34. CASE Tick
  BY <1>34 DEF Tick, Aged, Older, KeyLimit, StateKeys
<1>35. CASE UNCHANGED vars
  BY <1>35 DEF vars
<1>36. QED
  BY <1>1, <1>2, <1>3, <1>4, <1>5, <1>6, <1>7, <1>8, <1>9, <1>10, <1>11, <1>12, <1>13, <1>14,
     <1>15, <1>16, <1>17, <1>18, <1>19, <1>20, <1>21, <1>22, <1>23, <1>24, <1>25, <1>26,
     <1>27, <1>28, <1>29, <1>30, <1>31, <1>32, <1>33, <1>34, <1>35
     DEF Next, WorkerStep, SyncStep, IdleStep

\* Every variable keeps its type, for every value of the constants.
THEOREM TypeCorrect == Spec => []TypeOK
<1>1. TypeInv => TypeOK
  BY DEF TypeInv
<1>2. QED
  BY TypeInit, TypeStep, <1>1, PTL DEF Spec

-----------------------------------------------------------------------------
(* The lock.                                                               *)

\* Nobody holds the lock at first.
LEMMA LockInit == Init => LockInv
  BY ConstantsAssumption DEF ConstantsAssumption, Init, LockInv, SyncPoints, ProbePoints

\* Every point change crosses the boundary of the locked region exactly when
\* the lock is taken or given up.
LEMMA LockStep == TypeInv /\ LockInv /\ [Next]_vars => LockInv'
<1> SUFFICES ASSUME TypeInv, LockInv, [Next]_vars PROVE LockInv'
  OBVIOUS
<1>0. /\ lock \in Procs \cup {NULL} /\ pc \in [Procs -> Points]
      /\ NULL \notin Procs /\ Workers \subseteq Procs /\ Loopers \subseteq Workers /\ Clis \subseteq Procs
  BY ConstantsAssumption DEF ConstantsAssumption, TypeInv, TypeOK, Procs, Workers
<1> USE <1>0 DEF LockInv, SyncPoints, ProbePoints, Goto, At, tables, locals, bounds
<1>1. ASSUME NEW t \in Tenants \cup {NULL}, ApiEnqueue(t) PROVE LockInv'
  BY <1>1 DEF ApiEnqueue
<1>2. ASSUME NEW w \in Workers, PollPreCheck(w) PROVE LockInv'
  BY <1>2 DEF PollPreCheck, AfterNothing
<1>3. ASSUME NEW w \in Workers, ClaimNextJob(w) PROVE LockInv'
  BY <1>3 DEF ClaimNextJob, AfterNothing
<1>4. ASSUME NEW w \in Workers, ReleaseJobToQueue(w) PROVE LockInv'
  BY <1>4 DEF ReleaseJobToQueue, AfterNothing
<1>5. ASSUME NEW w \in Workers, FinishJob(w) PROVE LockInv'
  BY <1>5 DEF FinishJob, Forget
<1>6. ASSUME NEW w \in Workers, FailJob(w) PROVE LockInv'
  BY <1>6 DEF FailJob, Forget
<1>7. ASSUME NEW w \in Workers, StartWorker(w) PROVE LockInv'
  BY <1>7 DEF StartWorker
<1>8. ASSUME NEW p \in Procs, AcquireLock(p) PROVE LockInv'
  BY <1>8 DEF AcquireLock
<1>9. ASSUME NEW p \in Procs, CleanupStaleRuns(p) PROVE LockInv'
  BY <1>9 DEF CleanupStaleRuns
<1>10. ASSUME NEW p \in Procs, CreateRun(p) PROVE LockInv'
  BY <1>10 DEF CreateRun
<1>11. ASSUME NEW p \in Procs, Execute(p) PROVE LockInv'
  BY <1>11 DEF Execute
<1>12. ASSUME NEW p \in Procs, FinishRun(p) PROVE LockInv'
  BY <1>12 DEF FinishRun
<1>13. ASSUME NEW p \in Procs, SetLastSuccessful(p) PROVE LockInv'
  BY <1>13 DEF SetLastSuccessful
<1>14. ASSUME NEW p \in Procs, SetLastUnscoped(p) PROVE LockInv'
  BY <1>14 DEF SetLastUnscoped
<1>15. ASSUME NEW p \in Procs, FinishRunFailed(p) PROVE LockInv'
  BY <1>15 DEF FinishRunFailed
<1>16. ASSUME NEW p \in Procs, ReleaseLock(p) PROVE LockInv'
  BY <1>16 DEF ReleaseLock, Unlocked
<1>17. ASSUME NEW p \in Procs, Crash(p) PROVE LockInv'
  BY <1>17 DEF Crash, Die, Unlocked, Forget
<1>18. ASSUME NEW p \in Procs, Fault(p) PROVE LockInv'
  BY <1>18 DEF Fault, DbError, Die, Handler, Unlocked, AfterRaise
<1>19. ASSUME NEW p \in Procs, Reject(p) PROVE LockInv'
  BY <1>19 DEF Reject, DbError, Die, Handler, Unlocked, AfterRaise
<1>20. ASSUME NEW w \in Loopers, ReapCheck(w) PROVE LockInv'
  BY <1>20 DEF ReapCheck
<1>21. ASSUME NEW w \in Loopers, ProbeIdleLock(w) PROVE LockInv'
  BY <1>21 DEF ProbeIdleLock
<1>22. ASSUME NEW w \in Loopers, ReapRuns(w) PROVE LockInv'
  BY <1>22 DEF ReapRuns
<1>23. ASSUME NEW w \in Loopers, ReapJobsRead(w) PROVE LockInv'
  BY <1>23 DEF ReapJobsRead
<1>24. ASSUME NEW w \in Loopers, ReapJobsWrite(w) PROVE LockInv'
  BY <1>24 DEF ReapJobsWrite
<1>25. ASSUME NEW w \in Loopers, ProbeRelease(w) PROVE LockInv'
  BY <1>25 DEF ProbeRelease, Unlocked
<1>26. ASSUME NEW w \in Loopers, AutoGate(w) PROVE LockInv'
  BY <1>26 DEF AutoGate, AfterAuto
<1>27. ASSUME NEW w \in Loopers, AutoCheckTenant(w) PROVE LockInv'
  BY <1>27 DEF AutoCheckTenant, AfterAuto
<1>28. ASSUME NEW w \in Loopers, AutoEnqueue(w) PROVE LockInv'
  BY <1>28 DEF AutoEnqueue
<1>29. ASSUME NEW w \in Loopers, SweepRuns(w) PROVE LockInv'
  BY <1>29 DEF SweepRuns, SweepGate
<1>30. ASSUME NEW w \in Loopers, PurgeOldRuns(w) PROVE LockInv'
  BY <1>30 DEF PurgeOldRuns
<1>31. ASSUME NEW w \in Loopers, SweepJobs(w) PROVE LockInv'
  BY <1>31 DEF SweepJobs, SweepGate
<1>32. ASSUME NEW w \in Loopers, PurgeOldJobs(w) PROVE LockInv'
  BY <1>32 DEF PurgeOldJobs
<1>33. ASSUME NEW c \in Clis, StartCli(c) PROVE LockInv'
  BY <1>33 DEF StartCli
<1>34. CASE Tick
  BY <1>34 DEF Tick
<1>35. CASE UNCHANGED vars
  BY <1>35 DEF vars
<1>36. QED
  BY <1>1, <1>2, <1>3, <1>4, <1>5, <1>6, <1>7, <1>8, <1>9, <1>10, <1>11, <1>12, <1>13, <1>14,
     <1>15, <1>16, <1>17, <1>18, <1>19, <1>20, <1>21, <1>22, <1>23, <1>24, <1>25, <1>26,
     <1>27, <1>28, <1>29, <1>30, <1>31, <1>32, <1>33, <1>34, <1>35
     DEF Next, WorkerStep, SyncStep, IdleStep

-----------------------------------------------------------------------------
(* Runs.                                                                   *)

\* Only the holder of the lock creates or closes runs, and only the newest run
\* can be open, so neither a reaper nor retention meets a live one.
LEMMA RunStep == TypeInv /\ LockInv /\ RunInv /\ [Next]_vars => RunInv'
<1> SUFFICES ASSUME TypeInv, LockInv, RunInv, [Next]_vars PROVE RunInv'
  OBVIOUS
<1>0. /\ runs \in [RunIds -> RunRow]
      /\ pc \in [Procs -> Points]
      /\ run \in [Procs -> RunIds \cup {NULL}]
      /\ \A p \in Procs : pc[p] \in RunPoints \cup {"unlock", "finishJob"} => run[p] \in RunIds
      /\ \A p \in Procs : pc[p] \in {"finish", "success", "gate", "unlock", "finishJob"}
                            => res[p] \in {"success", "failed"}
  BY DEF TypeInv, TypeOK, OwnerKnown, ResultKnown
<1>00. /\ NULL \notin Procs /\ Workers \subseteq Procs /\ Loopers \subseteq Workers /\ Clis \subseteq Procs
       /\ RunIds \subseteq Nat /\ RunCap \in Nat /\ NULL \notin Nat
  BY ConstantsAssumption DEF ConstantsAssumption, Procs, Workers, RunIds
<1> USE <1>0, <1>00 DEF LockInv, RunInv, DrawnRuns, OneRunningRun, NewestRunKept, OwnRun, Running,
      UsedRuns, IsMax, RunRow, RunPoints, SyncPoints, ProbePoints, Goto, At, tables, locals, bounds
<1>1. ASSUME NEW t \in Tenants \cup {NULL}, ApiEnqueue(t) PROVE RunInv'
  BY <1>1 DEF ApiEnqueue
<1>2. ASSUME NEW w \in Workers, PollPreCheck(w) PROVE RunInv'
  BY <1>2 DEF PollPreCheck, AfterNothing
<1>3. ASSUME NEW w \in Workers, ClaimNextJob(w) PROVE RunInv'
  BY <1>3 DEF ClaimNextJob, AfterNothing
<1>4. ASSUME NEW w \in Workers, ReleaseJobToQueue(w) PROVE RunInv'
  BY <1>4 DEF ReleaseJobToQueue, AfterNothing
<1>5. ASSUME NEW w \in Workers, FinishJob(w) PROVE RunInv'
  BY <1>5 DEF FinishJob, Forget
<1>6. ASSUME NEW w \in Workers, FailJob(w) PROVE RunInv'
  BY <1>6 DEF FailJob, Forget
<1>7. ASSUME NEW w \in Workers, StartWorker(w) PROVE RunInv'
  BY <1>7 DEF StartWorker
<1>8. ASSUME NEW p \in Procs, AcquireLock(p) PROVE RunInv'
  BY <1>8 DEF AcquireLock
<1>9. ASSUME NEW p \in Procs, CleanupStaleRuns(p) PROVE RunInv'
  BY <1>9 DEF CleanupStaleRuns, Abandoned
<1>10. ASSUME NEW p \in Procs, CreateRun(p) PROVE RunInv'
  BY <1>10 DEF CreateRun
<1>11. ASSUME NEW p \in Procs, Execute(p) PROVE RunInv'
  BY <1>11 DEF Execute
<1>12. ASSUME NEW p \in Procs, FinishRun(p) PROVE RunInv'
  BY <1>12 DEF FinishRun
<1>13. ASSUME NEW p \in Procs, SetLastSuccessful(p) PROVE RunInv'
  BY <1>13 DEF SetLastSuccessful
<1>14. ASSUME NEW p \in Procs, SetLastUnscoped(p) PROVE RunInv'
  BY <1>14 DEF SetLastUnscoped
<1>15. ASSUME NEW p \in Procs, FinishRunFailed(p) PROVE RunInv'
  BY <1>15 DEF FinishRunFailed
<1>16. ASSUME NEW p \in Procs, ReleaseLock(p) PROVE RunInv'
  BY <1>16 DEF ReleaseLock, Forget
<1>17. ASSUME NEW p \in Procs, Crash(p) PROVE RunInv'
  BY <1>17 DEF Crash, Die, Forget
<1>18. ASSUME NEW p \in Procs, Fault(p) PROVE RunInv'
  BY <1>18 DEF Fault, DbError, Die, Forget, Handler, AfterRaise
<1>19. ASSUME NEW p \in Procs, Reject(p) PROVE RunInv'
  BY <1>19 DEF Reject, Rejected, DbError, Die, Forget, Handler, AfterRaise
<1>20. ASSUME NEW w \in Loopers, ReapCheck(w) PROVE RunInv'
  BY <1>20 DEF ReapCheck
<1>21. ASSUME NEW w \in Loopers, ProbeIdleLock(w) PROVE RunInv'
  BY <1>21 DEF ProbeIdleLock
<1>22. ASSUME NEW w \in Loopers, ReapRuns(w) PROVE RunInv'
  BY <1>22 DEF ReapRuns, Abandoned
<1>23. ASSUME NEW w \in Loopers, ReapJobsRead(w) PROVE RunInv'
  BY <1>23 DEF ReapJobsRead
<1>24. ASSUME NEW w \in Loopers, ReapJobsWrite(w) PROVE RunInv'
  BY <1>24 DEF ReapJobsWrite
<1>25. ASSUME NEW w \in Loopers, ProbeRelease(w) PROVE RunInv'
  BY <1>25 DEF ProbeRelease, Unlocked
<1>26. ASSUME NEW w \in Loopers, AutoGate(w) PROVE RunInv'
  BY <1>26 DEF AutoGate, AfterAuto
<1>27. ASSUME NEW w \in Loopers, AutoCheckTenant(w) PROVE RunInv'
  BY <1>27 DEF AutoCheckTenant, AfterAuto
<1>28. ASSUME NEW w \in Loopers, AutoEnqueue(w) PROVE RunInv'
  BY <1>28 DEF AutoEnqueue
<1>29. ASSUME NEW w \in Loopers, SweepRuns(w) PROVE RunInv'
  BY <1>29 DEF SweepRuns, SweepGate
<1>30. ASSUME NEW w \in Loopers, PurgeOldRuns(w) PROVE RunInv'
  BY <1>30, SMTT(30) DEF PurgeOldRuns, PurgeableRuns, LatestRun, GoneRun
<1>31. ASSUME NEW w \in Loopers, SweepJobs(w) PROVE RunInv'
  BY <1>31 DEF SweepJobs, SweepGate
<1>32. ASSUME NEW w \in Loopers, PurgeOldJobs(w) PROVE RunInv'
  BY <1>32 DEF PurgeOldJobs
<1>33. ASSUME NEW c \in Clis, StartCli(c) PROVE RunInv'
  BY <1>33 DEF StartCli
<1>34. CASE Tick
  <2>1. /\ UNCHANGED <<lock, pc, run>>
        /\ \A r \in RunIds : /\ runs'[r].status = runs[r].status
                             /\ runs'[r].started = NULL <=> runs[r].started = NULL
    BY <1>34 DEF Tick, Older
  <2>2. Running' = Running
    BY <2>1
  <2>3. UsedRuns' = UsedRuns
    BY <2>1
  <2> HIDE DEF Running, UsedRuns
  <2>4. DrawnRuns' /\ OneRunningRun'
    BY <2>1, <2>2, <2>3
  <2>5. NewestRunKept'
    BY <2>1, <2>3
  <2>6. ASSUME NEW p \in Procs PROVE OwnRun(p)'
    <3>1. OwnRun(p) /\ (pc[p] \in RunPoints => run[p] \in RunIds)
      OBVIOUS
    <3>2. pc'[p] = pc[p] /\ run'[p] = run[p]
      BY <2>1
    <3>3. pc[p] \in RunPoints => runs'[run[p]].status = runs[run[p]].status
      BY <2>1, <3>1
    <3>4. QED
      BY <2>2, <2>3, <3>1, <3>2, <3>3
  <2>7. QED
    BY <2>4, <2>5, <2>6
<1>35. CASE UNCHANGED vars
  BY <1>35 DEF vars
<1>36. QED
  BY <1>1, <1>2, <1>3, <1>4, <1>5, <1>6, <1>7, <1>8, <1>9, <1>10, <1>11, <1>12, <1>13, <1>14,
     <1>15, <1>16, <1>17, <1>18, <1>19, <1>20, <1>21, <1>22, <1>23, <1>24, <1>25, <1>26,
     <1>27, <1>28, <1>29, <1>30, <1>31, <1>32, <1>33, <1>34, <1>35
     DEF Next, WorkerStep, SyncStep, IdleStep

\* At first there is no run.
LEMMA RunInit == Init => RunInv
  BY DEF Init, RunInv, DrawnRuns, OneRunningRun, NewestRunKept, OwnRun, Running, UsedRuns, IsMax,
         NoRun, RunPoints

-----------------------------------------------------------------------------
(* Jobs.                                                                   *)

\* A job is claimed from the queue by one worker, leaves it for good or goes
\* back to it without an owner; retention clears references and spares the
\* newest job of every tenant.
LEMMA JobStep == TypeInv /\ RunInv /\ JobInv /\ [Next]_vars => JobInv'
<1> SUFFICES ASSUME TypeInv, RunInv, JobInv, [Next]_vars PROVE JobInv'
  OBVIOUS
<1>0. /\ jobs \in [JobIds -> JobRow]
      /\ runs \in [RunIds -> RunRow]
      /\ job \in [Procs -> JobIds \cup {NULL}]
      /\ run \in [Procs -> RunIds \cup {NULL}]
      /\ stale \in [Procs -> SUBSET JobIds] /\ pc \in [Procs -> Points]
      /\ \A w \in Workers : pc[w] \in JobPoints \cup SyncPoints => job[w] \in JobIds
      /\ \A p \in Procs : pc[p] \in RunPoints \cup {"unlock", "finishJob"} => run[p] \in RunIds
      /\ \A p \in Procs : pc[p] \in {"finish", "success", "gate", "unlock", "finishJob"}
                            => res[p] \in {"success", "failed"}
  BY DEF TypeInv, TypeOK, OwnerKnown, ResultKnown
<1>00. /\ Workers \subseteq Procs /\ Loopers \subseteq Workers /\ Workers \cap Clis = {}
       /\ JobIds \subseteq Nat /\ RunIds \subseteq Nat /\ NULL \notin Nat /\ NULL \notin Tenants
       /\ AutoInterval \in Nat
  BY ConstantsAssumption DEF ConstantsAssumption, Procs, Workers, RunIds, JobIds
<1> USE <1>0, <1>00 DEF JobInv, OwnJob, JobHasOneOwner, NoDanglingRun, NewestJobsKept, UsedJobs,
      IsMax, JobRow, RunRow, RunPoints, JobPoints, SyncPoints, Goto, At, tables, locals, bounds
<1>1. ASSUME NEW t \in Tenants \cup {NULL}, ApiEnqueue(t) PROVE JobInv'
  BY <1>1 DEF ApiEnqueue, InsertJob, NewJob
<1>2. ASSUME NEW w \in Workers, PollPreCheck(w) PROVE JobInv'
  BY <1>2 DEF PollPreCheck, AfterNothing
<1>3. ASSUME NEW w \in Workers, ClaimNextJob(w) PROVE JobInv'
  <2>1. CASE UNCHANGED <<jobs, job>>
    BY <1>3, <2>1 DEF ClaimNextJob, AfterNothing
  <2>2. ASSUME NEW j \in JobIds, jobs[j].status = "queued", UNCHANGED <<runs, run>>,
               jobs' = [jobs EXCEPT ![j] = Touched(j, "running", jobs[j].run)],
               job' = [job EXCEPT ![w] = j], Goto(w, "lock")
        PROVE  JobInv'
    <3>1. \A k \in JobIds : /\ jobs'[k].status = IF k = j THEN "running" ELSE jobs[k].status
                            /\ jobs'[k].tenant = jobs[k].tenant /\ jobs'[k].run = jobs[k].run
                            /\ jobs'[k].requested = jobs[k].requested
      BY <2>2 DEF Touched
    <3>2. \A v \in Workers : job'[v] = IF v = w THEN j ELSE job[v]
      BY <2>2
    <3>3. (\A v \in Workers : OwnJob(v))' /\ JobHasOneOwner'
      BY <2>2, <3>1, <3>2
    <3>4. NewestJobsKept'
      <4>1. \A k \in JobIds : k \in UsedJobs' <=> k \in UsedJobs
        BY <3>1
      <4>2. QED
        BY <3>1, <4>1
    <3>5. NoDanglingRun'
      BY <2>2, <3>1
    <3>6. \A k \in JobIds : jobs'[k].status # "none" => k \in UsedJobs'
      BY <2>2, <3>1
    <3>7. \A v \in Workers : pc'[v] = "gate" => jobs'[job'[v]].tenant = NULL
      BY <2>2, <3>1, <3>2
    <3>8. QED
      BY <3>3, <3>4, <3>5, <3>6, <3>7
  <2>3. QED
    BY <1>3, <2>1, <2>2 DEF ClaimNextJob, IsMin, Queued
<1>4. ASSUME NEW w \in Workers, ReleaseJobToQueue(w) PROVE JobInv'
  <2>1. /\ At(w, "requeue") /\ job[w] \in JobIds /\ UNCHANGED <<runs, run>>
        /\ \A k \in JobIds : /\ jobs'[k].status = IF k = job[w] THEN "queued" ELSE jobs[k].status
                             /\ jobs'[k].run = IF k = job[w] THEN NULL ELSE jobs[k].run
                             /\ jobs'[k].tenant = jobs[k].tenant /\ jobs'[k].requested = jobs[k].requested
    BY <1>4 DEF ReleaseJobToQueue
  <2>2. \A v \in Workers : job'[v] = IF v = w THEN NULL ELSE job[v]
    BY <1>4 DEF ReleaseJobToQueue
  <2>3. \A v \in Workers : pc'[v] = "gate" => v # w /\ pc[v] = "gate"
    BY <1>4 DEF ReleaseJobToQueue, AfterNothing
  <2>4. ASSUME NEW v \in Workers PROVE OwnJob(v)'
    <3>1. CASE v = w
      BY <2>2, <3>1
    <3>2. CASE v # w
      <4>1. job'[v] = job[v] /\ (job[v] # NULL => job[v] # job[w])
        BY <2>1, <2>2, <3>2
      <4>2. OwnJob(v) /\ (job[v] # NULL => job[v] \in JobIds)
        OBVIOUS
      <4>3. QED
        BY <2>1, <4>1, <4>2
    <3>3. QED
      BY <3>1, <3>2
  <2>5. JobHasOneOwner'
    BY <2>2
  <2>6. NewestJobsKept'
    <3>1. \A k \in JobIds : k \in UsedJobs' <=> k \in UsedJobs
      BY <2>1
    <3>2. QED
      BY <2>1, <3>1
  <2>7. NoDanglingRun'
    BY <2>1
  <2>8. \A k \in JobIds : jobs'[k].status # "none" => k \in UsedJobs'
    BY <2>1
  <2>9. \A v \in Workers : pc'[v] = "gate" => jobs'[job'[v]].tenant = NULL
    <3> TAKE v \in Workers
    <3> HAVE pc'[v] = "gate"
    <3>1. v # w /\ pc[v] = "gate" /\ job[v] \in JobIds
      BY <2>3
    <3>2. job'[v] = job[v] /\ jobs'[job[v]].tenant = jobs[job[v]].tenant
      BY <2>1, <2>2, <3>1
    <3>3. QED
      BY <3>1, <3>2
  <2>10. QED
    BY <2>4, <2>6, <2>7, <2>8, <2>9, <2>5
<1>5. ASSUME NEW w \in Workers, FinishJob(w) PROVE JobInv'
  BY <1>5 DEF FinishJob, Forget, Touched
<1>6. ASSUME NEW w \in Workers, FailJob(w) PROVE JobInv'
  BY <1>6 DEF FailJob, Forget, Touched
<1>7. ASSUME NEW w \in Workers, StartWorker(w) PROVE JobInv'
  BY <1>7 DEF StartWorker
<1>8. ASSUME NEW p \in Procs, AcquireLock(p) PROVE JobInv'
  BY <1>8 DEF AcquireLock
<1>9. ASSUME NEW p \in Procs, CleanupStaleRuns(p) PROVE JobInv'
  BY <1>9 DEF CleanupStaleRuns, Abandoned, Running
<1>10. ASSUME NEW p \in Procs, CreateRun(p) PROVE JobInv'
  BY <1>10 DEF CreateRun
<1>11. ASSUME NEW p \in Procs, Execute(p) PROVE JobInv'
  BY <1>11 DEF Execute
<1>12. ASSUME NEW p \in Procs, FinishRun(p) PROVE JobInv'
  BY <1>12 DEF FinishRun
<1>13. ASSUME NEW p \in Procs, SetLastSuccessful(p) PROVE JobInv'
  BY <1>13 DEF SetLastSuccessful, Scoped
<1>14. ASSUME NEW p \in Procs, SetLastUnscoped(p) PROVE JobInv'
  BY <1>14 DEF SetLastUnscoped
<1>15. ASSUME NEW p \in Procs, FinishRunFailed(p) PROVE JobInv'
  BY <1>15 DEF FinishRunFailed
<1>16. ASSUME NEW p \in Procs, ReleaseLock(p) PROVE JobInv'
  BY <1>16 DEF ReleaseLock, Forget
<1>17. ASSUME NEW p \in Procs, Crash(p) PROVE JobInv'
  BY <1>17 DEF Crash, Die, Forget
<1>18. ASSUME NEW p \in Procs, Fault(p) PROVE JobInv'
  <2>1. CASE Die(p)
    BY <1>18, <2>1 DEF Fault, DbError, Die, Forget
  <2>2. CASE ~Die(p)
    BY <1>18, <2>2 DEF Fault, DbError, Handler, AfterRaise
  <2>3. QED
    BY <2>1, <2>2
<1>19. ASSUME NEW p \in Procs, Reject(p) PROVE JobInv'
  <2>1. CASE Die(p)
    BY <1>19, <2>1 DEF Reject, DbError, Die, Forget
  <2>2. CASE ~Die(p)
    BY <1>19, <2>2 DEF Reject, DbError, Handler, AfterRaise
  <2>3. QED
    BY <2>1, <2>2
<1>20. ASSUME NEW w \in Loopers, ReapCheck(w) PROVE JobInv'
  BY <1>20 DEF ReapCheck
<1>21. ASSUME NEW w \in Loopers, ProbeIdleLock(w) PROVE JobInv'
  BY <1>21 DEF ProbeIdleLock
<1>22. ASSUME NEW w \in Loopers, ReapRuns(w) PROVE JobInv'
  BY <1>22 DEF ReapRuns, Abandoned, Running
<1>23. ASSUME NEW w \in Loopers, ReapJobsRead(w) PROVE JobInv'
  BY <1>23 DEF ReapJobsRead
<1>24. ASSUME NEW w \in Loopers, ReapJobsWrite(w) PROVE JobInv'
  BY <1>24 DEF ReapJobsWrite, Touched
<1>25. ASSUME NEW w \in Loopers, ProbeRelease(w) PROVE JobInv'
  BY <1>25 DEF ProbeRelease, Unlocked
<1>26. ASSUME NEW w \in Loopers, AutoGate(w) PROVE JobInv'
  BY <1>26 DEF AutoGate, AfterAuto
<1>27. ASSUME NEW w \in Loopers, AutoCheckTenant(w) PROVE JobInv'
  BY <1>27 DEF AutoCheckTenant, AfterAuto
<1>28. ASSUME NEW w \in Loopers, AutoEnqueue(w) PROVE JobInv'
  <2>1. CASE InsertJob(pick[w], TRUE)
    BY <1>28, <2>1 DEF AutoEnqueue, InsertJob, NewJob
  <2>2. CASE UNCHANGED jobs
    BY <1>28, <2>2 DEF AutoEnqueue
  <2>3. QED
    BY <1>28, <2>1, <2>2 DEF AutoEnqueue
<1>29. ASSUME NEW w \in Loopers, SweepRuns(w) PROVE JobInv'
  BY <1>29 DEF SweepRuns, SweepGate
<1>30. ASSUME NEW w \in Loopers, PurgeOldRuns(w) PROVE JobInv'
  BY <1>30 DEF PurgeOldRuns, GoneRun
<1>31. ASSUME NEW w \in Loopers, SweepJobs(w) PROVE JobInv'
  BY <1>31 DEF SweepJobs, SweepGate
<1>32. ASSUME NEW w \in Loopers, PurgeOldJobs(w) PROVE JobInv'
  BY <1>32 DEF PurgeOldJobs, PurgeableJobs, LatestOfTenant, JobsOf, GoneJob
<1>33. ASSUME NEW c \in Clis, StartCli(c) PROVE JobInv'
  BY <1>33 DEF StartCli
<1>34. CASE Tick
  <2>1. /\ UNCHANGED <<pc, job, run>>
        /\ \A r \in RunIds : runs'[r].status = runs[r].status
        /\ \A j \in JobIds : /\ jobs'[j].status = jobs[j].status /\ jobs'[j].tenant = jobs[j].tenant
                             /\ jobs'[j].run = jobs[j].run
                             /\ jobs'[j].requested = NULL <=> jobs[j].requested = NULL
    BY <1>34 DEF Tick, Aged, Older
  <2>2. \A j \in JobIds : j \in UsedJobs' <=> j \in UsedJobs
    BY <2>1
  <2>3. \A w \in Workers : pc'[w] = "gate" => jobs'[job'[w]].tenant = NULL
    BY <2>1
  <2>4. NewestJobsKept'
    BY <2>1, <2>2
  <2>5. \A j \in JobIds : jobs[j].run # NULL => jobs[j].run \in RunIds
    OBVIOUS
  <2>6. NoDanglingRun'
    <3>1. SUFFICES ASSUME NEW j \in JobIds, jobs'[j].run # NULL
                   PROVE  runs'[jobs'[j].run].status # "none"
      OBVIOUS
    <3>2. jobs'[j].run = jobs[j].run
      BY <2>1
    <3>3. runs'[jobs[j].run].status = runs[jobs[j].run].status
      BY <2>1, <2>5, <3>1, <3>2
    <3>4. QED
      BY <3>1, <3>2, <3>3
  <2>7. JobHasOneOwner'
    BY <2>1
  <2>8. \A j \in JobIds : jobs'[j].status # "none" => j \in UsedJobs'
    BY <2>1, <2>2
  <2>9. \A w \in Workers : OwnJob(w)'
    BY <2>1, <2>2
  <2>10. QED
    BY <2>3, <2>4, <2>6, <2>7, <2>8, <2>9
<1>35. CASE UNCHANGED vars
  BY <1>35 DEF vars
<1>36. QED
  BY <1>1, <1>2, <1>3, <1>4, <1>5, <1>6, <1>7, <1>8, <1>9, <1>10, <1>11, <1>12, <1>13, <1>14,
     <1>15, <1>16, <1>17, <1>18, <1>19, <1>20, <1>21, <1>22, <1>23, <1>24, <1>25, <1>26,
     <1>27, <1>28, <1>29, <1>30, <1>31, <1>32, <1>33, <1>34, <1>35
     DEF Next, WorkerStep, SyncStep, IdleStep

\* At first there is no job.
LEMMA JobInit == Init => JobInv
  BY DEF Init, JobInv, OwnJob, JobHasOneOwner, NoDanglingRun, NewestJobsKept, UsedJobs, NoJob,
         Procs, Workers

\* The inductive invariant: each layer is kept with the help of those below.
LEMMA Invariant == Spec => []IInv
<1>1. Init => IInv
  BY TypeInit, LockInit, RunInit, JobInit DEF IInv
<1>2. IInv /\ [Next]_vars => IInv'
  BY TypeStep, LockStep, RunStep, JobStep DEF IInv
<1>3. QED
  BY <1>1, <1>2, PTL DEF Spec

\* The advisory lock excludes: a process is inside run_sync_job, or probes for
\* orphans, exactly while it holds the lock.
THEOREM LockExcludes == Spec => []LockInv
  BY Invariant, PTL DEF IInv

\* At most one run is 'running', for any number of workers, runs of main.py and
\* crashes.
THEOREM RunsExclusive == Spec => []OneRunningRun
<1>1. IInv => OneRunningRun
  BY DEF IInv, RunInv
<1>2. QED
  BY <1>1, Invariant, PTL

\* The run of a live sync is closed by nobody else.
THEOREM LiveRunsKept == Spec => []LiveRunStaysOpen
<1>1. IInv => LiveRunStaysOpen
  BY DEF IInv, TypeInv, OwnerKnown, RunInv, LiveRunStaysOpen, OwnRun, Running, RunPoints
<1>2. QED
  BY <1>1, Invariant, PTL

\* No job has two owners.
THEOREM JobsOwnedOnce == Spec => []JobHasOneOwner
<1>1. IInv => JobHasOneOwner
  BY DEF IInv, JobInv
<1>2. QED
  BY <1>1, Invariant, PTL

\* No job names a deleted run, for any retention settings.
THEOREM ReferencesKept == Spec => []NoDanglingRun
<1>1. IInv => NoDanglingRun
  BY DEF IInv, JobInv
<1>2. QED
  BY <1>1, Invariant, PTL

\* Retention spares the newest run and the newest job of every tenant.
THEOREM NewestKept == Spec => []NewestRowsKept
<1>1. IInv => NewestRowsKept
  BY DEF IInv, RunInv, NewestRunKept, JobInv, NewestJobsKept, NewestRowsKept, IsMax
<1>2. QED
  BY <1>1, Invariant, PTL

-----------------------------------------------------------------------------
(* Steps.                                                                  *)

\* What LiveJobUntouched says of one step.
KeepsLiveJobs ==
  \A w \in Workers :
    (/\ lock = w /\ pc[w] \in SyncPoints /\ pc'[w] = pc[w]
     /\ job[w] # NULL /\ jobs[job[w]].status = "running")
      => jobs'[job[w]].status = "running"

\* The claim and the hand-back concern the jobs of their own worker, and the
\* reaper's write needs the lock.
LEMMA LiveJobStep == TypeInv /\ LockInv /\ JobInv /\ [Next]_vars => KeepsLiveJobs
<1> SUFFICES ASSUME TypeInv, LockInv, JobInv, [Next]_vars PROVE KeepsLiveJobs
  OBVIOUS
<1>0. /\ jobs \in [JobIds -> JobRow] /\ pc \in [Procs -> Points]
      /\ job \in [Procs -> JobIds \cup {NULL}]
      /\ \A w \in Workers : pc[w] \in JobPoints \cup SyncPoints => job[w] \in JobIds
      /\ \A w \in Workers : job[w] # NULL => job[w] \in UsedJobs
      /\ JobHasOneOwner
      /\ Workers \subseteq Procs /\ Loopers \subseteq Workers
      /\ JobIds \subseteq Nat
  BY ConstantsAssumption DEF TypeInv, TypeOK, OwnerKnown, JobInv, OwnJob, Procs, Workers, JobIds
<1> USE <1>0 DEF KeepsLiveJobs, LockInv, JobHasOneOwner, UsedJobs, SyncPoints, ProbePoints, JobPoints,
      Goto, At, tables, locals, bounds
<1>1. ASSUME NEW t \in Tenants \cup {NULL}, ApiEnqueue(t) PROVE KeepsLiveJobs
  BY <1>1 DEF ApiEnqueue, InsertJob, NewJob
<1>2. ASSUME NEW w \in Workers, PollPreCheck(w) PROVE KeepsLiveJobs
  BY <1>2 DEF PollPreCheck
<1>3. ASSUME NEW w \in Workers, ClaimNextJob(w) PROVE KeepsLiveJobs
  BY <1>3 DEF ClaimNextJob, IsMin, Queued
<1>4. ASSUME NEW w \in Workers, ReleaseJobToQueue(w) PROVE KeepsLiveJobs
  BY <1>4 DEF ReleaseJobToQueue
<1>5. ASSUME NEW w \in Workers, FinishJob(w) PROVE KeepsLiveJobs
  BY <1>5 DEF FinishJob, Forget, Touched
<1>6. ASSUME NEW w \in Workers, FailJob(w) PROVE KeepsLiveJobs
  BY <1>6 DEF FailJob, Forget, Touched
<1>7. ASSUME NEW w \in Workers, StartWorker(w) PROVE KeepsLiveJobs
  BY <1>7 DEF StartWorker
<1>8. ASSUME NEW p \in Procs, AcquireLock(p) PROVE KeepsLiveJobs
  BY <1>8 DEF AcquireLock
<1>9. ASSUME NEW p \in Procs, CleanupStaleRuns(p) PROVE KeepsLiveJobs
  BY <1>9 DEF CleanupStaleRuns
<1>10. ASSUME NEW p \in Procs, CreateRun(p) PROVE KeepsLiveJobs
  BY <1>10 DEF CreateRun
<1>11. ASSUME NEW p \in Procs, Execute(p) PROVE KeepsLiveJobs
  BY <1>11 DEF Execute
<1>12. ASSUME NEW p \in Procs, FinishRun(p) PROVE KeepsLiveJobs
  BY <1>12 DEF FinishRun
<1>13. ASSUME NEW p \in Procs, SetLastSuccessful(p) PROVE KeepsLiveJobs
  BY <1>13 DEF SetLastSuccessful
<1>14. ASSUME NEW p \in Procs, SetLastUnscoped(p) PROVE KeepsLiveJobs
  BY <1>14 DEF SetLastUnscoped
<1>15. ASSUME NEW p \in Procs, FinishRunFailed(p) PROVE KeepsLiveJobs
  BY <1>15 DEF FinishRunFailed
<1>16. ASSUME NEW p \in Procs, ReleaseLock(p) PROVE KeepsLiveJobs
  BY <1>16 DEF ReleaseLock
<1>17. ASSUME NEW p \in Procs, Crash(p) PROVE KeepsLiveJobs
  BY <1>17 DEF Crash
<1>18. ASSUME NEW p \in Procs, Fault(p) PROVE KeepsLiveJobs
  BY <1>18 DEF Fault, DbError
<1>19. ASSUME NEW p \in Procs, Reject(p) PROVE KeepsLiveJobs
  BY <1>19 DEF Reject, DbError
<1>20. ASSUME NEW w \in Loopers, ReapCheck(w) PROVE KeepsLiveJobs
  BY <1>20 DEF ReapCheck
<1>21. ASSUME NEW w \in Loopers, ProbeIdleLock(w) PROVE KeepsLiveJobs
  BY <1>21 DEF ProbeIdleLock
<1>22. ASSUME NEW w \in Loopers, ReapRuns(w) PROVE KeepsLiveJobs
  BY <1>22 DEF ReapRuns
<1>23. ASSUME NEW w \in Loopers, ReapJobsRead(w) PROVE KeepsLiveJobs
  BY <1>23 DEF ReapJobsRead
<1>24. ASSUME NEW w \in Loopers, ReapJobsWrite(w) PROVE KeepsLiveJobs
  BY <1>24 DEF ReapJobsWrite, Touched
<1>25. ASSUME NEW w \in Loopers, ProbeRelease(w) PROVE KeepsLiveJobs
  BY <1>25 DEF ProbeRelease
<1>26. ASSUME NEW w \in Loopers, AutoGate(w) PROVE KeepsLiveJobs
  BY <1>26 DEF AutoGate
<1>27. ASSUME NEW w \in Loopers, AutoCheckTenant(w) PROVE KeepsLiveJobs
  BY <1>27 DEF AutoCheckTenant
<1>28. ASSUME NEW w \in Loopers, AutoEnqueue(w) PROVE KeepsLiveJobs
  <2>1. CASE InsertJob(pick[w], TRUE)
    BY <1>28, <2>1 DEF AutoEnqueue, InsertJob, NewJob
  <2>2. CASE UNCHANGED jobs
    BY <1>28, <2>2 DEF AutoEnqueue
  <2>3. QED
    BY <1>28, <2>1, <2>2 DEF AutoEnqueue
<1>29. ASSUME NEW w \in Loopers, SweepRuns(w) PROVE KeepsLiveJobs
  BY <1>29 DEF SweepRuns, SweepGate
<1>30. ASSUME NEW w \in Loopers, PurgeOldRuns(w) PROVE KeepsLiveJobs
  BY <1>30 DEF PurgeOldRuns
<1>31. ASSUME NEW w \in Loopers, SweepJobs(w) PROVE KeepsLiveJobs
  BY <1>31 DEF SweepJobs, SweepGate
<1>32. ASSUME NEW w \in Loopers, PurgeOldJobs(w) PROVE KeepsLiveJobs
  BY <1>32 DEF PurgeOldJobs, PurgeableJobs
<1>33. ASSUME NEW c \in Clis, StartCli(c) PROVE KeepsLiveJobs
  BY <1>33 DEF StartCli
<1>34. CASE Tick
  BY <1>34 DEF Tick, Aged
<1>35. CASE UNCHANGED vars
  BY <1>35 DEF vars
<1>36. QED
  BY <1>1, <1>2, <1>3, <1>4, <1>5, <1>6, <1>7, <1>8, <1>9, <1>10, <1>11, <1>12, <1>13, <1>14,
     <1>15, <1>16, <1>17, <1>18, <1>19, <1>20, <1>21, <1>22, <1>23, <1>24, <1>25, <1>26,
     <1>27, <1>28, <1>29, <1>30, <1>31, <1>32, <1>33, <1>34, <1>35
     DEF Next, WorkerStep, SyncStep, IdleStep

\* While a worker holds the lock for its job, that job stays 'running' until
\* the worker itself moves on.
THEOREM LiveJobsKept == Spec => LiveJobUntouched
<1>1. IInv /\ [Next]_vars => [KeepsLiveJobs]_vars
  BY LiveJobStep DEF IInv
<1>2. QED
  BY <1>1, Invariant, PTL DEF Spec, LiveJobUntouched, KeepsLiveJobs

\* What ActiveJobsNotDeleted says of one step.
KeepsActiveJobs == \A j \in ActiveJobs : jobs'[j].status # "none"

\* Only the retention sweep deletes, and it picks closed rows.
LEMMA ActiveJobStep == TypeInv /\ JobInv /\ [Next]_vars => KeepsActiveJobs
<1> SUFFICES ASSUME TypeInv, JobInv, [Next]_vars PROVE KeepsActiveJobs
  OBVIOUS
<1>0. /\ jobs \in [JobIds -> JobRow]
      /\ \A p \in Procs : pc[p] \in {"finish", "success", "gate", "unlock", "finishJob"}
                            => res[p] \in {"success", "failed"}
      /\ \A w \in Workers : pc[w] \in JobPoints \cup SyncPoints => job[w] \in JobIds
      /\ \A j \in JobIds : jobs[j].status # "none" => j \in UsedJobs
      /\ Workers \subseteq Procs /\ Loopers \subseteq Workers /\ JobIds \subseteq Nat
  BY ConstantsAssumption DEF TypeInv, TypeOK, ResultKnown, OwnerKnown, JobInv, Procs, Workers, JobIds
<1> USE <1>0 DEF KeepsActiveJobs, ActiveJobs, UsedJobs, JobRow, SyncPoints, JobPoints, Goto, At, tables,
      locals, bounds
<1>1. ASSUME NEW t \in Tenants \cup {NULL}, ApiEnqueue(t) PROVE KeepsActiveJobs
  BY <1>1 DEF ApiEnqueue, InsertJob, NewJob
<1>2. ASSUME NEW w \in Workers, PollPreCheck(w) PROVE KeepsActiveJobs
  BY <1>2 DEF PollPreCheck
<1>3. ASSUME NEW w \in Workers, ClaimNextJob(w) PROVE KeepsActiveJobs
  BY <1>3 DEF ClaimNextJob, Touched
<1>4. ASSUME NEW w \in Workers, ReleaseJobToQueue(w) PROVE KeepsActiveJobs
  BY <1>4 DEF ReleaseJobToQueue
<1>5. ASSUME NEW w \in Workers, FinishJob(w) PROVE KeepsActiveJobs
  BY <1>5 DEF FinishJob, Touched
<1>6. ASSUME NEW w \in Workers, FailJob(w) PROVE KeepsActiveJobs
  BY <1>6 DEF FailJob, Touched
<1>7. ASSUME NEW w \in Workers, StartWorker(w) PROVE KeepsActiveJobs
  BY <1>7 DEF StartWorker
<1>8. ASSUME NEW p \in Procs, AcquireLock(p) PROVE KeepsActiveJobs
  BY <1>8 DEF AcquireLock
<1>9. ASSUME NEW p \in Procs, CleanupStaleRuns(p) PROVE KeepsActiveJobs
  BY <1>9 DEF CleanupStaleRuns
<1>10. ASSUME NEW p \in Procs, CreateRun(p) PROVE KeepsActiveJobs
  BY <1>10 DEF CreateRun
<1>11. ASSUME NEW p \in Procs, Execute(p) PROVE KeepsActiveJobs
  BY <1>11 DEF Execute
<1>12. ASSUME NEW p \in Procs, FinishRun(p) PROVE KeepsActiveJobs
  BY <1>12 DEF FinishRun
<1>13. ASSUME NEW p \in Procs, SetLastSuccessful(p) PROVE KeepsActiveJobs
  BY <1>13 DEF SetLastSuccessful
<1>14. ASSUME NEW p \in Procs, SetLastUnscoped(p) PROVE KeepsActiveJobs
  BY <1>14 DEF SetLastUnscoped
<1>15. ASSUME NEW p \in Procs, FinishRunFailed(p) PROVE KeepsActiveJobs
  BY <1>15 DEF FinishRunFailed
<1>16. ASSUME NEW p \in Procs, ReleaseLock(p) PROVE KeepsActiveJobs
  BY <1>16 DEF ReleaseLock
<1>17. ASSUME NEW p \in Procs, Crash(p) PROVE KeepsActiveJobs
  BY <1>17 DEF Crash
<1>18. ASSUME NEW p \in Procs, Fault(p) PROVE KeepsActiveJobs
  BY <1>18 DEF Fault, DbError
<1>19. ASSUME NEW p \in Procs, Reject(p) PROVE KeepsActiveJobs
  BY <1>19 DEF Reject, DbError
<1>20. ASSUME NEW w \in Loopers, ReapCheck(w) PROVE KeepsActiveJobs
  BY <1>20 DEF ReapCheck
<1>21. ASSUME NEW w \in Loopers, ProbeIdleLock(w) PROVE KeepsActiveJobs
  BY <1>21 DEF ProbeIdleLock
<1>22. ASSUME NEW w \in Loopers, ReapRuns(w) PROVE KeepsActiveJobs
  BY <1>22 DEF ReapRuns
<1>23. ASSUME NEW w \in Loopers, ReapJobsRead(w) PROVE KeepsActiveJobs
  BY <1>23 DEF ReapJobsRead
<1>24. ASSUME NEW w \in Loopers, ReapJobsWrite(w) PROVE KeepsActiveJobs
  BY <1>24 DEF ReapJobsWrite, Touched
<1>25. ASSUME NEW w \in Loopers, ProbeRelease(w) PROVE KeepsActiveJobs
  BY <1>25 DEF ProbeRelease
<1>26. ASSUME NEW w \in Loopers, AutoGate(w) PROVE KeepsActiveJobs
  BY <1>26 DEF AutoGate
<1>27. ASSUME NEW w \in Loopers, AutoCheckTenant(w) PROVE KeepsActiveJobs
  BY <1>27 DEF AutoCheckTenant
<1>28. ASSUME NEW w \in Loopers, AutoEnqueue(w) PROVE KeepsActiveJobs
  <2>1. CASE InsertJob(pick[w], TRUE)
    BY <1>28, <2>1 DEF AutoEnqueue, InsertJob, NewJob
  <2>2. CASE UNCHANGED jobs
    BY <1>28, <2>2 DEF AutoEnqueue
  <2>3. QED
    BY <1>28, <2>1, <2>2 DEF AutoEnqueue
<1>29. ASSUME NEW w \in Loopers, SweepRuns(w) PROVE KeepsActiveJobs
  BY <1>29 DEF SweepRuns, SweepGate
<1>30. ASSUME NEW w \in Loopers, PurgeOldRuns(w) PROVE KeepsActiveJobs
  BY <1>30 DEF PurgeOldRuns
<1>31. ASSUME NEW w \in Loopers, SweepJobs(w) PROVE KeepsActiveJobs
  BY <1>31 DEF SweepJobs, SweepGate
<1>32. ASSUME NEW w \in Loopers, PurgeOldJobs(w) PROVE KeepsActiveJobs
  BY <1>32 DEF PurgeOldJobs, PurgeableJobs
<1>33. ASSUME NEW c \in Clis, StartCli(c) PROVE KeepsActiveJobs
  BY <1>33 DEF StartCli
<1>34. CASE Tick
  BY <1>34 DEF Tick, Aged
<1>35. CASE UNCHANGED vars
  BY <1>35 DEF vars
<1>36. QED
  BY <1>1, <1>2, <1>3, <1>4, <1>5, <1>6, <1>7, <1>8, <1>9, <1>10, <1>11, <1>12, <1>13, <1>14,
     <1>15, <1>16, <1>17, <1>18, <1>19, <1>20, <1>21, <1>22, <1>23, <1>24, <1>25, <1>26,
     <1>27, <1>28, <1>29, <1>30, <1>31, <1>32, <1>33, <1>34, <1>35
     DEF Next, WorkerStep, SyncStep, IdleStep

\* Retention never deletes a queued or running job.
THEOREM ActiveJobsKept == Spec => ActiveJobsNotDeleted
<1>1. IInv /\ [Next]_vars => [KeepsActiveJobs]_vars
  BY ActiveJobStep DEF IInv
<1>2. QED
  BY <1>1, Invariant, PTL DEF Spec, ActiveJobsNotDeleted, KeepsActiveJobs

\* What GateArmedByUnscopedSuccess says of one step.
ArmsGateTruthfully ==
  state'["last_unscoped_sync_at"] = 0 /\ state["last_unscoped_sync_at"] # 0 =>
    \E p \in Procs : /\ lock = p /\ ~Scoped(p)
                     /\ runs[run[p]].status = "success"

\* The gate's key is written at one point, reached with the lock held, the run
\* recorded as a success and a job over every tenant.
LEMMA GateStep == TypeInv /\ LockInv /\ RunInv /\ JobInv /\ [Next]_vars => ArmsGateTruthfully
<1> SUFFICES ASSUME TypeInv, LockInv, RunInv, JobInv, [Next]_vars PROVE ArmsGateTruthfully
  OBVIOUS
<1>0. /\ state \in [StateKeys -> Nat \cup {NULL}]
      /\ \A p \in Procs : pc[p] = "gate" => lock = p /\ runs[run[p]].status = "success"
      /\ \A w \in Workers : pc[w] = "gate" => jobs[job[w]].tenant = NULL
      /\ NULL \notin Nat /\ Loopers \subseteq Procs
      /\ "last_unscoped_sync_at" \in StateKeys
  BY ConstantsAssumption
     DEF ConstantsAssumption, TypeInv, TypeOK, LockInv, RunInv, OwnRun, JobInv, SyncPoints, StateKeys,
         Procs, Workers
<1> USE <1>0 DEF ArmsGateTruthfully, Goto, At, tables, locals, bounds
<1>1. ASSUME NEW t \in Tenants \cup {NULL}, ApiEnqueue(t) PROVE ArmsGateTruthfully
  BY <1>1 DEF ApiEnqueue
<1>2. ASSUME NEW w \in Workers, PollPreCheck(w) PROVE ArmsGateTruthfully
  BY <1>2 DEF PollPreCheck
<1>3. ASSUME NEW w \in Workers, ClaimNextJob(w) PROVE ArmsGateTruthfully
  BY <1>3 DEF ClaimNextJob
<1>4. ASSUME NEW w \in Workers, ReleaseJobToQueue(w) PROVE ArmsGateTruthfully
  BY <1>4 DEF ReleaseJobToQueue
<1>5. ASSUME NEW w \in Workers, FinishJob(w) PROVE ArmsGateTruthfully
  BY <1>5 DEF FinishJob
<1>6. ASSUME NEW w \in Workers, FailJob(w) PROVE ArmsGateTruthfully
  BY <1>6 DEF FailJob
<1>7. ASSUME NEW w \in Workers, StartWorker(w) PROVE ArmsGateTruthfully
  BY <1>7 DEF StartWorker
<1>8. ASSUME NEW p \in Procs, AcquireLock(p) PROVE ArmsGateTruthfully
  BY <1>8 DEF AcquireLock
<1>9. ASSUME NEW p \in Procs, CleanupStaleRuns(p) PROVE ArmsGateTruthfully
  BY <1>9 DEF CleanupStaleRuns
<1>10. ASSUME NEW p \in Procs, CreateRun(p) PROVE ArmsGateTruthfully
  BY <1>10 DEF CreateRun
<1>11. ASSUME NEW p \in Procs, Execute(p) PROVE ArmsGateTruthfully
  BY <1>11 DEF Execute
<1>12. ASSUME NEW p \in Procs, FinishRun(p) PROVE ArmsGateTruthfully
  BY <1>12 DEF FinishRun
<1>13. ASSUME NEW p \in Procs, SetLastSuccessful(p) PROVE ArmsGateTruthfully
  BY <1>13 DEF SetLastSuccessful
<1>14. ASSUME NEW p \in Procs, SetLastUnscoped(p) PROVE ArmsGateTruthfully
  BY <1>14 DEF SetLastUnscoped, Scoped
<1>15. ASSUME NEW p \in Procs, FinishRunFailed(p) PROVE ArmsGateTruthfully
  BY <1>15 DEF FinishRunFailed
<1>16. ASSUME NEW p \in Procs, ReleaseLock(p) PROVE ArmsGateTruthfully
  BY <1>16 DEF ReleaseLock
<1>17. ASSUME NEW p \in Procs, Crash(p) PROVE ArmsGateTruthfully
  BY <1>17 DEF Crash
<1>18. ASSUME NEW p \in Procs, Fault(p) PROVE ArmsGateTruthfully
  <2>1. state' = state
    BY <1>18 DEF Fault, DbError
  <2>2. QED
    BY <2>1
<1>19. ASSUME NEW p \in Procs, Reject(p) PROVE ArmsGateTruthfully
  <2>1. state' = state
    BY <1>19 DEF Reject, DbError
  <2>2. QED
    BY <2>1
<1>20. ASSUME NEW w \in Loopers, ReapCheck(w) PROVE ArmsGateTruthfully
  BY <1>20 DEF ReapCheck
<1>21. ASSUME NEW w \in Loopers, ProbeIdleLock(w) PROVE ArmsGateTruthfully
  BY <1>21 DEF ProbeIdleLock
<1>22. ASSUME NEW w \in Loopers, ReapRuns(w) PROVE ArmsGateTruthfully
  BY <1>22 DEF ReapRuns
<1>23. ASSUME NEW w \in Loopers, ReapJobsRead(w) PROVE ArmsGateTruthfully
  BY <1>23 DEF ReapJobsRead
<1>24. ASSUME NEW w \in Loopers, ReapJobsWrite(w) PROVE ArmsGateTruthfully
  BY <1>24 DEF ReapJobsWrite
<1>25. ASSUME NEW w \in Loopers, ProbeRelease(w) PROVE ArmsGateTruthfully
  BY <1>25 DEF ProbeRelease
<1>26. ASSUME NEW w \in Loopers, AutoGate(w) PROVE ArmsGateTruthfully
  BY <1>26 DEF AutoGate
<1>27. ASSUME NEW w \in Loopers, AutoCheckTenant(w) PROVE ArmsGateTruthfully
  BY <1>27 DEF AutoCheckTenant
<1>28. ASSUME NEW w \in Loopers, AutoEnqueue(w) PROVE ArmsGateTruthfully
  BY <1>28 DEF AutoEnqueue
<1>29. ASSUME NEW w \in Loopers, SweepRuns(w) PROVE ArmsGateTruthfully
  BY <1>29 DEF SweepRuns, SweepGate
<1>30. ASSUME NEW w \in Loopers, PurgeOldRuns(w) PROVE ArmsGateTruthfully
  BY <1>30 DEF PurgeOldRuns
<1>31. ASSUME NEW w \in Loopers, SweepJobs(w) PROVE ArmsGateTruthfully
  BY <1>31 DEF SweepJobs, SweepGate
<1>32. ASSUME NEW w \in Loopers, PurgeOldJobs(w) PROVE ArmsGateTruthfully
  BY <1>32 DEF PurgeOldJobs
<1>33. ASSUME NEW c \in Clis, StartCli(c) PROVE ArmsGateTruthfully
  BY <1>33 DEF StartCli
<1>34. CASE Tick
  BY <1>34 DEF Tick, Older, KeyLimit
<1>35. CASE UNCHANGED vars
  BY <1>35 DEF vars
<1>36. QED
  BY <1>1, <1>2, <1>3, <1>4, <1>5, <1>6, <1>7, <1>8, <1>9, <1>10, <1>11, <1>12, <1>13, <1>14,
     <1>15, <1>16, <1>17, <1>18, <1>19, <1>20, <1>21, <1>22, <1>23, <1>24, <1>25, <1>26,
     <1>27, <1>28, <1>29, <1>30, <1>31, <1>32, <1>33, <1>34, <1>35
     DEF Next, WorkerStep, SyncStep, IdleStep

\* The auto-enqueue gate is armed only by a successful run over every tenant.
THEOREM GateTruthful == Spec => GateArmedByUnscopedSuccess
<1>1. IInv /\ [Next]_vars => [ArmsGateTruthfully]_vars
  BY GateStep DEF IInv
<1>2. QED
  BY <1>1, Invariant, PTL DEF Spec, GateArmedByUnscopedSuccess, ArmsGateTruthfully

-----------------------------------------------------------------------------
(* The ledger.  Where the docker worker is the only worker, or nothing but *)
(* --once runs, its reaper meets no job that another worker still owns.    *)

OneReaper == \A v \in Loopers, w \in Workers : v = w

\* A job belongs to its worker from the claim to the end of its run, and is
\* running all that time; what a reaper has read is still running.
OwnInv ==
  /\ \A w \in Workers : job[w] # NULL => /\ pc[w] \in JobPoints \cup SyncPoints
                                         /\ jobs[job[w]].status = "running"
  /\ \A w \in Loopers : pc[w] = "reapWrite" => \A j \in stale[w] : jobs[j].status = "running"

\* Nobody owns a job at first.
LEMMA OwnInit == Init => OwnInv
  BY ConstantsAssumption DEF ConstantsAssumption, Init, OwnInv, Workers, Procs

\* Nothing but its owner moves a job that is owned: the only process that could,
\* a reaper, is that owner.
LEMMA OwnStep == OneReaper /\ TypeInv /\ LockInv /\ JobInv /\ OwnInv /\ [Next]_vars => OwnInv'
<1> SUFFICES ASSUME OneReaper, TypeInv, LockInv, JobInv, OwnInv, [Next]_vars PROVE OwnInv'
  OBVIOUS
<1>0. /\ jobs \in [JobIds -> JobRow] /\ pc \in [Procs -> Points] /\ NULL \notin JobIds
      /\ job \in [Procs -> JobIds \cup {NULL}] /\ stale \in [Procs -> SUBSET JobIds]
      /\ \A w \in Workers : pc[w] \in JobPoints \cup SyncPoints => job[w] \in JobIds
      /\ \A w \in Workers : OwnJob(w)
      /\ \A j \in JobIds : jobs[j].status # "none" => j \in UsedJobs
      /\ JobHasOneOwner
      /\ Workers \subseteq Procs /\ Loopers \subseteq Workers /\ Clis \cap Workers = {}
      /\ Procs = Workers \cup Clis
      /\ OneReaper /\ OwnInv /\ JobIds \subseteq Nat
  BY ConstantsAssumption DEF ConstantsAssumption, TypeInv, TypeOK, OwnerKnown, JobInv, Procs, Workers, JobIds
<1> USE <1>0 DEF SyncPoints, ProbePoints, JobPoints, IdlePoints, Points, Goto, At, tables, locals, bounds,
      OwnInv, JobHasOneOwner
<1>1. ASSUME NEW t \in Tenants \cup {NULL}, ApiEnqueue(t) PROVE OwnInv'
  BY <1>1 DEF ApiEnqueue, InsertJob, NewJob, OwnJob, UsedJobs
<1>2. ASSUME NEW w \in Workers, PollPreCheck(w) \/ StartWorker(w) PROVE OwnInv'
  BY <1>2 DEF PollPreCheck, StartWorker, AfterNothing
<1>3. ASSUME NEW w \in Workers, ClaimNextJob(w) PROVE OwnInv'
  BY <1>3 DEF ClaimNextJob, AfterNothing, Queued, IsMin, Touched
<1>4. ASSUME NEW w \in Workers, ReleaseJobToQueue(w) PROVE OwnInv'
  BY <1>4 DEF ReleaseJobToQueue, AfterNothing, OneReaper
<1>5. ASSUME NEW w \in Workers, FinishJob(w) \/ FailJob(w) PROVE OwnInv'
  BY <1>5 DEF FinishJob, FailJob, Forget, Touched, OneReaper
<1>6. ASSUME NEW p \in Procs, SyncStep(p) PROVE OwnInv'
  BY <1>6 DEF SyncStep, AcquireLock, CleanupStaleRuns, CreateRun, Execute, FinishRun, SetLastSuccessful,
              SetLastUnscoped, FinishRunFailed, ReleaseLock, Forget
<1>7. ASSUME NEW p \in Procs, Crash(p) \/ Fault(p) \/ Reject(p) PROVE OwnInv'
  BY <1>7 DEF Crash, Fault, Reject, DbError, Die, Forget, Handler, AfterRaise
<1>8. ASSUME NEW w \in Loopers,
             ReapCheck(w) \/ ProbeIdleLock(w) \/ ReapRuns(w) \/ ProbeRelease(w) \/ AutoGate(w) \/ AutoCheckTenant(w)
               \/ SweepRuns(w) \/ SweepJobs(w)
      PROVE  OwnInv'
  <2>1. /\ jobs' = jobs /\ job' = job /\ stale' = stale /\ job[w] = NULL
        /\ \A p \in Procs \ {w} : pc'[p] = pc[p]
        /\ pc'[w] # "reapWrite"
    BY <1>8 DEF ReapCheck, ProbeIdleLock, ReapRuns, ProbeRelease, AutoGate, AutoCheckTenant, AfterAuto,
                SweepRuns, SweepJobs, SweepGate
  <2>2. QED
    BY <2>1
<1>9. ASSUME NEW w \in Loopers, ReapJobsRead(w) PROVE OwnInv'
  BY <1>9 DEF ReapJobsRead, StaleJobs
<1>10. ASSUME NEW w \in Loopers, ReapJobsWrite(w) PROVE OwnInv'
  BY <1>10 DEF ReapJobsWrite, OneReaper
<1>11. ASSUME NEW w \in Loopers, AutoEnqueue(w) PROVE OwnInv'
  BY <1>11 DEF AutoEnqueue, InsertJob, NewJob, OwnJob, UsedJobs
<1>12. ASSUME NEW w \in Loopers, PurgeOldRuns(w) PROVE OwnInv'
  BY <1>12 DEF PurgeOldRuns
<1>13. ASSUME NEW w \in Loopers, PurgeOldJobs(w) PROVE OwnInv'
  BY <1>13 DEF PurgeOldJobs, PurgeableJobs
<1>14. ASSUME NEW c \in Clis, StartCli(c) PROVE OwnInv'
  BY <1>14 DEF StartCli
<1>15. CASE Tick
  BY <1>15 DEF Tick, Aged
<1>16. CASE UNCHANGED vars
  BY <1>16 DEF vars
<1>17. QED
  BY <1>1, <1>2, <1>3, <1>4, <1>5, <1>6, <1>7, <1>8, <1>9, <1>10, <1>11, <1>12, <1>13, <1>14,
     <1>15, <1>16 DEF Next, WorkerStep, IdleStep

-----------------------------------------------------------------------------
(* Each step is a step of the ledger, or none.                             *)

\* A step that changes neither the status of a job nor which ids are drawn does
\* not show.
LEMMA JobsStay ==
  ASSUME \A j \in JobIds : /\ jobs'[j].status = jobs[j].status
                           /\ jobs'[j].requested = NULL <=> jobs[j].requested = NULL
  PROVE  JobStatus' = JobStatus
  BY DEF JobStatus, StatusOf, UsedJobs

\* The same for runs.
LEMMA RunsStay ==
  ASSUME \A r \in RunIds : /\ runs'[r].status = runs[r].status
                           /\ runs'[r].started = NULL <=> runs[r].started = NULL
  PROVE  RunStatus' = RunStatus
  BY DEF RunStatus, StatusOf, UsedRuns

\* A step that changes the status of the jobs S alone shows as that.
LEMMA SetsJobs ==
  ASSUME NEW S \in SUBSET JobIds, NEW status,
         \A j \in S : JobStatus'[j] = status,
         \A j \in JobIds \ S : /\ jobs'[j].status = jobs[j].status
                               /\ jobs'[j].requested = NULL <=> jobs[j].requested = NULL,
         UNCHANGED RunStatus
  PROVE  Ledger!SetJobs(S, status)
  BY DEF JobStatus, StatusOf, UsedJobs, Ledger!SetJobs

\* The same for runs.
LEMMA SetsRuns ==
  ASSUME NEW S \in SUBSET RunIds, NEW status,
         \A r \in S : RunStatus'[r] = status,
         \A r \in RunIds \ S : /\ runs'[r].status = runs[r].status
                               /\ runs'[r].started = NULL <=> runs[r].started = NULL,
         UNCHANGED JobStatus
  PROVE  Ledger!SetRuns(S, status)
  BY DEF RunStatus, StatusOf, UsedRuns, Ledger!SetRuns

\* What the ledger shows of a row.
LEMMA Shown ==
  ASSUME TypeInv, RunInv, JobInv
  PROVE  /\ \A j \in JobIds : /\ jobs[j].status # "none" => JobStatus[j] = jobs[j].status
                              /\ JobStatus[j] = "unused" <=> j \notin UsedJobs
                              /\ JobStatus[j] \in {"queued", "running", "success", "failed"}
                                   => JobStatus[j] = jobs[j].status
         /\ \A r \in RunIds : /\ runs[r].status # "none" => RunStatus[r] = runs[r].status
                              /\ RunStatus[r] = "unused" <=> r \notin UsedRuns
                              /\ RunStatus[r] \in {"running", "success", "failed", "abandoned"}
                                   => RunStatus[r] = runs[r].status
  BY DEF TypeInv, TypeOK, JobRow, RunRow, RunInv, DrawnRuns, JobInv, JobStatus, RunStatus, StatusOf

\* What the refinement asks of one step.
StepsLedger == Ledger!Next \/ UNCHANGED <<JobStatus, RunStatus>>

\* A row is inserted at the first unused id.
LEMMA Inserted ==
  ASSUME TypeInv, RunInv, JobInv, NEW t, NEW auto \in BOOLEAN, InsertJob(t, auto), UNCHANGED runs
  PROVE  StepsLedger
<1>1. PICK j \in JobIds : /\ \A k \in JobIds : k < j <=> k \in UsedJobs
                          /\ jobs' = [jobs EXCEPT ![j] = NewJob(t, auto)]
  BY DEF InsertJob
<1>2. jobs \in [JobIds -> JobRow] /\ JobIds \subseteq Nat
  BY DEF TypeInv, TypeOK, JobIds
<1>3. JobStatus'[j] = "queued"
  BY <1>1, <1>2 DEF NewJob, JobStatus, StatusOf
<1>4. Ledger!SetJobs({j}, "queued")
  <2>1. \A k \in JobIds \ {j} : jobs'[k] = jobs[k]
    BY <1>1, <1>2
  <2>2. QED
    BY <2>1, <1>3, RunsStay, SetsJobs
<1>5. Ledger!Unused(j, JobIds, Ledger!Jobs({"unused"}))
  <2>1. \A k \in JobIds : JobStatus[k] = "unused" <=> ~(k < j)
    BY <1>1, Shown
  <2>2. ~(j < j)
    BY <1>2
  <2>3. QED
    BY <2>1, <2>2 DEF Ledger!Unused, Ledger!Jobs
<1>6. Ledger!Enqueue(j)
  BY <1>4, <1>5 DEF Ledger!Enqueue
<1>7. QED
  BY <1>6 DEF StepsLedger, Ledger!Next

\* A step that writes one job sets its status, and no other.
LEMMA OneJob ==
  ASSUME TypeInv, NEW j \in JobIds, NEW row, jobs' = [jobs EXCEPT ![j] = row], row.status # "none",
         UNCHANGED runs
  PROVE  Ledger!SetJobs({j}, row.status)
<1>1. JobStatus'[j] = row.status
  BY DEF TypeInv, TypeOK, JobStatus, StatusOf
<1>2. \A k \in JobIds \ {j} : jobs'[k] = jobs[k]
  BY DEF TypeInv, TypeOK
<1>3. QED
  BY <1>1, <1>2, RunsStay, SetsJobs

\* A step that writes one run sets its status, and no other.
LEMMA OneRun ==
  ASSUME TypeInv, NEW r \in RunIds, NEW row, runs' = [runs EXCEPT ![r] = row], row.status # "none",
         UNCHANGED jobs
  PROVE  Ledger!SetRuns({r}, row.status)
<1>1. RunStatus'[r] = row.status
  BY DEF TypeInv, TypeOK, RunStatus, StatusOf
<1>2. \A q \in RunIds \ {r} : runs'[q] = runs[q]
  BY DEF TypeInv, TypeOK
<1>3. QED
  BY <1>1, <1>2, JobsStay, SetsRuns

\* A worker claims, hands back and closes.
LEMMA JobSteps ==
  ASSUME TypeInv, LockInv, RunInv, JobInv, OwnInv, NEW w \in Workers,
         ClaimNextJob(w) \/ ReleaseJobToQueue(w) \/ FinishJob(w) \/ FailJob(w)
  PROVE  StepsLedger
<1>0. /\ jobs \in [JobIds -> JobRow] /\ job \in [Procs -> JobIds \cup {NULL}] /\ w \in Procs
      /\ pc[w] \in JobPoints => job[w] \in JobIds /\ JobStatus[job[w]] = "running"
      /\ NULL \notin JobIds /\ JobIds \subseteq Nat
      /\ pc[w] = "finishJob" => res[w] \in {"success", "failed"}
  <2>1. NULL \notin JobIds /\ JobIds \subseteq Nat
    BY ConstantsAssumption DEF ConstantsAssumption, JobIds
  <2>2. /\ jobs \in [JobIds -> JobRow] /\ job \in [Procs -> JobIds \cup {NULL}] /\ w \in Procs
        /\ pc[w] \in JobPoints => job[w] \in JobIds
        /\ pc[w] = "finishJob" => res[w] \in {"success", "failed"}
    BY DEF TypeInv, TypeOK, OwnerKnown, ResultKnown, Procs, Workers
  <2>3. QED
    BY <2>1, <2>2, Shown DEF OwnInv
<1>1. CASE ClaimNextJob(w)
  <2>1. CASE UNCHANGED <<jobs, runs>>
    BY <2>1, JobsStay, RunsStay DEF StepsLedger
  <2>2. ASSUME NEW j \in JobIds, IsMin(j, Queued), runs' = runs,
               jobs' = [jobs EXCEPT ![j] = Touched(j, "running", jobs[j].run)]
        PROVE  Ledger!Claim(j)
    <3>1. Ledger!SetJobs({j}, "running")
      <4>1. Touched(j, "running", jobs[j].run).status = "running"
        BY DEF Touched
      <4>2. QED
        BY <2>2, <4>1, OneJob
    <3>2. Ledger!Jobs({"queued"}) = Queued
      BY Shown DEF Ledger!Jobs, Queued
    <3>3. QED
      BY <2>2, <3>1, <3>2 DEF Ledger!Claim, IsMin
  <2>3. QED
    BY <1>1, <2>1, <2>2 DEF ClaimNextJob, StepsLedger, Ledger!Next
<1>2. CASE ReleaseJobToQueue(w)
  <2>1. Ledger!SetJobs({job[w]}, "queued")
    <3> DEFINE row == [jobs[job[w]] EXCEPT !.status = "queued", !.run = NULL]
    <3>1. jobs' = [jobs EXCEPT ![job[w]] = row] /\ UNCHANGED runs
      BY <1>2 DEF ReleaseJobToQueue
    <3>2. job[w] \in JobIds /\ row.status = "queued"
      BY <1>0, <1>2 DEF ReleaseJobToQueue, At, JobPoints, JobRow
    <3> HIDE DEF row
    <3>3. QED
      BY <3>1, <3>2, OneJob
  <2>2. QED
    BY <1>0, <1>2, <2>1 DEF ReleaseJobToQueue, At, JobPoints, StepsLedger, Ledger!Next, Ledger!HandBack, Ledger!Jobs
<1>3. CASE FinishJob(w) \/ FailJob(w)
  <2>1. PICK status \in {"success", "failed"} : Ledger!SetJobs({job[w]}, status)
    BY <1>0, <1>3, OneJob DEF FinishJob, FailJob, Touched, At, JobPoints
  <2>2. Ledger!CloseJobs({job[w]})
    BY <1>0, <1>3, <2>1 DEF FinishJob, FailJob, At, JobPoints, Ledger!CloseJobs, Ledger!Jobs
  <2>3. QED
    BY <1>0, <1>3, <2>2 DEF FinishJob, FailJob, At, JobPoints, StepsLedger, Ledger!Next
<1>4. QED
  BY <1>1, <1>2, <1>3

\* Runs that are abandoned together: at most one of them is running.
LEMMA Abandons ==
  ASSUME TypeInv, RunInv, JobInv, runs' = Abandoned, UNCHANGED jobs
  PROVE  StepsLedger
<1>1. /\ runs \in [RunIds -> RunRow] /\ OneRunningRun
      /\ \A r \in RunIds : /\ runs'[r].started = runs[r].started
                           /\ runs'[r].status = IF r \in Running THEN "abandoned" ELSE runs[r].status
  BY DEF TypeInv, TypeOK, RunInv, Abandoned, RunRow
<1>2. CASE Running = {}
  BY <1>1, <1>2, JobsStay, RunsStay DEF StepsLedger
<1>3. ASSUME NEW r \in Running PROVE Ledger!CloseRun(r)
  <2>1. Running = {r}
    BY <1>1 DEF OneRunningRun
  <2>2. RunStatus'[r] = "abandoned"
    BY <1>1 DEF RunStatus, StatusOf, Running
  <2>3. Ledger!SetRuns({r}, "abandoned")
    BY <1>1, <2>1, <2>2, JobsStay, SetsRuns DEF Running
  <2>4. r \in Ledger!Runs({"running"})
    BY Shown DEF Ledger!Runs, Running
  <2>5. QED
    BY <2>3, <2>4 DEF Ledger!CloseRun
<1>4. QED
  BY <1>2, <1>3 DEF StepsLedger, Ledger!Next, Running

\* The holder of the lock opens a run when none is running, and closes its own.
LEMMA RunSteps ==
  ASSUME TypeInv, LockInv, RunInv, JobInv, NEW p \in Procs,
         CreateRun(p) \/ FinishRun(p) \/ FinishRunFailed(p)
  PROVE  StepsLedger
<1>0. /\ runs \in [RunIds -> RunRow] /\ OwnRun(p) /\ UNCHANGED jobs /\ RunIds \subseteq Nat
      /\ pc[p] \in RunPoints => run[p] \in RunIds
      /\ pc[p] = "finish" => res[p] \in {"success", "failed"}
  BY DEF TypeInv, TypeOK, RunInv, OwnerKnown, ResultKnown, CreateRun, FinishRun, FinishRunFailed, RunIds
<1>1. CASE CreateRun(p)
  <2>1. PICK r \in RunIds : /\ \A q \in RunIds : q < r <=> q \in UsedRuns
                            /\ runs' = [runs EXCEPT ![r] = [status |-> "running", started |-> 0]]
    BY <1>1 DEF CreateRun
  <2>2. Ledger!SetRuns({r}, "running")
    <3> DEFINE row == [status |-> "running", started |-> 0]
    <3>1. row.status = "running" /\ runs' = [runs EXCEPT ![r] = row]
      BY <2>1
    <3> HIDE DEF row
    <3>2. QED
      BY <1>0, <3>1, OneRun
  <2>3. Ledger!Unused(r, RunIds, Ledger!Runs({"unused"}))
    <3>1. \A q \in RunIds : RunStatus[q] = "unused" <=> ~(q < r)
      BY <2>1, Shown
    <3>2. ~(r < r)
      BY <1>0
    <3>3. QED
      BY <3>1, <3>2 DEF Ledger!Unused, Ledger!Runs
  <2>4. Ledger!Runs({"running"}) = {}
    BY <1>0, <1>1, Shown DEF CreateRun, At, OwnRun, Running, Ledger!Runs
  <2>5. Ledger!OpenRun(r)
    BY <2>2, <2>3, <2>4 DEF Ledger!OpenRun
  <2>6. QED
    BY <2>5 DEF StepsLedger, Ledger!Next
<1>2. CASE FinishRun(p) \/ FinishRunFailed(p)
  <2>1. /\ run[p] \in RunIds
        /\ RunStatus[run[p]] = runs[run[p]].status
        /\ runs[run[p]].status \in {"running", "success"}
        /\ Ledger!NewestRun(run[p])
    <3>1. pc[p] \in {"finish", "except"}
      BY <1>2 DEF FinishRun, FinishRunFailed, At
    <3>2. run[p] \in RunIds /\ runs[run[p]].status \in {"running", "success"} /\ IsMax(run[p], UsedRuns)
      BY <1>0, <3>1 DEF OwnRun, RunPoints
    <3>3. Ledger!NewestRun(run[p])
      <4>1. ASSUME NEW q \in RunIds, q > run[p] PROVE q \notin UsedRuns
        <5>1. q \in Nat /\ run[p] \in Nat
          BY <1>0, <3>2
        <5>2. QED
          BY <3>2, <4>1, <5>1 DEF IsMax
      <4>2. QED
        BY <4>1, Shown DEF Ledger!NewestRun
    <3>4. QED
      BY <3>2, <3>3, Shown
  <2>2. PICK status \in {"success", "failed"} :
          /\ runs' = [runs EXCEPT ![run[p]].status = status]
          /\ runs[run[p]].status = "running" \/ status = "failed"
    BY <1>0, <1>2 DEF FinishRun, FinishRunFailed, At, OwnRun
  <2>3. Ledger!SetRuns({run[p]}, status)
    <3> DEFINE row == [runs[run[p]] EXCEPT !.status = status]
    <3>1. row.status = status /\ runs' = [runs EXCEPT ![run[p]] = row]
      BY <1>0, <2>1, <2>2 DEF RunRow
    <3> HIDE DEF row
    <3>2. QED
      BY <1>0, <2>1, <3>1, OneRun
  <2>4. CASE runs[run[p]].status = "running"
    BY <2>1, <2>3, <2>4 DEF StepsLedger, Ledger!Next, Ledger!CloseRun, Ledger!Runs
  <2>5. CASE runs[run[p]].status = "success" /\ status = "failed"
    BY <2>1, <2>3, <2>5 DEF StepsLedger, Ledger!Next, Ledger!DowngradeRun, Ledger!Runs
  <2>6. QED
    BY <2>1, <2>2, <2>4, <2>5
<1>3. QED
  BY <1>1, <1>2

\* The reaper closes what it has read; retention deletes closed rows.
LEMMA SweepSteps ==
  ASSUME TypeInv, RunInv, JobInv, OwnInv, NEW w \in Loopers,
         ReapJobsWrite(w) \/ PurgeOldRuns(w) \/ PurgeOldJobs(w)
  PROVE  StepsLedger
<1>0. /\ runs \in [RunIds -> RunRow] /\ jobs \in [JobIds -> JobRow] /\ RunIds \subseteq Nat
      /\ stale[w] \subseteq JobIds /\ RunCap \in Nat /\ AutoInterval \in Nat /\ NULL \notin Nat
  BY ConstantsAssumption DEF ConstantsAssumption, TypeInv, TypeOK, RunIds, Procs, Workers
<1>1. CASE ReapJobsWrite(w)
  <2>1. /\ \A j \in stale[w] : jobs[j].status = "running"
        /\ UNCHANGED runs
        /\ \A j \in JobIds : /\ j \in stale[w] => jobs'[j].status = "failed"
                             /\ j \notin stale[w] => jobs'[j] = jobs[j]
    BY <1>1 DEF ReapJobsWrite, At, OwnInv, Touched
  <2>2. \A j \in stale[w] : JobStatus'[j] = "failed" /\ JobStatus[j] = "running"
    BY <1>0, <2>1, Shown DEF JobStatus, StatusOf
  <2>3. Ledger!SetJobs(stale[w], "failed")
    BY <1>0, <2>1, <2>2, RunsStay, SetsJobs
  <2>4. Ledger!CloseJobs(stale[w])
    BY <1>0, <2>2, <2>3 DEF Ledger!CloseJobs, Ledger!Jobs
  <2>5. QED
    BY <1>0, <2>4 DEF StepsLedger, Ledger!Next
<1>2. CASE PurgeOldJobs(w)
  <2> DEFINE gone == IF JobRetention = 0 THEN {} ELSE PurgeableJobs
  <2>1. /\ gone \subseteq JobIds
        /\ \A j \in gone : jobs[j].status \in {"success", "failed"}
    BY <1>0 DEF PurgeableJobs, JobRow
  <2>2. /\ UNCHANGED runs
        /\ \A j \in JobIds : /\ j \in gone => jobs'[j].status = "none" /\ jobs'[j].requested # NULL
                             /\ j \notin gone => jobs'[j] = jobs[j]
    BY <1>0, <1>2 DEF PurgeOldJobs, GoneJob
  <2> HIDE DEF gone
  <2>3. \A j \in gone : JobStatus'[j] = "deleted"
    BY <2>1, <2>2 DEF JobStatus, StatusOf, UsedJobs
  <2>4. Ledger!SetJobs(gone, "deleted")
    BY <2>1, <2>2, <2>3, RunsStay, SetsJobs
  <2>5. Ledger!DeleteJobs(gone)
    BY <2>1, <2>4, Shown DEF Ledger!DeleteJobs, Ledger!Jobs
  <2>6. QED
    BY <2>1, <2>5 DEF StepsLedger, Ledger!Next
<1>3. CASE PurgeOldRuns(w)
  <2> DEFINE gone == IF RunRetention = 0 THEN {} ELSE PurgeableRuns
  <2>1. /\ gone \subseteq RunIds
        /\ \A r \in gone : /\ runs[r].status \in {"success", "failed", "abandoned"}
                           /\ \E q \in RunIds : q > r /\ runs[q].status # "none"
    <3>1. ASSUME NEW r \in PurgeableRuns
          PROVE  /\ runs[r].status \in {"success", "failed", "abandoned"}
                 /\ \E q \in RunIds : q > r /\ runs[q].status # "none"
      <4>1. /\ r \in RunIds /\ runs[r].status \notin {"none", "running"}
            /\ ~IsMax(r, {q \in RunIds : runs[q].status # "none"})
        BY DEF PurgeableRuns, LatestRun
      <4>2. PICK q \in RunIds : runs[q].status # "none" /\ ~(q <= r)
        BY <4>1 DEF IsMax
      <4>3. q > r
        BY <1>0, <4>1, <4>2
      <4>4. QED
        BY <1>0, <4>1, <4>2, <4>3 DEF RunRow
    <3>2. QED
      BY <3>1 DEF PurgeableRuns
  <2>2. /\ \A r \in RunIds : /\ r \in gone => runs'[r].status = "none" /\ runs'[r].started # NULL
                             /\ r \notin gone => runs'[r] = runs[r]
        /\ \A j \in JobIds : jobs'[j].status = jobs[j].status /\ jobs'[j].requested = jobs[j].requested
    BY <1>0, <1>3 DEF PurgeOldRuns, GoneRun, JobRow
  <2> HIDE DEF gone
  <2>3. \A r \in gone : RunStatus'[r] = "deleted"
    BY <2>1, <2>2 DEF RunStatus, StatusOf, UsedRuns
  <2>4. Ledger!SetRuns(gone, "deleted")
    BY <2>1, <2>2, <2>3, JobsStay, SetsRuns
  <2>5. \A r \in gone : ~Ledger!NewestRun(r)
    BY <2>1, Shown DEF Ledger!NewestRun, RunInv, DrawnRuns
  <2>6. Ledger!DeleteRuns(gone)
    BY <2>1, <2>4, <2>5, Shown DEF Ledger!DeleteRuns, Ledger!Runs
  <2>7. QED
    BY <2>1, <2>6 DEF StepsLedger, Ledger!Next
<1>4. QED
  BY <1>1, <1>2, <1>3

\* Every commit is one step of the ledger, or none.
LEMMA LedgerStep == IInv /\ OwnInv /\ [Next]_vars => [Ledger!Next]_<<JobStatus, RunStatus>>
<1> SUFFICES ASSUME IInv, OwnInv, [Next]_vars PROVE StepsLedger
  BY DEF StepsLedger
<1> USE DEF IInv
<1>1. ASSUME UNCHANGED <<jobs, runs>> PROVE StepsLedger
  BY <1>1, JobsStay, RunsStay DEF StepsLedger
<1>2. ASSUME NEW t \in Tenants \cup {NULL}, ApiEnqueue(t) PROVE StepsLedger
  BY <1>2, Inserted DEF ApiEnqueue
<1>3. ASSUME NEW w \in Workers, WorkerStep(w) \/ StartWorker(w) PROVE StepsLedger
  BY <1>1, <1>3, JobSteps DEF WorkerStep, PollPreCheck, StartWorker, tables
<1>4. ASSUME NEW p \in Procs, SyncStep(p) PROVE StepsLedger
  BY <1>1, <1>4, RunSteps, Abandons
     DEF SyncStep, AcquireLock, CleanupStaleRuns, Execute, SetLastSuccessful, SetLastUnscoped, ReleaseLock, tables
<1>5. ASSUME NEW p \in Procs, Crash(p) \/ Fault(p) \/ Reject(p) PROVE StepsLedger
  BY <1>1, <1>5 DEF Crash, Fault, Reject, DbError
<1>6. ASSUME NEW w \in Loopers, AutoEnqueue(w) PROVE StepsLedger
  BY <1>1, <1>6, Inserted DEF AutoEnqueue
<1>7. ASSUME NEW w \in Loopers, IdleStep(w), ~AutoEnqueue(w) PROVE StepsLedger
  BY <1>1, <1>7, SweepSteps, Abandons
     DEF IdleStep, ReapCheck, ProbeIdleLock, ReapRuns, ReapJobsRead, ProbeRelease, AutoGate, AutoCheckTenant,
         SweepRuns, SweepJobs, SweepGate, tables
<1>8. ASSUME NEW c \in Clis, StartCli(c) PROVE StepsLedger
  BY <1>1, <1>8 DEF StartCli, tables
<1>9. CASE Tick
  <2>1. /\ \A j \in JobIds : /\ jobs'[j].status = jobs[j].status
                             /\ jobs'[j].requested = NULL <=> jobs[j].requested = NULL
        /\ \A r \in RunIds : /\ runs'[r].status = runs[r].status
                             /\ runs'[r].started = NULL <=> runs[r].started = NULL
    BY <1>9, ConstantsAssumption
       DEF ConstantsAssumption, Tick, Aged, Older, TypeInv, TypeOK, JobRow, RunRow
  <2>2. QED
    BY <2>1, JobsStay, RunsStay DEF StepsLedger
<1>10. CASE UNCHANGED vars
  BY <1>1, <1>10 DEF vars
<1>11. QED
  BY <1>2, <1>3, <1>4, <1>5, <1>6, <1>7, <1>8, <1>9, <1>10 DEF Next

\* The empty tables show the empty ledger.
LEMMA LedgerInit == Init => Ledger!Init
  BY DEF Init, Ledger!Init, JobStatus, RunStatus, StatusOf, UsedJobs, UsedRuns, NoJob, NoRun

\* Where no second worker owns what the reaper takes for orphaned, the queue
\* implements the ledger: across crashes, exceptions, reaping and retention, jobs
\* are claimed oldest first, one run is open at a time and what is closed stays
\* closed.
THEOREM QueueIsLedger == OneReaper => (Spec => ImplementsLedger)
<1> SUFFICES ASSUME OneReaper PROVE Spec => ImplementsLedger
  OBVIOUS
<1>1. IInv /\ OwnInv /\ [Next]_vars => OwnInv'
  BY OwnStep DEF IInv
<1>2. Spec => []OwnInv
  BY OwnInit, <1>1, Invariant, PTL DEF Spec
<1>3. QED
  BY LedgerInit, LedgerStep, <1>2, Invariant, PTL DEF Spec, ImplementsLedger, Ledger!Spec, Ledger!ledger

-----------------------------------------------------------------------------
(* The throttle of auto-enqueue.                                           *)

\* A set of natural numbers has a least element.
LEMMA LeastIn ==
  ASSUME NEW S \in SUBSET Nat, S # {}
  PROVE  \E m \in S : \A k \in S : m <= k
<1> DEFINE R == OpToRel(<, Nat)
<1>1. IsWellFoundedOn(R, Nat)
  BY NatLessThanWellFounded
<1>2. \A x \in Nat, y \in Nat : y < x => <<y, x>> \in R
  BY DEF OpToRel
<1> HIDE DEF R
<1>3. PICK x \in S : \A y \in S : ~(<<y, x>> \in R)
  BY <1>1, WFMin
<1>4. ASSUME NEW k \in S PROVE x <= k
  <2>1. x \in Nat /\ k \in Nat /\ ~(k < x)
    BY <1>2, <1>3
  <2>2. QED
    BY <2>1
<1>5. QED
  BY <1>4

\* A set of row ids has a newest one.
LEMMA Newest ==
  ASSUME NEW N \in Nat, NEW S \in SUBSET (1 .. N), S # {}
  PROVE  \E m \in S : \A k \in S : k <= m
<1> DEFINE T == {N - k : k \in S}
<1>0. S \subseteq Nat /\ \A k \in S : N - k \in Nat
  OBVIOUS
<1>1. T \in SUBSET Nat /\ T # {}
  BY <1>0
<1>2. PICK t \in T : \A u \in T : t <= u
  BY <1>1, LeastIn
<1>3. PICK m \in S : t = N - m
  OBVIOUS
<1>4. \A k \in S : N - m <= N - k
  BY <1>2, <1>3
<1>5. \A k \in S : k <= m
  BY <1>0, <1>4
<1>6. QED
  BY <1>5

\* Every automatic job of a tenant is closed and was requested long ago.
Rested(t) ==
  \A j \in UsedJobs : jobs[j].auto /\ jobs[j].tenant = t
                        => jobs[j].requested >= AutoInterval /\ j \notin ActiveJobs

\* A job is never quiet for longer than since its request.
AgesBounded ==
  \A j \in JobIds : jobs[j].status # "none" =>
    /\ jobs[j].age # NULL
    /\ jobs[j].requested = AutoInterval \/ jobs[j].age <= jobs[j].requested

\* Ids are drawn in the order of the requests.
RequestsInOrder ==
  \A j \in UsedJobs : \A k \in UsedJobs :
    j < k /\ jobs[k].status # "none" => jobs[j].requested >= jobs[k].requested

\* The tenant that a looper is about to enqueue is rested.
AgeInv ==
  /\ AgesBounded
  /\ RequestsInOrder
  /\ \A w \in Loopers : pc[w] = "autoInsert" => Rested(pick[w])

\* There are no rows at first.
LEMMA AgeInit == Init => AgeInv
  BY ConstantsAssumption
     DEF ConstantsAssumption, Init, AgeInv, AgesBounded, RequestsInOrder, UsedJobs, NoJob, Workers, Procs

\* A tenant is due only if its newest job has been quiet for an interval, and
\* then each of its jobs was requested an interval ago.
LEMMA DueIsRested ==
  ASSUME TypeInv, JobInv, AgeInv, NEW t \in Tenants, TenantDue(t)
  PROVE  Rested(t)
<1> DEFINE Mine == {j \in UsedJobs : jobs[j].tenant = t}
<1>0. /\ jobs \in [JobIds -> JobRow] /\ JobIds \subseteq Nat /\ AutoInterval \in Nat /\ JobCap \in Nat
      /\ MaxJobs \in Nat /\ NULL \notin Nat /\ Mine \subseteq UsedJobs /\ UsedJobs \subseteq JobIds
  BY ConstantsAssumption DEF ConstantsAssumption, TypeInv, TypeOK, JobIds, UsedJobs
<1>1. CASE Mine = {}
  BY <1>1 DEF Rested
<1>2. CASE Mine # {}
  <2>1. PICK m \in Mine : \A k \in Mine : k <= m
    BY <1>0, <1>2, Newest DEF JobIds
  <2>2. jobs[m].status # "none"
    BY <2>1 DEF JobInv, NewestJobsKept
  <2>3. IsMax(m, JobsOf(t))
    BY <1>0, <2>1, <2>2 DEF IsMax, JobsOf, JobInv
  <2>4. ~(jobs[m].age < AutoInterval)
    BY <1>0, <2>1, <2>3 DEF TenantDue, CoolingDown
  <2>5. jobs[m].age \in Nat /\ jobs[m].requested \in 0 .. AutoInterval
    BY <1>0, <2>1, <2>2 DEF AgeInv, AgesBounded, JobRow, UsedJobs
  <2>6. jobs[m].requested = AutoInterval
    <3>1. jobs[m].requested = AutoInterval \/ jobs[m].age <= jobs[m].requested
      BY <1>0, <2>1, <2>2 DEF AgeInv, AgesBounded
    <3>2. QED
      BY <1>0, <2>4, <2>5, <3>1
  <2>7. ASSUME NEW j \in Mine PROVE jobs[j].requested >= AutoInterval /\ j \notin ActiveJobs
    <3>1. j = m \/ j < m
      BY <1>0, <2>1
    <3>2. jobs[j].requested >= jobs[m].requested
      BY <1>0, <2>1, <2>2, <2>5, <3>1 DEF AgeInv, RequestsInOrder
    <3>3. j \notin ActiveJobs
      BY <1>0 DEF TenantDue, ActiveJobs, JobsOf
    <3>4. QED
      BY <2>6, <3>2, <3>3
  <2>8. QED
    BY <2>7 DEF Rested
<1>3. QED
  BY <1>1, <1>2

\* A row whose id is drawn has the time of its request.
LEMMA RowFacts ==
  ASSUME TypeInv
  PROVE  /\ UsedJobs \subseteq JobIds
         /\ \A j \in UsedJobs : jobs[j].requested \in 0 .. AutoInterval
<1>1. ASSUME NEW j \in UsedJobs PROVE jobs[j].requested \in 0 .. AutoInterval
  <2>1. j \in JobIds /\ jobs[j] \in JobRow /\ jobs[j].requested # NULL
    BY DEF UsedJobs, TypeInv, TypeOK
  <2>2. QED
    BY <2>1 DEF JobRow
<1>2. QED
  BY <1>1 DEF UsedJobs

\* What a step keeps of the ages when it inserts no row: it closes, claims or
\* deletes some, or time passes for all.
KeepsAges ==
  /\ UsedJobs' = UsedJobs
  /\ \A j \in JobIds : jobs'[j].status # "none" =>
       /\ jobs[j].status # "none"
       /\ jobs'[j].requested = jobs[j].requested
       /\ jobs'[j].age = jobs[j].age \/ jobs'[j].age = 0
  /\ \A j \in JobIds : jobs'[j].status = "none" /\ j \in UsedJobs =>
       jobs'[j].requested = jobs[j].requested \/ jobs'[j].requested = AutoInterval

\* Such a step keeps what is known of the ages.
LEMMA AgesKept ==
  ASSUME TypeInv, JobInv, AgeInv, KeepsAges
  PROVE  AgesBounded' /\ RequestsInOrder'
<1>0. /\ jobs \in [JobIds -> JobRow] /\ JobIds \subseteq Nat /\ AutoInterval \in Nat
      /\ NULL \notin Nat /\ UsedJobs \subseteq JobIds
      /\ \A j \in JobIds : jobs[j].status # "none" => j \in UsedJobs
      /\ \A j \in UsedJobs : jobs[j].requested \in 0 .. AutoInterval
  BY ConstantsAssumption, RowFacts DEF ConstantsAssumption, TypeInv, TypeOK, JobIds, JobInv
<1>1. AgesBounded'
  <2> SUFFICES ASSUME NEW j \in JobIds, jobs'[j].status # "none"
               PROVE  /\ jobs'[j].age # NULL
                      /\ jobs'[j].requested = AutoInterval \/ jobs'[j].age <= jobs'[j].requested
    BY DEF AgesBounded
  <2>1. /\ jobs'[j].requested = jobs[j].requested /\ jobs[j].requested \in Nat
        /\ jobs'[j].age = jobs[j].age \/ jobs'[j].age = 0
        /\ jobs[j].age # NULL
        /\ jobs[j].requested = AutoInterval \/ jobs[j].age <= jobs[j].requested
    BY <1>0 DEF KeepsAges, AgeInv, AgesBounded
  <2>2. QED
    BY <1>0, <2>1
<1>2. RequestsInOrder'
  BY <1>0 DEF KeepsAges, AgeInv, RequestsInOrder
<1>3. QED
  BY <1>1, <1>2

\* So does an insert, whose row is younger than every other.
LEMMA AgesInserted ==
  ASSUME TypeInv, JobInv, AgeInv, NEW t, NEW auto \in BOOLEAN, InsertJob(t, auto)
  PROVE  /\ AgesBounded' /\ RequestsInOrder'
         /\ \A j \in UsedJobs : jobs'[j] = jobs[j]
         /\ \A j \in UsedJobs' \ UsedJobs : jobs'[j] = NewJob(t, auto)
<1>0. /\ jobs \in [JobIds -> JobRow] /\ JobIds \subseteq Nat /\ AutoInterval \in Nat
      /\ NULL \notin Nat /\ UsedJobs \subseteq JobIds
      /\ \A j \in JobIds : jobs[j].status # "none" => j \in UsedJobs
      /\ \A j \in UsedJobs : jobs[j].requested \in 0 .. AutoInterval
  BY ConstantsAssumption, RowFacts DEF ConstantsAssumption, TypeInv, TypeOK, JobIds, JobInv
<1>1. PICK j \in JobIds : /\ \A k \in JobIds : k < j <=> k \in UsedJobs
                          /\ jobs' = [jobs EXCEPT ![j] = NewJob(t, auto)]
  BY DEF InsertJob
<1>2. /\ jobs'[j] = NewJob(t, auto) /\ \A k \in JobIds \ {j} : jobs'[k] = jobs[k]
      /\ NewJob(t, auto).requested = 0 /\ NewJob(t, auto).age = 0
      /\ j \notin UsedJobs
  BY <1>0, <1>1 DEF NewJob
<1>3. UsedJobs' = UsedJobs \cup {j}
  BY <1>0, <1>2 DEF UsedJobs
<1>4. AgesBounded'
  <2> SUFFICES ASSUME NEW k \in JobIds, jobs'[k].status # "none"
               PROVE  /\ jobs'[k].age # NULL
                      /\ jobs'[k].requested = AutoInterval \/ jobs'[k].age <= jobs'[k].requested
    BY DEF AgesBounded
  <2>1. CASE k = j
    BY <1>0, <1>2, <2>1
  <2>2. CASE k # j
    BY <1>2, <2>2 DEF AgeInv, AgesBounded
  <2>3. QED
    BY <2>1, <2>2
<1>5. RequestsInOrder'
  BY <1>0, <1>1, <1>2, <1>3 DEF AgeInv, RequestsInOrder
<1>6. QED
  BY <1>0, <1>2, <1>3, <1>4, <1>5

\* Time passes for a job's request and for its last activity alike.
LEMMA AgesPass ==
  ASSUME TypeInv, JobInv, AgeInv, jobs' = [j \in JobIds |-> Aged(j)], UNCHANGED <<pc, pick>>
  PROVE  AgeInv'
<1>0. /\ jobs \in [JobIds -> JobRow] /\ JobIds \subseteq Nat /\ AutoInterval \in Nat
      /\ NULL \notin Nat /\ UsedJobs \subseteq JobIds /\ JobCap \in Nat /\ JobCap >= AutoInterval
      /\ \A j \in JobIds : jobs[j].status # "none" => j \in UsedJobs
      /\ \A j \in UsedJobs : jobs[j].requested \in 0 .. AutoInterval
  BY ConstantsAssumption, RowFacts DEF ConstantsAssumption, TypeInv, TypeOK, JobIds, JobInv
<1>1. \A j \in JobIds : /\ jobs'[j].status = jobs[j].status /\ jobs'[j].auto = jobs[j].auto
                        /\ jobs'[j].tenant = jobs[j].tenant
                        /\ jobs'[j].requested = Older(jobs[j].requested, AutoInterval)
                        /\ jobs'[j].age = Older(jobs[j].age, JobCap)
  BY DEF Aged
<1>2. UsedJobs' = UsedJobs
  BY <1>0, <1>1 DEF UsedJobs, Older
<1>3. AgesBounded'
  <2> SUFFICES ASSUME NEW j \in JobIds, jobs'[j].status # "none"
               PROVE  /\ jobs'[j].age # NULL
                      /\ jobs'[j].requested = AutoInterval \/ jobs'[j].age <= jobs'[j].requested
    BY DEF AgesBounded
  <2>1. /\ jobs[j].age # NULL /\ jobs[j] \in JobRow
        /\ jobs[j].requested = AutoInterval \/ jobs[j].age <= jobs[j].requested
    BY <1>0, <1>1 DEF AgeInv, AgesBounded
  <2>2. jobs[j].age \in 0 .. JobCap /\ jobs[j].requested \in 0 .. AutoInterval
    BY <1>0, <1>1, <2>1 DEF JobRow
  <2> DEFINE q == jobs[j].requested
             a == jobs[j].age
  <2>3. a \in 0 .. JobCap /\ q \in 0 .. AutoInterval /\ (q = AutoInterval \/ a <= q)
    BY <2>1, <2>2
  <2> HIDE DEF q, a
  <2>4. /\ Older(a, JobCap) # NULL
        /\ Older(q, AutoInterval) = AutoInterval \/ Older(a, JobCap) <= Older(q, AutoInterval)
    BY <1>0, <2>3 DEF Older
  <2>5. QED
    BY <1>1, <2>4 DEF a, q
<1>4. RequestsInOrder'
  <2> SUFFICES ASSUME NEW j \in UsedJobs, NEW k \in UsedJobs, j < k, jobs'[k].status # "none"
               PROVE  jobs'[j].requested >= jobs'[k].requested
    BY <1>2 DEF RequestsInOrder
  <2>1. jobs[j].requested >= jobs[k].requested
    BY <1>0, <1>1 DEF AgeInv, RequestsInOrder
  <2>2. QED
    BY <1>0, <1>1, <2>1 DEF Older
<1>5. ASSUME NEW t, Rested(t) PROVE Rested(t)'
  <2>1. ActiveJobs' = ActiveJobs
    BY <1>1 DEF ActiveJobs
  <2>2. QED
    BY <1>0, <1>1, <1>2, <1>5, <2>1 DEF Rested, Older
<1>6. QED
  BY <1>3, <1>4, <1>5 DEF AgeInv

\* Every step keeps the ages, inserts a row or lets time pass.
LEMMA AgeStep ==
  OneReaper /\ TypeInv /\ LockInv /\ JobInv /\ OwnInv /\ AgeInv /\ [Next]_vars => AgeInv'
<1> SUFFICES ASSUME OneReaper, TypeInv, LockInv, JobInv, OwnInv, AgeInv, [Next]_vars PROVE AgeInv'
  OBVIOUS
<1>0. /\ jobs \in [JobIds -> JobRow] /\ pc \in [Procs -> Points] /\ NULL \notin JobIds
      /\ job \in [Procs -> JobIds \cup {NULL}] /\ stale \in [Procs -> SUBSET JobIds]
      /\ pick \in [Procs -> Tenants \cup {NULL}] /\ todo \in [Procs -> SUBSET Tenants]
      /\ \A w \in Workers : pc[w] \in JobPoints \cup SyncPoints => job[w] \in JobIds
      /\ \A w \in Workers : OwnJob(w)
      /\ \A j \in JobIds : jobs[j].status # "none" => j \in UsedJobs
      /\ Workers \subseteq Procs /\ Loopers \subseteq Workers /\ Clis \cap Workers = {}
      /\ Procs = Workers \cup Clis
      /\ OwnInv /\ AgeInv /\ JobIds \subseteq Nat
  <2>1. NULL \notin JobIds /\ Clis \cap Workers = {} /\ JobIds \subseteq Nat
    BY ConstantsAssumption DEF ConstantsAssumption, JobIds
  <2>2. QED
    BY <2>1 DEF TypeInv, TypeOK, OwnerKnown, JobInv, Procs, Workers
<1>00. \A w \in Loopers : \A v \in Workers : v = w
  BY DEF OneReaper
<1>a. ASSUME UNCHANGED jobs,
             \A w \in Loopers : pc'[w] # "autoInsert" \/ (pc'[w] = pc[w] /\ pick'[w] = pick[w])
      PROVE  AgeInv'
  <2>1. ASSUME NEW t, Rested(t) PROVE Rested(t)'
    BY <1>a, <2>1 DEF Rested, UsedJobs, ActiveJobs
  <2>2. AgesBounded' /\ RequestsInOrder'
    BY <1>a DEF AgeInv, AgesBounded, RequestsInOrder, UsedJobs
  <2>3. QED
    BY <1>a, <2>1, <2>2 DEF AgeInv
<1>b. ASSUME KeepsAges, \A w \in Loopers : pc'[w] # "autoInsert"
      PROVE  AgeInv'
  BY <1>b, AgesKept DEF AgeInv
<1> USE <1>0, <1>00 DEF SyncPoints, ProbePoints, JobPoints, IdlePoints, Points, Goto, At, tables, locals, bounds
<1>1. ASSUME NEW t \in Tenants \cup {NULL}, ApiEnqueue(t) PROVE AgeInv'
  <2>1. InsertJob(t, FALSE) /\ pc' = pc /\ pick' = pick
    BY <1>1 DEF ApiEnqueue
  <2>2. /\ AgesBounded' /\ RequestsInOrder'
        /\ \A j \in UsedJobs : jobs'[j] = jobs[j]
        /\ \A j \in UsedJobs' \ UsedJobs : jobs'[j] = NewJob(t, FALSE)
    BY <2>1, AgesInserted
  <2>3. ASSUME NEW u, Rested(u) PROVE Rested(u)'
    BY <2>2, <2>3 DEF Rested, NewJob, ActiveJobs
  <2>4. QED
    BY <2>1, <2>2, <2>3 DEF AgeInv
<1>2. ASSUME NEW w \in Workers, PollPreCheck(w) \/ StartWorker(w) PROVE AgeInv'
  BY <1>2, <1>a DEF PollPreCheck, StartWorker, AfterNothing
<1>3. ASSUME NEW w \in Workers, ClaimNextJob(w) PROVE AgeInv'
  BY <1>3, <1>a, <1>b DEF ClaimNextJob, AfterNothing, Queued, IsMin, Touched, KeepsAges, UsedJobs
<1>4. ASSUME NEW w \in Workers, ReleaseJobToQueue(w) PROVE AgeInv'
  <2>1. /\ \A j \in JobIds \ {job[w]} : jobs'[j] = jobs[j]
        /\ job[w] \in JobIds /\ jobs[job[w]].status # "none"
        /\ jobs'[job[w]].requested = jobs[job[w]].requested
        /\ jobs'[job[w]].age = jobs[job[w]].age
        /\ jobs'[job[w]].status = "queued"
    BY <1>4 DEF ReleaseJobToQueue, JobRow, OwnInv
  <2>2. KeepsAges
    <3>1. UsedJobs' = UsedJobs
      BY <2>1 DEF UsedJobs
    <3>2. QED
      BY <2>1, <3>1 DEF KeepsAges
  <2>3. QED
    BY <1>4, <1>b, <2>2 DEF ReleaseJobToQueue, AfterNothing
<1>5. ASSUME NEW w \in Workers, FinishJob(w) \/ FailJob(w) PROVE AgeInv'
  BY <1>5, <1>b DEF FinishJob, FailJob, Forget, Touched, KeepsAges, UsedJobs
<1>6. ASSUME NEW p \in Procs, SyncStep(p) PROVE AgeInv'
  BY <1>6, <1>a DEF SyncStep, AcquireLock, CleanupStaleRuns, CreateRun, Execute, FinishRun, SetLastSuccessful,
              SetLastUnscoped, FinishRunFailed, ReleaseLock, Forget
<1>7. ASSUME NEW p \in Procs, Crash(p) \/ Fault(p) \/ Reject(p) PROVE AgeInv'
  BY <1>7, <1>a DEF Crash, Fault, Reject, DbError, Die, Forget, Handler, AfterRaise
<1>8. ASSUME NEW w \in Loopers,
             ReapCheck(w) \/ ProbeIdleLock(w) \/ ReapRuns(w) \/ ReapJobsRead(w) \/ ProbeRelease(w) \/ AutoGate(w)
               \/ SweepRuns(w) \/ SweepJobs(w)
      PROVE  AgeInv'
  <2>1. jobs' = jobs /\ pc'[w] # "autoInsert"
    BY <1>8 DEF ReapCheck, ProbeIdleLock, ReapRuns, ReapJobsRead, ProbeRelease, AutoGate, AfterAuto,
                SweepRuns, SweepJobs, SweepGate
  <2>2. QED
    BY <1>a, <2>1
<1>9. ASSUME NEW w \in Loopers, AutoCheckTenant(w) PROVE AgeInv'
  <2>1. jobs' = jobs /\ (pc'[w] = "autoInsert" => TenantDue(pick'[w]) /\ pick'[w] \in Tenants)
    BY <1>9 DEF AutoCheckTenant, AfterAuto
  <2>2. pc'[w] = "autoInsert" => Rested(pick'[w])
    BY <2>1, DueIsRested
  <2>3. (Rested(pick[w]))' <=> Rested(pick'[w])
    BY <2>1 DEF Rested, UsedJobs, ActiveJobs
  <2>4. QED
    BY <2>1, <2>2, <2>3 DEF AgeInv, AgesBounded, RequestsInOrder, UsedJobs
<1>10. ASSUME NEW w \in Loopers, ReapJobsWrite(w) PROVE AgeInv'
  BY <1>10, <1>b DEF ReapJobsWrite, Touched, KeepsAges, UsedJobs
<1>11. ASSUME NEW w \in Loopers, AutoEnqueue(w) PROVE AgeInv'
  BY <1>11, <1>a, AgesInserted DEF AutoEnqueue, AgeInv
<1>12. ASSUME NEW w \in Loopers, PurgeOldRuns(w) PROVE AgeInv'
  BY <1>12, <1>b DEF PurgeOldRuns, KeepsAges, UsedJobs, JobRow
<1>13. ASSUME NEW w \in Loopers, PurgeOldJobs(w) PROVE AgeInv'
  BY <1>13, <1>b, ConstantsAssumption
     DEF ConstantsAssumption, PurgeOldJobs, PurgeableJobs, GoneJob, KeepsAges, UsedJobs
<1>14. ASSUME NEW c \in Clis, StartCli(c) PROVE AgeInv'
  BY <1>14, <1>a DEF StartCli
<1>15. CASE Tick
  BY <1>15, AgesPass DEF Tick
<1>16. CASE UNCHANGED vars
  BY <1>16, <1>a DEF vars
<1>17. QED
  BY <1>1, <1>2, <1>3, <1>4, <1>5, <1>6, <1>7, <1>8, <1>9, <1>10, <1>11, <1>12, <1>13, <1>14,
     <1>15, <1>16 DEF Next, WorkerStep, IdleStep

\* What AutoEnqueueThrottled says of one step.
EnqueuesRested ==
  \A k \in UsedJobs' \ UsedJobs : jobs'[k].auto =>
    \A j \in UsedJobs : jobs[j].auto /\ jobs[j].tenant = jobs'[k].tenant
      => jobs[j].requested >= AutoInterval /\ j \notin ActiveJobs

\* Only AutoEnqueue inserts an automatic job, for the tenant found due.
LEMMA ThrottleStep ==
  TypeInv /\ JobInv /\ OwnInv /\ AgeInv /\ [Next]_vars => EnqueuesRested
<1> SUFFICES ASSUME TypeInv, JobInv, OwnInv, AgeInv, [Next]_vars PROVE EnqueuesRested
  OBVIOUS
<1>0. /\ jobs \in [JobIds -> JobRow] /\ NULL \notin JobIds
      /\ \A w \in Workers : pc[w] \in JobPoints \cup SyncPoints => job[w] \in JobIds
      /\ \A w \in Workers : OwnJob(w)
      /\ \A j \in JobIds : jobs[j].status # "none" => j \in UsedJobs
      /\ Loopers \subseteq Workers /\ OwnInv
  BY ConstantsAssumption DEF ConstantsAssumption, TypeInv, TypeOK, OwnerKnown, JobInv, Workers, JobIds
<1>1. ASSUME NEW t \in Tenants \cup {NULL}, ApiEnqueue(t) PROVE EnqueuesRested
  <2>1. InsertJob(t, FALSE)
    BY <1>1 DEF ApiEnqueue
  <2>2. \A k \in UsedJobs' \ UsedJobs : jobs'[k] = NewJob(t, FALSE)
    BY <2>1, AgesInserted
  <2>3. QED
    BY <2>2 DEF EnqueuesRested, NewJob
<1>2. ASSUME NEW w \in Loopers, AutoEnqueue(w) PROVE EnqueuesRested
  <2>1. CASE InsertJob(pick[w], TRUE)
    <3>1. Rested(pick[w])
      BY <1>2 DEF AutoEnqueue, At, AgeInv
    <3>2. \A k \in UsedJobs' \ UsedJobs : jobs'[k].tenant = pick[w]
      <4>1. \A k \in UsedJobs' \ UsedJobs : jobs'[k] = NewJob(pick[w], TRUE)
        BY <2>1, AgesInserted
      <4>2. QED
        BY <4>1 DEF NewJob
    <3>3. QED
      BY <3>1, <3>2 DEF EnqueuesRested, Rested
  <2>2. CASE UNCHANGED jobs
    BY <2>2 DEF EnqueuesRested, UsedJobs
  <2>3. QED
    BY <1>2, <2>1, <2>2 DEF AutoEnqueue
<1>3. ASSUME UsedJobs' \subseteq UsedJobs PROVE EnqueuesRested
  BY <1>3 DEF EnqueuesRested
<1> USE <1>0 DEF UsedJobs, SyncPoints, JobPoints, Goto, At, tables
<1>4. ASSUME NEW w \in Workers, WorkerStep(w) \/ StartWorker(w) PROVE EnqueuesRested
  BY <1>3, <1>4 DEF WorkerStep, PollPreCheck, ClaimNextJob, ReleaseJobToQueue, FinishJob, FailJob, StartWorker,
                    Queued, IsMin, Touched, OwnJob
<1>5. ASSUME NEW p \in Procs, SyncStep(p) PROVE EnqueuesRested
  BY <1>3, <1>5 DEF SyncStep, AcquireLock, CleanupStaleRuns, CreateRun, Execute, FinishRun, SetLastSuccessful,
                    SetLastUnscoped, FinishRunFailed, ReleaseLock
<1>6. ASSUME NEW p \in Procs, Crash(p) \/ Fault(p) \/ Reject(p) PROVE EnqueuesRested
  BY <1>3, <1>6 DEF Crash, Fault, Reject, DbError
<1>7. ASSUME NEW w \in Loopers, IdleStep(w), ~AutoEnqueue(w) PROVE EnqueuesRested
  <2>1. CASE ReapJobsWrite(w) \/ PurgeOldRuns(w) \/ PurgeOldJobs(w)
    BY <1>3, <2>1 DEF ReapJobsWrite, PurgeOldRuns, PurgeOldJobs, PurgeableJobs, Touched, JobRow
  <2>2. CASE ~(ReapJobsWrite(w) \/ PurgeOldRuns(w) \/ PurgeOldJobs(w))
    BY <1>3, <1>7, <2>2
       DEF IdleStep, ReapCheck, ProbeIdleLock, ReapRuns, ReapJobsRead, ProbeRelease, AutoGate, AutoCheckTenant,
           SweepRuns, SweepJobs, SweepGate
  <2>3. QED
    BY <2>1, <2>2
<1>8. ASSUME NEW c \in Clis, StartCli(c) PROVE EnqueuesRested
  BY <1>3, <1>8 DEF StartCli
<1>9. CASE Tick
  BY <1>3, <1>9 DEF Tick, Aged, Older
<1>10. CASE UNCHANGED vars
  BY <1>3, <1>10 DEF vars
<1>11. QED
  BY <1>1, <1>2, <1>4, <1>5, <1>6, <1>7, <1>8, <1>9, <1>10 DEF Next

\* Where the looper is the only worker, two automatic jobs of a tenant are an
\* interval apart and the earlier one is closed: nobody reactivates a job that
\* the looper has found closed, and no other looper inserts between its check
\* and its insert.
THEOREM EnqueueThrottled == OneReaper => (Spec => AutoEnqueueThrottled)
<1> SUFFICES ASSUME OneReaper PROVE Spec => AutoEnqueueThrottled
  OBVIOUS
<1>1. IInv /\ OwnInv /\ [Next]_vars => OwnInv'
  BY OwnStep DEF IInv
<1>2. IInv /\ OwnInv /\ AgeInv /\ [Next]_vars => AgeInv'
  BY AgeStep DEF IInv
<1>3. IInv /\ OwnInv /\ AgeInv /\ [Next]_vars => [EnqueuesRested]_vars
  BY ThrottleStep DEF IInv
<1>4. Spec => []OwnInv
  BY OwnInit, <1>1, Invariant, PTL DEF Spec
<1>5. Spec => []AgeInv
  BY AgeInit, <1>2, <1>4, Invariant, PTL DEF Spec
<1>6. QED
  BY <1>3, <1>4, <1>5, Invariant, PTL DEF Spec, AutoEnqueueThrottled, EnqueuesRested
=============================================================================
