------------------------------ MODULE SyncQueue ------------------------------
(***************************************************************************)
(* The sync queue: the advisory lock, the rows of sync_runs, sync_jobs and *)
(* sync_state, and every process that writes them.                         *)
(*                                                                         *)
(*   - loopers: `sync_worker.py` (claim, run, and the idle branch: reaper, *)
(*     auto-enqueue, retention sweeps);                                    *)
(*   - one-shot workers: `sync_worker.py --once`, which never idles;       *)
(*   - CLI runs: `main.py` (systemd timers), which hold no job;            *)
(*   - the API, which only inserts jobs.                                   *)
(*                                                                         *)
(* One action is one database commit (or one lock call), so every order in *)
(* which the commits of two processes can interleave is a behaviour.  A    *)
(* process may die between any two of them, and any statement may raise.   *)
(*                                                                         *)
(* A timestamp is kept as its AGE in ticks, saturating above the largest   *)
(* threshold it is compared with: the code only ever compares `now - t`,   *)
(* so the state space is finite while time runs forever.                   *)
(***************************************************************************)
EXTENDS Integers, FiniteSets

CONSTANTS
  Loopers,           \* long-lived workers (docker: `restart: unless-stopped`)
  OneShots,          \* workers started with --once
  Clis,              \* slots for runs of main.py
  Tenants,           \* portal accounts with an active credential
  NULL,              \* SQL NULL / Python None
  MaxJobs,           \* bound: rows ever inserted in sync_jobs
  MaxCliRuns,        \* bound: runs of main.py ever started
  MaxFaults,         \* bound: exceptions and process deaths together
  JobCap,            \* ages of the columns of sync_jobs saturate here
  RunCap,            \* ages of sync_runs.started_at saturate here
  StaleAge,          \* SYNC_STALE_JOB_MINUTES (0 disables the reaping of jobs)
  AutoInterval,      \* SYNC_AUTO_ENQUEUE_INTERVAL_MINUTES (0 disables)
  RunRetention,      \* SYNC_RUN_RETENTION_DAYS (0 disables)
  JobRetention,      \* SYNC_JOB_RETENTION_DAYS (0 disables)
  SweepInterval      \* SYNC_{RUN,JOB}_RETENTION_INTERVAL_HOURS

Workers == Loopers \cup OneShots
Procs == Workers \cup Clis

ASSUME ConstantsAssumption ==
  /\ Loopers \cap OneShots = {} /\ Workers \cap Clis = {}
  /\ NULL \notin Procs /\ NULL \notin Tenants /\ NULL \notin Nat
  /\ {MaxJobs, MaxCliRuns, MaxFaults, JobCap, RunCap} \subseteq Nat
  /\ {StaleAge, AutoInterval, RunRetention, JobRetention, SweepInterval} \subseteq Nat
  /\ JobCap > StaleAge /\ JobCap >= AutoInterval
  /\ JobCap > JobRetention \/ JobRetention = 0
  /\ RunCap > RunRetention \/ RunRetention = 0

JobIds == 1 .. MaxJobs
\* A job is executed at most once, so these ids are enough.
RunIds == 1 .. (MaxJobs + MaxCliRuns)

VARIABLES
  lock,      \* who holds the session-level advisory lock, or NULL
  runs,      \* sync_runs by id
  jobs,      \* sync_jobs by id
  state,     \* sync_state: key |-> age of its timestamp, or NULL
  pc,        \* where each process is: the next commit it will make
  job,       \* the job a worker claimed
  run,       \* the run a process created
  res,       \* the status that run will be closed with
  stale,     \* the stale jobs a reaper has read and not yet written
  todo,      \* the tenants an auto-enqueue loop has not visited
  pick,      \* the tenant that loop found due and is about to enqueue
  started,   \* runs of main.py so far
  faults     \* exceptions and deaths so far

tables == <<lock, runs, jobs, state>>
locals == <<job, run, res, stale, todo, pick>>
bounds == <<started, faults>>
vars == <<lock, runs, jobs, state, pc, job, run, res, stale, todo, pick, started, faults>>

StateKeys == {"last_successful_sync_at", "last_unscoped_sync_at",
              "last_run_retention_at", "last_job_retention_at"}

\* A job's `age` is that of its last activity, coalesce(finished_at, started_at,
\* requested_at): what the reaper (of a running job), the cooldown and the
\* retention sweep (of a closed one) read.  Nothing reads it of a queued job.
NoRun == [status |-> "none", started |-> NULL]
NoJob == [status |-> "none", tenant |-> NULL, auto |-> FALSE, requested |-> NULL,
          age |-> NULL, run |-> NULL]
NewJob(t, auto) == [status |-> "queued", tenant |-> t, auto |-> auto, requested |-> 0,
                    age |-> 0, run |-> NULL]

\* A deleted row: its id stays taken.
GoneRun == [status |-> "none", started |-> RunCap]
GoneJob(t) == [status |-> "none", tenant |-> t, auto |-> FALSE, requested |-> AutoInterval,
               age |-> NULL, run |-> NULL]

RunRow == [status : {"none", "running", "success", "failed", "abandoned"},
           started : 0 .. RunCap \cup {NULL}]
JobRow == [status : {"none", "queued", "running", "success", "failed"},
           tenant : Tenants \cup {NULL}, auto : BOOLEAN,
           requested : (0 .. AutoInterval) \cup {NULL}, age : (0 .. JobCap) \cup {NULL},
           run : RunIds \cup {NULL}]

\* Program points.  Between "cleanup" and "unlock" the process is inside
\* run_sync_job with the lock; between "reapRuns" and "unprobe" it probes.
SyncPoints  == {"cleanup", "create", "exec", "finish", "success", "gate", "except",
                "unlock", "raise"}
ProbePoints == {"reapRuns", "reapRead", "reapWrite", "unprobe"}
JobPoints   == {"lock", "requeue", "finishJob", "fail"}
IdlePoints  == {"idle", "probe", "auto", "autoCheck", "autoInsert",
                "sweepRuns", "purgeRuns", "sweepJobs", "purgeJobs"}
Points == SyncPoints \cup ProbePoints \cup JobPoints \cup IdlePoints \cup {"poll", "claim", "dead"}

-----------------------------------------------------------------------------
(* Queries.                                                                *)

Running == {r \in RunIds : runs[r].status = "running"}
Queued == {j \in JobIds : jobs[j].status = "queued"}
ActiveJobs == {j \in JobIds : jobs[j].status \in {"queued", "running"}}
JobsOf(t) == {j \in JobIds : jobs[j].status # "none" /\ jobs[j].tenant = t}
IsMax(i, S) == i \in S /\ \A k \in S : k <= i
IsMin(i, S) == i \in S /\ \A k \in S : i <= k

\* Ids come from a sequence: the next one is above every id ever given, and
\* a purged row leaves its id taken (its `requested` / `started` is kept).
UsedJobs == {j \in JobIds : jobs[j].requested # NULL}
UsedRuns == {r \in RunIds : runs[r].started # NULL}

\* Job j with a new status as of now, naming run r.
Touched(j, status, r) ==
  [status |-> status, tenant |-> jobs[j].tenant, auto |-> jobs[j].auto,
   requested |-> jobs[j].requested, age |-> 0, run |-> r]

Due(key, interval) == state[key] = NULL \/ state[key] >= interval

Goto(p, point) == pc' = [pc EXCEPT ![p] = point]
At(p, point) == pc[p] = point

\* Leaving run_sync_job by an exception: a worker closes its job as failed and
\* dies; a CLI run simply exits.
AfterRaise(p) == IF p \in Workers THEN "fail" ELSE "dead"
\* `if processed` is False: a looper takes its idle branch, --once exits.
AfterNothing(p) == IF p \in Loopers THEN "idle" ELSE "dead"

\* The lock belongs to a session: its end, or an unlock by it, frees the lock
\* only if that session holds it.
Unlocked(p) == IF lock = p THEN NULL ELSE lock

\* The end of a process, or of one job in a looper: nothing local survives.
Forget(p) ==
  /\ job' = [job EXCEPT ![p] = NULL]
  /\ run' = [run EXCEPT ![p] = NULL]
  /\ res' = [res EXCEPT ![p] = NULL]
  /\ stale' = [stale EXCEPT ![p] = {}]
  /\ todo' = [todo EXCEPT ![p] = {}]
  /\ pick' = [pick EXCEPT ![p] = NULL]

Init ==
  /\ lock = NULL
  /\ runs = [r \in RunIds |-> NoRun]
  /\ jobs = [j \in JobIds |-> NoJob]
  /\ state = [k \in StateKeys |-> NULL]
  /\ pc = [p \in Procs |-> "dead"]
  /\ job = [p \in Procs |-> NULL]
  /\ run = [p \in Procs |-> NULL]
  /\ res = [p \in Procs |-> NULL]
  /\ stale = [p \in Procs |-> {}]
  /\ todo = [p \in Procs |-> {}]
  /\ pick = [p \in Procs |-> NULL]
  /\ started = 0
  /\ faults = 0

-----------------------------------------------------------------------------
(* Plausible mistakes in the actions below, each the body of one of them   *)
(* with one thing wrong.  No behaviour of Spec uses them: they show that   *)
(* the properties can fail.                                                *)

\* The reaper trusts its reads and does not take the lock.
BadProbe(w) ==
  At(w, "probe") /\ Goto(w, "reapRuns") /\ UNCHANGED <<tables, locals, bounds>>

\* The newest queued job is claimed first.
BadClaim(w) ==
  /\ At(w, "claim")
  /\ \/ Queued = {} /\ Goto(w, AfterNothing(w)) /\ UNCHANGED <<jobs, job>>
     \/ \E j \in JobIds :
          /\ IsMax(j, Queued)
          /\ jobs' = [jobs EXCEPT ![j] = Touched(j, "running", jobs[j].run)]
          /\ job' = [job EXCEPT ![w] = j]
          /\ Goto(w, "lock")
  /\ UNCHANGED <<lock, runs, state, run, res, stale, todo, pick, bounds>>

\* The reaper looks for running runs only (no has_running_job).
BadReapCheck(w) ==
  /\ At(w, "idle")
  /\ Goto(w, IF Running = {} THEN "auto" ELSE "probe")
  /\ UNCHANGED <<tables, locals, bounds>>

\* Auto-enqueue without the per-tenant cooldown.
BadTenantDue(t) == ActiveJobs \cap JobsOf(t) = {}

\* Retention of runs that deletes a run without clearing the references to it.
BadPurgeOldRuns(w) ==
  /\ At(w, "purgeRuns")
  /\ runs' = [r \in RunIds |->
       IF runs[r].status \notin {"none", "running"} /\ runs[r].started > RunRetention
            /\ ~IsMax(r, UsedRuns)
         THEN GoneRun ELSE runs[r]]
  /\ Goto(w, "sweepJobs")
  /\ UNCHANGED <<lock, jobs, state, locals, bounds>>

-----------------------------------------------------------------------------
(* The queue.                                                              *)

\* Insert a queued row for tenant t (NULL: a global sync over every tenant).
InsertJob(t, auto) ==
  \E j \in JobIds :
    /\ \A k \in JobIds : k < j <=> k \in UsedJobs
    /\ jobs' = [jobs EXCEPT ![j] = NewJob(t, auto)]

\* POST /sync/trigger.
ApiEnqueue(t) ==
  /\ InsertJob(t, FALSE)
  /\ UNCHANGED <<lock, runs, state, pc, locals, bounds>>

\* process_next_job: a cheap pre-check before claiming.
PollPreCheck(w) ==
  /\ At(w, "poll")
  /\ Goto(w, IF Running # {} THEN AfterNothing(w) ELSE "claim")
  /\ UNCHANGED <<tables, locals, bounds>>

\* The oldest queued row, under FOR UPDATE SKIP LOCKED.
ClaimNextJob(w) ==
  /\ At(w, "claim")
  /\ \/ /\ Queued = {}
        /\ Goto(w, AfterNothing(w))
        /\ UNCHANGED <<jobs, job>>
     \/ \E j \in JobIds :
          /\ IsMin(j, Queued)
          /\ jobs' = [jobs EXCEPT ![j] = Touched(j, "running", jobs[j].run)]
          /\ job' = [job EXCEPT ![w] = j]
          /\ Goto(w, "lock")
  /\ UNCHANGED <<lock, runs, state, run, res, stale, todo, pick, bounds>>

\* The claim hit a running sync: hand the job back.
ReleaseJobToQueue(w) ==
  /\ At(w, "requeue")
  /\ jobs' = [jobs EXCEPT ![job[w]].status = "queued", ![job[w]].run = NULL]
  /\ job' = [job EXCEPT ![w] = NULL]
  /\ Goto(w, AfterNothing(w))
  /\ UNCHANGED <<lock, runs, state, run, res, stale, todo, pick, bounds>>

\* Close the job with the result of its run, whatever the row says by now; the
\* foreign key rejects a run that retention has deleted, and a deleted job row
\* cannot be updated: both leave by DbError.
FinishJob(w) ==
  /\ At(w, "finishJob")
  /\ jobs[job[w]].status # "none" /\ runs[run[w]].status # "none"
  /\ jobs' = [jobs EXCEPT ![job[w]] = Touched(job[w], res[w], run[w])]
  /\ Forget(w)
  /\ Goto(w, IF w \in Loopers THEN "poll" ELSE "dead")
  /\ UNCHANGED <<lock, runs, state, bounds>>

\* The except branch of process_next_job: fail the job, then re-raise.
FailJob(w) ==
  /\ At(w, "fail")
  /\ jobs[job[w]].status # "none"
  /\ jobs' = [jobs EXCEPT ![job[w]] = Touched(job[w], "failed", NULL)]
  /\ Forget(w)
  /\ Goto(w, "dead")
  /\ UNCHANGED <<lock, runs, state, bounds>>

-----------------------------------------------------------------------------
(* run_sync_job, shared by the workers and main.py.                        *)

\* pg_try_advisory_lock on a connection of its own.
AcquireLock(p) ==
  /\ At(p, "lock")
  /\ \/ /\ lock = NULL
        /\ lock' = p
        /\ Goto(p, "cleanup")
     \/ /\ lock # NULL
        /\ Goto(p, IF p \in Workers THEN "requeue" ELSE "dead")
        /\ UNCHANGED lock
  /\ UNCHANGED <<runs, jobs, state, locals, bounds>>

\* cleanup_stale_runs: every 'running' row is abandoned.
Abandoned == [r \in RunIds |-> IF r \in Running THEN [runs[r] EXCEPT !.status = "abandoned"]
                                                ELSE runs[r]]

CleanupStaleRuns(p) ==
  /\ At(p, "cleanup")
  /\ runs' = Abandoned
  /\ Goto(p, "create")
  /\ UNCHANGED <<lock, jobs, state, locals, bounds>>

CreateRun(p) ==
  /\ At(p, "create")
  /\ \E r \in RunIds :
       /\ \A q \in RunIds : q < r <=> q \in UsedRuns
       /\ runs' = [runs EXCEPT ![r] = [status |-> "running", started |-> 0]]
       /\ run' = [run EXCEPT ![p] = r]
  /\ Goto(p, "exec")
  /\ UNCHANGED <<lock, jobs, state, job, res, stale, todo, pick, bounds>>

\* execute_sync returned: a pipeline that reports failed steps returns too.
Execute(p) ==
  /\ At(p, "exec")
  /\ \E r \in {"success", "failed"} : res' = [res EXCEPT ![p] = r]
  /\ Goto(p, "finish")
  /\ UNCHANGED <<tables, job, run, stale, todo, pick, bounds>>

\* finish_run: the status is committed first, the two state keys after it.
FinishRun(p) ==
  /\ At(p, "finish")
  /\ runs' = [runs EXCEPT ![run[p]].status = res[p]]
  /\ Goto(p, IF res[p] = "success" THEN "success" ELSE "unlock")
  /\ UNCHANGED <<lock, jobs, state, locals, bounds>>

Scoped(p) == p \in Workers /\ jobs[job[p]].tenant # NULL

SetLastSuccessful(p) ==
  /\ At(p, "success")
  /\ state' = [state EXCEPT !["last_successful_sync_at"] = 0]
  /\ Goto(p, IF Scoped(p) THEN "unlock" ELSE "gate")
  /\ UNCHANGED <<lock, runs, jobs, locals, bounds>>

SetLastUnscoped(p) ==
  /\ At(p, "gate")
  /\ state' = [state EXCEPT !["last_unscoped_sync_at"] = 0]
  /\ Goto(p, "unlock")
  /\ UNCHANGED <<lock, runs, jobs, locals, bounds>>

\* The except branch: close the run as failed and go on to the finally block.
FinishRunFailed(p) ==
  /\ At(p, "except")
  /\ runs' = [runs EXCEPT ![run[p]].status = "failed"]
  /\ res' = [res EXCEPT ![p] = "failed"]
  /\ Goto(p, "unlock")
  /\ UNCHANGED <<lock, jobs, state, job, run, stale, todo, pick, bounds>>

\* The finally block, on a return ("unlock") and on an exception ("raise").
\* The notification that follows is best effort and changes no row.
ReleaseLock(p) ==
  /\ lock' = Unlocked(p)
  /\ \/ At(p, "unlock") /\ p \in Workers /\ Goto(p, "finishJob") /\ UNCHANGED locals
     \/ At(p, "raise") /\ p \in Workers /\ Goto(p, "fail") /\ UNCHANGED locals
     \/ At(p, "unlock") /\ p \in Clis /\ Goto(p, "dead") /\ Forget(p)
     \/ At(p, "raise") /\ p \in Clis /\ Goto(p, "dead") /\ Forget(p)
  /\ UNCHANGED <<runs, jobs, state, bounds>>

-----------------------------------------------------------------------------
(* The idle branch of a looper: the orphan reaper.                         *)

ReapCheck(w) ==
  /\ At(w, "idle")
  /\ Goto(w, IF Running = {} /\ \A j \in JobIds : jobs[j].status # "running"
               THEN "auto" ELSE "probe")
  /\ UNCHANGED <<tables, locals, bounds>>

ProbeIdleLock(w) ==
  /\ At(w, "probe")
  /\ \/ lock = NULL /\ lock' = w /\ Goto(w, "reapRuns")
     \/ lock # NULL /\ Goto(w, "auto") /\ UNCHANGED lock
  /\ UNCHANGED <<runs, jobs, state, locals, bounds>>

ReapRuns(w) ==
  /\ At(w, "reapRuns")
  /\ runs' = Abandoned
  /\ Goto(w, "reapRead")
  /\ UNCHANGED <<lock, jobs, state, locals, bounds>>

\* reap_stale_jobs reads the stale rows and writes them back one commit later.
StaleJobs == {j \in JobIds : jobs[j].status = "running" /\ jobs[j].age > StaleAge}

ReapJobsRead(w) ==
  /\ At(w, "reapRead")
  /\ stale' = [stale EXCEPT ![w] = IF StaleAge = 0 THEN {} ELSE StaleJobs]
  /\ Goto(w, "reapWrite")
  /\ UNCHANGED <<tables, job, run, res, todo, pick, bounds>>

ReapJobsWrite(w) ==
  /\ At(w, "reapWrite")
  /\ \A j \in stale[w] : jobs[j].status # "none"
  /\ jobs' = [j \in JobIds |-> IF j \in stale[w]
                                 THEN Touched(j, "failed", jobs[j].run) ELSE jobs[j]]
  /\ stale' = [stale EXCEPT ![w] = {}]
  /\ Goto(w, "unprobe")
  /\ UNCHANGED <<lock, runs, state, job, run, res, todo, pick, bounds>>

ProbeRelease(w) ==
  /\ At(w, "unprobe")
  /\ lock' = Unlocked(w)
  /\ Goto(w, "auto")
  /\ UNCHANGED <<runs, jobs, state, locals, bounds>>

-----------------------------------------------------------------------------
(* The idle branch: auto-enqueue.                                          *)

\* With both retentions disabled the sweeps delete nothing, and nothing else
\* reads their throttle keys: the idle branch is over.
AfterAuto == IF RunRetention = 0 /\ JobRetention = 0 THEN "poll" ELSE "sweepRuns"

AutoGate(w) ==
  /\ At(w, "auto")
  /\ LET open == AutoInterval > 0 /\ Running = {} /\ Due("last_unscoped_sync_at", AutoInterval)
     IN  /\ todo' = [todo EXCEPT ![w] = IF open THEN Tenants ELSE {}]
         /\ Goto(w, IF open THEN "autoCheck" ELSE AfterAuto)
  /\ UNCHANGED <<tables, job, run, res, stale, pick, bounds>>

\* A tenant is skipped while it has an active job, and until its latest job
\* has been quiet for an interval.
CoolingDown(t) == \E j \in JobIds : IsMax(j, JobsOf(t)) /\ jobs[j].age < AutoInterval
TenantDue(t) == ActiveJobs \cap JobsOf(t) = {} /\ ~CoolingDown(t)

AutoCheckTenant(w) ==
  /\ At(w, "autoCheck")
  /\ \/ /\ todo[w] = {}
        /\ Goto(w, AfterAuto)
        /\ UNCHANGED <<todo, pick>>
     \/ \E t \in todo[w] :
          /\ todo' = [todo EXCEPT ![w] = @ \ {t}]
          /\ \/ TenantDue(t) /\ pick' = [pick EXCEPT ![w] = t] /\ Goto(w, "autoInsert")
             \/ ~TenantDue(t) /\ UNCHANGED <<pick, pc>>
  /\ UNCHANGED <<tables, job, run, res, stale, bounds>>

\* The insert is another statement than the check.  (At the bound MaxJobs the
\* row is dropped so that the loop goes on.)
AutoEnqueue(w) ==
  /\ At(w, "autoInsert")
  /\ \/ InsertJob(pick[w], TRUE)
     \/ UsedJobs = JobIds /\ UNCHANGED jobs
  /\ pick' = [pick EXCEPT ![w] = NULL]
  /\ Goto(w, "autoCheck")
  /\ UNCHANGED <<lock, runs, state, job, run, res, stale, todo, bounds>>

-----------------------------------------------------------------------------
(* The idle branch: the two retention sweeps of the queue's tables.  The   *)
(* attempt is recorded before the sweep.                                   *)

SweepGate(w, here, key, purge, next) ==
  /\ At(w, here)
  /\ IF Due(key, SweepInterval)
       THEN state' = [state EXCEPT ![key] = 0] /\ Goto(w, purge)
       ELSE UNCHANGED state /\ Goto(w, next)
  /\ UNCHANGED <<lock, runs, jobs, locals, bounds>>

SweepRuns(w) == SweepGate(w, "sweepRuns", "last_run_retention_at", "purgeRuns", "sweepJobs")
SweepJobs(w) == SweepGate(w, "sweepJobs", "last_job_retention_at", "purgeJobs", "poll")

LatestRun(r) == IsMax(r, {q \in RunIds : runs[q].status # "none"})

PurgeableRuns == {r \in RunIds :
  /\ runs[r].status \notin {"none", "running"}
  /\ runs[r].started > RunRetention
  /\ ~LatestRun(r)}

\* References from jobs are cleared in the same transaction as the delete.
PurgeOldRuns(w) ==
  /\ At(w, "purgeRuns")
  /\ LET gone == IF RunRetention = 0 THEN {} ELSE PurgeableRuns
     IN  /\ jobs' = [j \in JobIds |-> IF jobs[j].run \in gone
                                        THEN [jobs[j] EXCEPT !.run = NULL] ELSE jobs[j]]
         /\ runs' = [r \in RunIds |-> IF r \in gone
                                        THEN GoneRun ELSE runs[r]]
  /\ Goto(w, "sweepJobs")
  /\ UNCHANGED <<lock, state, locals, bounds>>

\* The newest job of every tenant, and of the global syncs (tenant NULL).
LatestOfTenant(j) == IsMax(j, JobsOf(jobs[j].tenant))

PurgeableJobs == {j \in JobIds :
  /\ jobs[j].status \notin {"none", "queued", "running"}
  /\ jobs[j].age > JobRetention
  /\ ~LatestOfTenant(j)}

PurgeOldJobs(w) ==
  /\ At(w, "purgeJobs")
  /\ LET gone == IF JobRetention = 0 THEN {} ELSE PurgeableJobs
     IN  jobs' = [j \in JobIds |-> IF j \in gone
                                    THEN GoneJob(jobs[j].tenant) ELSE jobs[j]]
  /\ Goto(w, "poll")
  /\ UNCHANGED <<lock, runs, state, locals, bounds>>

-----------------------------------------------------------------------------
(* Starts, failures and time.                                              *)

\* Docker restarts a looper; an operator or a timer starts the others.
StartWorker(w) ==
  /\ At(w, "dead")
  /\ Goto(w, "poll")
  /\ UNCHANGED <<tables, locals, bounds>>

StartCli(c) ==
  /\ At(c, "dead")
  /\ started < MaxCliRuns
  /\ started' = started + 1
  /\ Goto(c, "lock")
  /\ UNCHANGED <<tables, locals, faults>>

\* A dying process forgets its locals, and its session drops the lock.
Die(p) ==
  /\ lock' = Unlocked(p)
  /\ Forget(p)
  /\ Goto(p, "dead")

Crash(p) ==
  /\ ~At(p, "dead")
  /\ faults < MaxFaults
  /\ faults' = faults + 1
  /\ Die(p)
  /\ UNCHANGED <<runs, jobs, state, started>>

\* Where an exception raised at `point` is caught, or "dead".
Handler(p, point) ==
  CASE point \in {"cleanup", "create", "except"} -> "raise"
    [] point \in {"exec", "finish", "success", "gate"} -> "except"
    [] point \in {"lock", "unlock", "raise"} -> AfterRaise(p)
    [] point \in {"requeue", "finishJob"} -> "fail"
    [] point \in {"sweepRuns", "purgeRuns"} -> "sweepJobs"
    [] point \in {"sweepJobs", "purgeJobs"} -> "poll"
    [] OTHER -> "dead"

\* Nothing of the failing statement is applied.  A failing unlock means that
\* its connection is gone, and the session-level lock with it.
DbError(p) ==
  /\ ~At(p, "dead")
  /\ IF Handler(p, pc[p]) = "dead"
       THEN Die(p)
       ELSE /\ Goto(p, Handler(p, pc[p]))
            /\ lock' = IF pc[p] \in {"unlock", "raise"} THEN Unlocked(p) ELSE lock
            /\ UNCHANGED locals
  /\ UNCHANGED <<runs, jobs, state, started>>

\* Any statement can raise (a bounded number of times); a write to a row that
\* retention has deleted meanwhile, or a reference to one, always does.
Rejected(p) ==
  \/ At(p, "finishJob") /\ (jobs[job[p]].status = "none" \/ runs[run[p]].status = "none")
  \/ At(p, "fail") /\ jobs[job[p]].status = "none"
  \/ At(p, "reapWrite") /\ \E j \in stale[p] : jobs[j].status = "none"

Fault(p) == faults < MaxFaults /\ faults' = faults + 1 /\ DbError(p)
Reject(p) == Rejected(p) /\ UNCHANGED faults /\ DbError(p)

\* Time passes for every timestamp.  Each column saturates just beyond the
\* largest threshold it is compared with (at 0 when nothing reads it).
Older(a, limit) == IF a = NULL \/ a >= limit THEN a ELSE a + 1

Aged(j) ==
  [status |-> jobs[j].status, tenant |-> jobs[j].tenant, auto |-> jobs[j].auto,
   requested |-> Older(jobs[j].requested, AutoInterval), age |-> Older(jobs[j].age, JobCap),
   run |-> jobs[j].run]

KeyLimit(k) == CASE k = "last_successful_sync_at" -> 0
                 [] k = "last_unscoped_sync_at" -> AutoInterval
                 [] OTHER -> SweepInterval

Tick ==
  /\ runs' = [r \in RunIds |-> [status |-> runs[r].status, started |-> Older(runs[r].started, RunCap)]]
  /\ jobs' = [j \in JobIds |-> Aged(j)]
  /\ state' = [k \in StateKeys |-> Older(state[k], KeyLimit(k))]
  /\ UNCHANGED <<lock, pc, locals, bounds>>

-----------------------------------------------------------------------------
WorkerStep(w) ==
  \/ PollPreCheck(w) \/ ClaimNextJob(w) \/ ReleaseJobToQueue(w) \/ FinishJob(w) \/ FailJob(w)

SyncStep(p) ==
  \/ AcquireLock(p) \/ CleanupStaleRuns(p) \/ CreateRun(p) \/ Execute(p) \/ FinishRun(p)
  \/ SetLastSuccessful(p) \/ SetLastUnscoped(p) \/ FinishRunFailed(p) \/ ReleaseLock(p)

IdleStep(w) ==
  \/ ReapCheck(w) \/ ProbeIdleLock(w) \/ ReapRuns(w) \/ ReapJobsRead(w) \/ ReapJobsWrite(w)
  \/ ProbeRelease(w) \/ AutoGate(w) \/ AutoCheckTenant(w) \/ AutoEnqueue(w)
  \/ SweepRuns(w) \/ PurgeOldRuns(w) \/ SweepJobs(w) \/ PurgeOldJobs(w)

Next ==
  \/ \E t \in Tenants \cup {NULL} : ApiEnqueue(t)
  \/ \E w \in Workers : WorkerStep(w) \/ StartWorker(w)
  \/ \E p \in Procs : SyncStep(p) \/ Crash(p) \/ Fault(p) \/ Reject(p)
  \/ \E w \in Loopers : IdleStep(w)
  \/ \E c \in Clis : StartCli(c)
  \/ Tick

Spec == Init /\ [][Next]_vars

\* The scheduler runs every live process, docker restarts a dead looper, and
\* the clock does not stop.  Nobody owes the queue a trigger, a timer or --once.
Fairness ==
  /\ \A w \in Workers : WF_vars(WorkerStep(w))
  /\ \A p \in Procs : WF_vars(SyncStep(p) \/ Reject(p))
  /\ \A w \in Loopers : WF_vars(IdleStep(w)) /\ WF_vars(StartWorker(w))
  /\ WF_vars(Tick)

FairSpec == Spec /\ Fairness

-----------------------------------------------------------------------------
(* Properties.                                                             *)

\* Types of the rows and of the local variables.
TypeOK ==
  /\ lock \in Procs \cup {NULL}
  /\ runs \in [RunIds -> RunRow]
  /\ jobs \in [JobIds -> JobRow]
  /\ state \in [StateKeys -> Nat \cup {NULL}]
  /\ pc \in [Procs -> Points]
  /\ job \in [Procs -> JobIds \cup {NULL}]
  /\ run \in [Procs -> RunIds \cup {NULL}]
  /\ res \in [Procs -> {"success", "failed", NULL}]
  /\ stale \in [Procs -> SUBSET JobIds]
  /\ todo \in [Procs -> SUBSET Tenants]
  /\ pick \in [Procs -> Tenants \cup {NULL}]
  /\ started \in 0 .. MaxCliRuns
  /\ faults \in 0 .. MaxFaults

\* At most one sync_runs row is 'running', whatever crashed before: the status
\* payload and the pre-checks read "the" running run.
OneRunningRun == \A r, q \in Running : r = q

\* A sync that is still executing or about to record its result finds its run
\* row as it left it: nobody abandons the run of a live process
\* (cleanup_stale_runs: "Call only while holding the sync lock").
LiveRunStaysOpen ==
  \A p \in Procs :
    /\ pc[p] \in {"exec", "finish"} => run[p] \in Running
    /\ pc[p] \in {"success", "gate"} => runs[run[p]].status = "success"

\* Two workers never own the same job, through claims, hand-backs and reaping.
JobHasOneOwner ==
  \A v, w \in Workers : job[v] # NULL /\ job[v] = job[w] => v = w

\* While a worker holds the lock for its running job, no other process closes,
\* requeues or deletes that job (reap_stale_jobs: "while the lock is held its
\* job is alive").
LiveJobUntouched ==
  [][\A w \in Workers :
       (/\ lock = w /\ pc[w] \in SyncPoints /\ pc'[w] = pc[w]
        /\ job[w] # NULL /\ jobs[job[w]].status = "running")
         => jobs'[job[w]].status = "running"]_vars

\* A job that names a run names one that exists: retention clears the
\* reference before it deletes the run (the foreign key has no ON DELETE).
NoDanglingRun == \A j \in JobIds : jobs[j].run # NULL => runs[jobs[j].run].status # "none"

\* Retention never deletes the newest run, nor the newest job of any tenant:
\* the status payload and the auto-enqueue cooldown read exactly those rows.
NewestRowsKept ==
  /\ \A r \in RunIds : IsMax(r, UsedRuns) => runs[r].status # "none"
  /\ \A j \in JobIds : IsMax(j, {k \in UsedJobs : jobs[k].tenant = jobs[j].tenant})
                         => jobs[j].status # "none"

\* No sweep deletes a queued or running job: the queue's live state.
ActiveJobsNotDeleted == [][\A j \in ActiveJobs : jobs'[j].status # "none"]_vars

\* With one looper, auto-enqueue adds at most one job per tenant and interval,
\* and never beside an automatic job that is still active.
AutoEnqueueThrottled ==
  [][\A k \in UsedJobs' \ UsedJobs : jobs'[k].auto =>
       \A j \in UsedJobs : jobs[j].auto /\ jobs[j].tenant = jobs'[k].tenant
         => jobs[j].requested >= AutoInterval /\ j \notin ActiveJobs]_vars

\* The auto-enqueue gate is armed only by a successful run over every tenant,
\* never by a scoped run or by a run that is not recorded as a success.
GateArmedByUnscopedSuccess ==
  [][state'["last_unscoped_sync_at"] = 0 /\ state["last_unscoped_sync_at"] # 0 =>
       \E p \in Procs : /\ lock = p /\ ~Scoped(p)
                        /\ runs[run[p]].status = "success"]_vars

\* Every queued job is eventually closed: executed, or failed by its worker or
\* by the reaper.
QueuedJobSettles ==
  \A j \in JobIds : jobs[j].status = "queued" ~> jobs[j].status \notin {"queued", "running"}

=============================================================================
