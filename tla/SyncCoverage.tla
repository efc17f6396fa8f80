------------------------------ MODULE SyncCoverage -----------------------------
(***************************************************************************)
(* What a sync promises about the days of one branch: the coverage row of  *)
(* every detailed source, the marker that certifies the whole history, the *)
(* checkpoint of incremental runs, and the run that writes them             *)
(* (sync_pipeline.execute_sync, its loop over branches).                   *)
(*                                                                         *)
(* One action is one commit of that run.  A step may fail (the source is   *)
(* down, its transaction is rolled back), the run may die anywhere, days   *)
(* may pass at any time and the operator may move the reporting start.     *)
(* Runs of one branch do not overlap: that is LockExcludes of SyncQueue.   *)
(*                                                                         *)
(* A day is an integer.  What a load stores is abstracted to `read`: the   *)
(* day on which the source last answered for a day of its calendar.        *)
(***************************************************************************)
EXTENDS Integers

CONSTANTS
  Genesis,       \* SYNC_HISTORY_START_DATE
  SyncDays,      \* SYNC_DAYS (0: the whole history)
  Lookback,      \* SYNC_LOOKBACK_DAYS
  RefreshDays,   \* SYNC_REFRESH_DAYS
  Horizon,       \* SCHEDULE_DAYS: visits are loaded this far ahead
  Incremental,   \* SYNC_INCREMENTAL
  Floors,        \* the reporting starts an operator may configure
  NULL,          \* SQL NULL / Python None
  FirstDay,      \* the day on which the branch is connected
  MaxDay,        \* bound: the last day that comes
  MaxEvents      \* bound: failures, deaths and moves of the reporting start together

ASSUME ConstantsAssumption ==
  /\ {Genesis, FirstDay, MaxDay} \subseteq Int /\ Floors \subseteq Int
  /\ {SyncDays, Lookback, RefreshDays, Horizon, MaxEvents} \subseteq Nat
  /\ Incremental \in BOOLEAN
  /\ NULL \notin Int /\ NULL \notin [from : Int, to : Int]
  /\ Genesis <= FirstDay

Detailed == {"appointments", "finance", "goods"}   \* FULL_REFRESH_COVERAGE_SOURCES
Sources == Detailed \cup {"comments"}
Requests == {"incremental", "refresh", "full"}

\* The days whose loading is watched.
Days == Genesis .. (MaxDay + Horizon)

VARIABLES
  today,       \* the calendar
  reporting,   \* companies.reporting_start_date, or NULL
  cov,         \* sync_source_states: source |-> interval of days, or NULL
  marker,      \* sync_state historical coverage: certified through this day, or NULL
  checkpoint,  \* sync_state transactional: incremental runs start behind it, or NULL
  pc,          \* where the run of this branch is: its next commit
  run,         \* its request, mode, window, and whether a checkpoint step failed
  read,        \* history: source |-> day |-> the day on which it was last read, or NULL
  events       \* failures, deaths and moves so far

rows == <<cov, marker, checkpoint>>
vars == <<today, reporting, cov, marker, checkpoint, pc, run, read, events>>

Min2(a, b) == IF a <= b THEN a ELSE b
Max2(a, b) == IF a >= b THEN a ELSE b

Interval(a, b) == [from |-> a, to |-> b]
Covers(i, d) == i # NULL /\ i.from <= d /\ d <= i.to

NoRun == [mode |-> "none", start |-> 0, end |-> 0, failed |-> FALSE, since |-> 0]
Points == {"idle", "cleanup", "marker", "checkpoint"} \cup Sources

\* The steps of a branch in their order.  The catalogs and the staff schedules
\* are no checkpoint steps and touch none of these rows.
NextPoint(s) == CASE s = "appointments" -> "finance"
                  [] s = "finance" -> "goods"
                  [] s = "goods" -> "comments"
                  [] s = "comments" -> "marker"

Init ==
  /\ today = FirstDay
  /\ reporting \in Floors \cup {NULL}
  /\ cov = [s \in Detailed |-> NULL]
  /\ marker = NULL
  /\ checkpoint = NULL
  /\ pc = "idle"
  /\ run = NoRun
  /\ read = [s \in Sources |-> [d \in Days |-> NULL]]
  /\ events = 0

-----------------------------------------------------------------------------
(* The window of a run.                                                    *)

FullStart(end) == IF SyncDays > 0 THEN end - SyncDays ELSE Min2(Genesis, end)

HistoryStart(end) == Min2(IF reporting # NULL THEN reporting ELSE Genesis, end)

RefreshStart(end) == Max2(HistoryStart(end), end - RefreshDays)

CompleteThrough(day) ==
  \A s \in Detailed : cov[s] # NULL /\ cov[s].from <= HistoryStart(day) /\ cov[s].to >= day

MarkerValid == marker # NULL /\ CompleteThrough(marker)

IsFullRefresh(mode) == mode \in {"refresh", "full"}

Window(mode, start) == [mode |-> mode, start |-> start]

\* Behind the checkpoint by the lookback, within SYNC_DAYS.
IncrementalWindow(end) ==
  IF Incremental THEN Window("incremental", Max2(FullStart(end), checkpoint - Lookback))
                 ELSE Window("full", FullStart(end))

ResolveWindow(request, end) ==
  LET full == Window("full", HistoryStart(end))
      uncertified == checkpoint # NULL /\ ~MarkerValid
  IN  CASE request = "full" \/ uncertified \/ checkpoint = NULL -> full
        [] request = "refresh" /\ ~Incremental -> full
        [] request = "refresh" /\ Incremental -> Window("refresh", RefreshStart(end))
        [] OTHER -> IncrementalWindow(end)

\* Visits are loaded up to the schedule horizon.
WindowEnd(s) == IF s = "appointments" THEN run.end + Horizon ELSE run.end

-----------------------------------------------------------------------------
(* Coverage rows.  A row holds one interval.                               *)

\* What is left of interval i without [a, b]: the newer side, else the older.
Invalidated(i, a, b) ==
  IF i = NULL \/ i.from > b \/ i.to < a THEN i
  ELSE IF b + 1 <= i.to THEN Interval(b + 1, i.to)
  ELSE IF i.from <= a - 1 THEN Interval(i.from, a - 1)
  ELSE NULL

Touch(i, a, b) == a <= i.to + 1 /\ b >= i.from - 1

\* A mistake: the hull of both intervals, whatever lies between them.
BadMarked(i, a, b) ==
  IF i = NULL THEN Interval(a, b) ELSE Interval(Min2(i.from, a), Max2(i.to, b))

Marked(i, a, b) ==
  IF i = NULL THEN Interval(a, b)
  ELSE IF Touch(i, a, b) THEN Interval(Min2(i.from, a), Max2(i.to, b))
  ELSE IF b > i.to THEN Interval(a, b)
  ELSE i

-----------------------------------------------------------------------------
(* The run.                                                                *)

\* execute_sync fixes the last day, then the window of the branch.  (Hours may
\* pass in between; the window reads nothing that a day passing changes.)
StartRun(request) ==
  /\ pc = "idle"
  /\ LET window == ResolveWindow(request, today)
     IN  /\ run' = [mode |-> window.mode, start |-> window.start, end |-> today,
                    failed |-> FALSE, since |-> events]
         /\ pc' = IF IsFullRefresh(window.mode) THEN "cleanup" ELSE "appointments"
  /\ UNCHANGED <<today, reporting, rows, read, events>>

\* Mistakes: the marker survives; visits are invalidated up to the last day of
\* the run and not up to their horizon.
BadCleanupMarker ==
  /\ pc = "cleanup"
  /\ cov' = [s \in Detailed |-> Invalidated(cov[s], run.start, WindowEnd(s))]
  /\ pc' = "appointments"
  /\ UNCHANGED <<today, reporting, marker, checkpoint, run, read, events>>

\* purge_full_refresh_window: exactly the span each source reloads, and the
\* marker, in one commit.
Cleanup ==
  /\ pc = "cleanup"
  /\ cov' = [s \in Detailed |-> Invalidated(cov[s], run.start, WindowEnd(s))]
  /\ marker' = NULL
  /\ pc' = "appointments"
  /\ UNCHANGED <<today, reporting, checkpoint, run, read, events>>

\* The answer of source s, empty or not: its rows and its coverage in one commit.
Load(s) ==
  /\ pc = s
  /\ cov' = [z \in Detailed |-> IF z = s THEN Marked(cov[z], run.start, WindowEnd(z)) ELSE cov[z]]
  /\ read' = [z \in Sources |->
       [d \in Days |-> IF z = s /\ run.start <= d /\ d <= WindowEnd(z) THEN today ELSE read[z][d]]]
  /\ pc' = NextPoint(s)
  /\ UNCHANGED <<today, reporting, marker, checkpoint, run, events>>

SyncRecords == Load("appointments")
SyncFinancialTransactions == Load("finance")
SyncGoodsTransactions == Load("goods")
SyncComments == Load("comments")

\* A mistake: one mode is named where both are meant (is_full_refresh_mode).
BadCertify ==
  /\ pc = "marker"
  /\ marker' = IF run.mode = "refresh" /\ CompleteThrough(run.end) THEN run.end ELSE marker
  /\ pc' = "checkpoint"
  /\ UNCHANGED <<today, reporting, cov, checkpoint, run, read, events>>

\* The marker is read back from the rows, whichever steps failed.
Certify ==
  /\ pc = "marker"
  /\ marker' = IF IsFullRefresh(run.mode) /\ CompleteThrough(run.end) THEN run.end ELSE marker
  /\ pc' = "checkpoint"
  /\ UNCHANGED <<today, reporting, cov, checkpoint, run, read, events>>

SetCheckpoint ==
  /\ pc = "checkpoint"
  /\ checkpoint' = IF run.failed THEN checkpoint ELSE run.end
  /\ pc' = "idle"
  /\ run' = NoRun
  /\ UNCHANGED <<today, reporting, cov, marker, read, events>>

-----------------------------------------------------------------------------
(* Failures, the operator, time.                                           *)

Event == events < MaxEvents /\ events' = events + 1

\* The source did not answer, or its transaction was rolled back: the run goes on.
LoadFails(s) ==
  /\ pc = s
  /\ Event
  /\ run' = [run EXCEPT !.failed = TRUE]
  /\ pc' = NextPoint(s)
  /\ UNCHANGED <<today, reporting, rows, read>>

\* A failed cleanup skips the branch; a death ends the run.
Abort ==
  /\ pc # "idle"
  /\ Event
  /\ pc' = "idle"
  /\ run' = NoRun
  /\ UNCHANGED <<today, reporting, rows, read>>

\* scripts/set_reporting_window.py: nothing but the column.
SetReportingStart ==
  /\ Event
  /\ \E f \in Floors \cup {NULL} : f # reporting /\ reporting' = f
  /\ UNCHANGED <<today, rows, pc, run, read>>

NextDay ==
  /\ today < MaxDay
  /\ today' = today + 1
  /\ UNCHANGED <<reporting, rows, pc, run, read, events>>

RunStep ==
  \/ \E request \in Requests : StartRun(request)
  \/ Cleanup
  \/ SyncRecords \/ SyncFinancialTransactions \/ SyncGoodsTransactions \/ SyncComments
  \/ Certify \/ SetCheckpoint

Next ==
  \/ RunStep
  \/ \E s \in Sources : LoadFails(s)
  \/ Abort \/ SetReportingStart \/ NextDay

Spec == Init /\ [][Next]_vars

\* The workers keep starting runs and a live run goes on; nobody owes the
\* branch a particular mode.
Fairness == WF_vars(RunStep)

FairSpec == Spec /\ Fairness

-----------------------------------------------------------------------------
(* Properties.                                                             *)

\* Types of the rows, the run and the history; a coverage row is not empty.
Span == {i \in [from : Int, to : Int] : i.from <= i.to}
RunRecord == [mode : Requests \cup {"none"}, start : Int, end : Int, failed : BOOLEAN,
              since : 0 .. MaxEvents]
TypeOK ==
  /\ today \in Int
  /\ reporting \in Floors \cup {NULL}
  /\ cov \in [Detailed -> Span \cup {NULL}]
  /\ marker \in Int \cup {NULL}
  /\ checkpoint \in Int \cup {NULL}
  /\ pc \in Points
  /\ run \in RunRecord
  /\ read \in [Sources -> [Days -> Int \cup {NULL}]]
  /\ events \in 0 .. MaxEvents

\* A day that a coverage row claims was read, and not before it came: visits up
\* to Horizon days ahead, the others never.  No failed step, death, purge or
\* outage leaves a row that bridges days nobody read ("Never bridge a gap and
\* falsely advertise it as complete").
Ahead(s) == IF s = "appointments" THEN Horizon ELSE 0
CoverageTruthful ==
  \A s \in Detailed, d \in Days :
    Covers(cov[s], d) => read[s][d] # NULL /\ d <= read[s][d] + Ahead(s)

\* While the marker stands, every row reaches at least as far as the marker and
\* the checkpoint: an incremental run starts inside what is already covered.
MarkerBacked ==
  marker # NULL =>
    \A s \in Detailed : /\ cov[s] # NULL /\ cov[s].to >= marker
                        /\ checkpoint # NULL => cov[s].to >= checkpoint

\* With the whole history in scope (SYNC_DAYS = 0) an incremental run only adds
\* covered days: it never trades the history of a branch for a newer interval.
IncrementalExtends ==
  [][(SyncDays = 0 /\ run.mode = "incremental" /\ pc \in Sources) =>
       \A s \in Detailed, d \in Days : Covers(cov[s], d) => Covers(cov'[s], d)]_vars

\* A branch without a valid marker is pinned to full runs.  Once failures stop,
\* it gets its marker back ("the branch simply stays in full mode until it does").
Pinned == ~MarkerValid
PinnedEnds == Pinned ~> MarkerValid
=============================================================================
