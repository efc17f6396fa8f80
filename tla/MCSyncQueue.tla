----------------------------- MODULE MCSyncQueue -----------------------------
(* SyncQueue with the ledger it implements, for TLC.                       *)
EXTENDS SyncQueue

\* A row is unused until its id is drawn, and deleted once retention took it.
StatusOf(row, drawn) ==
  IF row.status # "none" THEN row.status ELSE IF drawn THEN "deleted" ELSE "unused"

JobStatus == [j \in JobIds |-> StatusOf(jobs[j], j \in UsedJobs)]
RunStatus == [r \in RunIds |-> StatusOf(runs[r], r \in UsedRuns)]

Ledger == INSTANCE SyncLedger WITH jobStatus <- JobStatus, runStatus <- RunStatus

\* With one docker worker (and any runs of main.py) every commit of the queue
\* is one step of the ledger, or none: first in first out, one run at a time,
\* closed jobs stay closed, across crashes, exceptions and retention.
ImplementsLedger == Ledger!Spec
=============================================================================
