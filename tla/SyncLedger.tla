------------------------------ MODULE SyncLedger -----------------------------
(***************************************************************************)
(* What the sync queue promises to those who only read its two tables (the *)
(* dashboard's status payload, an operator): the life of a job and of a    *)
(* run, without locks, processes, crashes or time.                         *)
(*                                                                         *)
(*   job: queued -> running -> success | failed, or handed back to queued; *)
(*        jobs start in the order of their ids; a closed job stays closed. *)
(*   run: running -> success | failed | abandoned, one at a time.  A       *)
(*        success can still be turned into a failure, but only while its   *)
(*        run is the newest one (the bookkeeping after it raised).         *)
(*   Only closed rows are ever deleted, and never the newest run.          *)
(***************************************************************************)
EXTENDS Naturals

CONSTANTS JobIds, RunIds

VARIABLES jobStatus, runStatus
ledger == <<jobStatus, runStatus>>

Jobs(S) == {j \in JobIds : jobStatus[j] \in S}
Runs(S) == {r \in RunIds : runStatus[r] \in S}
Unused(i, ids, free) == i \in free /\ \A k \in ids : k < i <=> k \notin free
NewestRun(r) == \A q \in RunIds : q > r => runStatus[q] = "unused"

SetJobs(S, status) ==
  /\ jobStatus' = [j \in JobIds |-> IF j \in S THEN status ELSE jobStatus[j]]
  /\ UNCHANGED runStatus

SetRuns(S, status) ==
  /\ runStatus' = [r \in RunIds |-> IF r \in S THEN status ELSE runStatus[r]]
  /\ UNCHANGED jobStatus

Init ==
  /\ jobStatus = [j \in JobIds |-> "unused"]
  /\ runStatus = [r \in RunIds |-> "unused"]

Enqueue(j) == Unused(j, JobIds, Jobs({"unused"})) /\ SetJobs({j}, "queued")

Claim(j) ==
  /\ j \in Jobs({"queued"}) /\ \A k \in Jobs({"queued"}) : j <= k
  /\ SetJobs({j}, "running")

HandBack(j) == j \in Jobs({"running"}) /\ SetJobs({j}, "queued")

CloseJobs(S) ==
  /\ S \subseteq Jobs({"running"})
  /\ \E status \in {"success", "failed"} : SetJobs(S, status)

OpenRun(r) ==
  /\ Runs({"running"}) = {}
  /\ Unused(r, RunIds, Runs({"unused"}))
  /\ SetRuns({r}, "running")

CloseRun(r) ==
  /\ r \in Runs({"running"})
  /\ \E status \in {"success", "failed", "abandoned"} : SetRuns({r}, status)

DowngradeRun(r) ==
  r \in Runs({"success"}) /\ NewestRun(r) /\ SetRuns({r}, "failed")

DeleteJobs(S) == S \subseteq Jobs({"success", "failed"}) /\ SetJobs(S, "deleted")

DeleteRuns(S) ==
  /\ S \subseteq Runs({"success", "failed", "abandoned"})
  /\ \A r \in S : ~NewestRun(r)
  /\ SetRuns(S, "deleted")

Next ==
  \/ \E j \in JobIds : Enqueue(j) \/ Claim(j) \/ HandBack(j)
  \/ \E S \in SUBSET JobIds : CloseJobs(S) \/ DeleteJobs(S)
  \/ \E r \in RunIds : OpenRun(r) \/ CloseRun(r) \/ DowngradeRun(r)
  \/ \E S \in SUBSET RunIds : DeleteRuns(S)

Spec == Init /\ [][Next]_ledger
=============================================================================
