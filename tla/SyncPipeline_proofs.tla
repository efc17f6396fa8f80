--------------------------- MODULE SyncPipeline_proofs ---------------------------
(***************************************************************************)
(* Proofs about the sync pipeline.  First, that what SyncCoverage records  *)
(* about the days of a branch is true, for every window setting, calendar, *)
(* and bound on failures.  Then how the rows of one step come from         *)
(* YClients (DatedFetch), for any number of rows, any page size and        *)
(* budget, and any behaviour of the endpoint that the model knows; and the *)
(* shifts, for every horizon and pair of clocks.                           *)
(***************************************************************************)
EXTENDS SyncCoverage, MCDatedFetch, FiniteSetTheorems, SequenceTheorems, TLAPS

(***************************************************************************)
(* SyncCoverage.                                                           *)
(***************************************************************************)
\* No row and no live run is ahead of the calendar, and a run ends on a day
\* that no earlier checkpoint has passed.
Calendar ==
  /\ today >= FirstDay
  /\ checkpoint # NULL => FirstDay <= checkpoint /\ checkpoint <= today
  /\ pc # "idle" =>
       /\ FirstDay <= run.end /\ run.end <= today
       /\ run.start <= run.end
       /\ checkpoint # NULL => checkpoint <= run.end
       /\ run.mode \in Requests

\* The sources whose step is over at a point of the run.
Done(point) ==
  CASE point = "finance" -> {"appointments"}
    [] point = "goods" -> {"appointments", "finance"}
    [] point \in {"comments", "marker", "checkpoint"} -> Detailed
    [] OTHER -> {}

\* As long as no step has failed, every source that is done reaches the end of
\* the run.
LoadedSoFar ==
  (pc # "idle" /\ ~run.failed) =>
    \A s \in Done(pc) : cov[s] # NULL /\ cov[s].to >= run.end

\* An incremental run starts inside, or right behind, every row it extends.
StartsInside ==
  (SyncDays = 0 /\ pc # "idle" /\ run.mode = "incremental") =>
    /\ pc # "cleanup"
    /\ \A s \in Detailed : cov[s] # NULL => run.start <= cov[s].to + 1

IInv == TypeOK /\ Calendar /\ CoverageTruthful /\ LoadedSoFar /\ MarkerBacked /\ StartsInside

\* The four loading steps are one action with a source.
LEMMA LoadSteps ==
  (SyncRecords \/ SyncFinancialTransactions \/ SyncGoodsTransactions \/ SyncComments)
    <=> \E s \in Sources : Load(s)
  BY DEF SyncRecords, SyncFinancialTransactions, SyncGoodsTransactions, SyncComments, Sources,
         Detailed

-----------------------------------------------------------------------------
(* The operators on coverage rows.                                         *)

\* A window marked on a row yields a non-empty row that claims the days of the
\* row and of the window at most, reaches the end of both, and contains the
\* old row when the window starts right behind it at the latest.
LEMMA MarkedFacts ==
  ASSUME NEW i \in Span \cup {NULL}, NEW a \in Int, NEW b \in Int, a <= b
  PROVE  /\ Marked(i, a, b) \in Span
         /\ Marked(i, a, b) # NULL
         /\ Marked(i, a, b).to >= b
         /\ i # NULL => Marked(i, a, b).to >= i.to
         /\ \A d \in Int : Covers(Marked(i, a, b), d) => Covers(i, d) \/ (a <= d /\ d <= b)
         /\ (i # NULL /\ a <= i.to + 1) =>
              \A d \in Int : Covers(i, d) => Covers(Marked(i, a, b), d)
  BY ConstantsAssumption
     DEF ConstantsAssumption, Marked, Touch, Interval, Covers, Span, Min2, Max2

\* What a purge leaves of a row is a part of it.
LEMMA InvalidatedFacts ==
  ASSUME NEW i \in Span \cup {NULL}, NEW a \in Int, NEW b \in Int
  PROVE  /\ Invalidated(i, a, b) \in Span \cup {NULL}
         /\ \A d \in Int : Covers(Invalidated(i, a, b), d) => Covers(i, d)
  BY ConstantsAssumption DEF ConstantsAssumption, Invalidated, Interval, Covers, Span

-----------------------------------------------------------------------------
(* The inductive invariant.                                                *)

\* A window starts on its last day at the latest; an incremental one starts
\* behind the first day of the branch, or behind the checkpoint.
LEMMA WindowFacts ==
  ASSUME TypeOK, Calendar, NEW request \in Requests
  PROVE  LET w == ResolveWindow(request, today)
         IN  /\ w.mode \in Requests
             /\ w.start \in Int
             /\ w.start <= today
             /\ (SyncDays = 0 /\ w.mode = "incremental") =>
                  MarkerValid /\ checkpoint # NULL /\ w.start <= checkpoint
  BY ConstantsAssumption
     DEF ConstantsAssumption, TypeOK, Calendar, Requests, ResolveWindow, IncrementalWindow, Window,
         HistoryStart, FullStart, RefreshStart, Min2, Max2

\* Every source reads to the end of the run, visits ahead of it.
LEMMA WindowEndFacts ==
  ASSUME TypeOK, NEW s \in Sources
  PROVE  /\ run.start \in Int /\ run.end \in Int
         /\ WindowEnd(s) \in Int
         /\ run.end <= WindowEnd(s) /\ WindowEnd(s) <= run.end + Ahead(s)
  BY ConstantsAssumption DEF ConstantsAssumption, TypeOK, RunRecord, WindowEnd, Ahead

\* A load leaves a row of the right type that reaches the end of the run.
LEMMA LoadedRow ==
  ASSUME TypeOK, run.start <= run.end, NEW z \in Detailed
  PROVE  /\ Marked(cov[z], run.start, WindowEnd(z)) \in Span
         /\ Marked(cov[z], run.start, WindowEnd(z)) # NULL
         /\ Marked(cov[z], run.start, WindowEnd(z)).to >= WindowEnd(z)
         /\ Marked(cov[z], run.start, WindowEnd(z)).to >= run.end
<1> DEFINE m == Marked(cov[z], run.start, WindowEnd(z))
<1>1. cov[z] \in Span \cup {NULL}
  BY DEF TypeOK
<1>2. z \in Sources
  BY DEF Sources
<1>3. run.start \in Int /\ run.end \in Int /\ WindowEnd(z) \in Int /\ run.end <= WindowEnd(z)
  BY <1>2, WindowEndFacts
<1>4. run.start <= WindowEnd(z)
  BY <1>3
<1>5. m \in Span /\ m # NULL /\ m.to >= WindowEnd(z)
  BY <1>1, <1>3, <1>4, MarkedFacts
<1>6. m.to \in Int
  BY <1>5 DEF Span
<1>7. QED
  BY <1>3, <1>5, <1>6

\* The initial state.
LEMMA InvInit == Init => IInv
<1> SUFFICES ASSUME Init PROVE IInv
  OBVIOUS
<1> USE ConstantsAssumption DEF ConstantsAssumption
<1>1. TypeOK
  BY DEF Init, TypeOK, NoRun, RunRecord, Points, Sources, Detailed
<1>2. Calendar /\ LoadedSoFar /\ MarkerBacked /\ StartsInside
  BY DEF Init, Calendar, LoadedSoFar, MarkerBacked, StartsInside
<1>3. CoverageTruthful
  BY DEF Init, CoverageTruthful, Covers
<1>4. QED
  BY <1>1, <1>2, <1>3 DEF IInv

\* Every step keeps the types.
LEMMA TypeStep == IInv /\ [Next]_vars => TypeOK'
<1> SUFFICES ASSUME IInv, [Next]_vars PROVE TypeOK'
  OBVIOUS
<1> USE ConstantsAssumption
    DEF ConstantsAssumption, TypeOK, RunRecord, Points, Sources, rows
<1> TypeOK /\ Calendar
  BY DEF IInv
<1>1. ASSUME NEW request \in Requests, StartRun(request) PROVE TypeOK'
  <2>1. run' \in RunRecord
    BY <1>1, WindowFacts DEF StartRun
  <2>2. pc' \in Points
    BY <1>1 DEF StartRun, Detailed
  <2>3. QED
    BY <1>1, <2>1, <2>2 DEF StartRun
<1>2. ASSUME Cleanup PROVE TypeOK'
  <2>1. ASSUME NEW s \in Detailed
        PROVE  Invalidated(cov[s], run.start, WindowEnd(s)) \in Span \cup {NULL}
    BY InvalidatedFacts, WindowEndFacts
  <2>2. cov' \in [Detailed -> Span \cup {NULL}]
    BY <1>2, <2>1 DEF Cleanup
  <2>3. QED
    BY <1>2, <2>2 DEF Cleanup, Detailed
<1>3. ASSUME NEW s \in Sources, Load(s) PROVE TypeOK'
  <2>1. run.start <= run.end
    BY <1>3 DEF Load, Calendar, Detailed
  <2>2. ASSUME NEW z \in Detailed
        PROVE  Marked(cov[z], run.start, WindowEnd(z)) \in Span
    BY <2>1, MarkedFacts, WindowEndFacts
  <2>3. cov' \in [Detailed -> Span \cup {NULL}]
    BY <1>3, <2>2 DEF Load
  <2>4. read' \in [Sources -> [Days -> Int \cup {NULL}]]
    BY <1>3 DEF Load
  <2>5. pc' \in Points
    BY <1>3 DEF Load, NextPoint, Detailed
  <2>6. QED
    BY <1>3, <2>3, <2>4, <2>5 DEF Load
<1>4. ASSUME Certify PROVE TypeOK'
  BY <1>4 DEF Certify
<1>5. ASSUME SetCheckpoint PROVE TypeOK'
  BY <1>5 DEF SetCheckpoint, NoRun
<1>6. ASSUME NEW s \in Sources, LoadFails(s) PROVE TypeOK'
  <2>1. run' \in RunRecord
    BY <1>6 DEF LoadFails
  <2>2. pc' \in Points
    BY <1>6 DEF LoadFails, NextPoint, Detailed
  <2>3. events' \in 0 .. MaxEvents
    BY <1>6 DEF LoadFails, Event
  <2>4. QED
    BY <1>6, <2>1, <2>2, <2>3 DEF LoadFails
<1>7. ASSUME Abort PROVE TypeOK'
  BY <1>7 DEF Abort, Event, NoRun
<1>8. ASSUME SetReportingStart PROVE TypeOK'
  BY <1>8 DEF SetReportingStart, Event
<1>9. ASSUME NextDay PROVE TypeOK'
  BY <1>9 DEF NextDay
<1>10. ASSUME UNCHANGED vars PROVE TypeOK'
  BY <1>10 DEF vars
<1>11. QED
  BY <1>1, <1>2, <1>3, <1>4, <1>5, <1>6, <1>7, <1>8, <1>9, <1>10, LoadSteps DEF Next, RunStep

\* Days only move forward, and the checkpoint follows them.
LEMMA CalendarStep == IInv /\ [Next]_vars => Calendar'
<1> SUFFICES ASSUME IInv, [Next]_vars PROVE Calendar'
  OBVIOUS
<1> USE ConstantsAssumption DEF ConstantsAssumption, Calendar, rows
<1> TypeOK /\ Calendar
  BY DEF IInv
<1> run.start \in Int /\ run.end \in Int /\ today \in Int /\ checkpoint \in Int \cup {NULL}
    /\ run \in RunRecord
  BY DEF TypeOK, RunRecord
<1>1. ASSUME NEW request \in Requests, StartRun(request) PROVE Calendar'
  BY <1>1, WindowFacts DEF StartRun
<1>2. ASSUME Cleanup PROVE Calendar'
  BY <1>2 DEF Cleanup
<1>3. ASSUME NEW s \in Sources, Load(s) PROVE Calendar'
  BY <1>3 DEF Load, Sources, Detailed
<1>4. ASSUME Certify PROVE Calendar'
  BY <1>4 DEF Certify
<1>5. ASSUME SetCheckpoint PROVE Calendar'
  BY <1>5 DEF SetCheckpoint
<1>6. ASSUME NEW s \in Sources, LoadFails(s) PROVE Calendar'
  BY <1>6 DEF LoadFails, Sources, Detailed, RunRecord
<1>7. ASSUME Abort PROVE Calendar'
  BY <1>7 DEF Abort
<1>8. ASSUME SetReportingStart PROVE Calendar'
  BY <1>8 DEF SetReportingStart
<1>9. ASSUME NextDay PROVE Calendar'
  BY <1>9 DEF NextDay
<1>10. ASSUME UNCHANGED vars PROVE Calendar'
  BY <1>10 DEF vars
<1>11. QED
  BY <1>1, <1>2, <1>3, <1>4, <1>5, <1>6, <1>7, <1>8, <1>9, <1>10, LoadSteps DEF Next, RunStep

\* A row claims more only where the same commit has just read.
LEMMA TruthStep == IInv /\ [Next]_vars => CoverageTruthful'
<1> SUFFICES ASSUME IInv, [Next]_vars PROVE CoverageTruthful'
  OBVIOUS
<1> USE ConstantsAssumption DEF ConstantsAssumption, rows
<1> TypeOK /\ Calendar /\ CoverageTruthful
  BY DEF IInv
<1>1. Days \subseteq Int /\ Detailed \subseteq Sources
  BY DEF Days, Sources
<1>2. ASSUME Cleanup PROVE CoverageTruthful'
  <2>1. ASSUME NEW s \in Detailed, NEW d \in Days, Covers(cov'[s], d)
        PROVE  Covers(cov[s], d)
    <3>1. cov'[s] = Invalidated(cov[s], run.start, WindowEnd(s))
      BY <1>2 DEF Cleanup
    <3>2. QED
      BY <1>1, <2>1, <3>1, InvalidatedFacts, WindowEndFacts DEF TypeOK
  <2>2. QED
    BY <1>2, <2>1 DEF Cleanup, CoverageTruthful, Ahead
<1>3. ASSUME NEW s \in Sources, Load(s) PROVE CoverageTruthful'
  <2>1. SUFFICES ASSUME NEW z \in Detailed, NEW d \in Days, Covers(cov'[z], d)
                 PROVE  read'[z][d] # NULL /\ d <= read'[z][d] + Ahead(z)
    BY DEF CoverageTruthful, Ahead
  <2>2. cov'[z] = IF z = s THEN Marked(cov[z], run.start, WindowEnd(z)) ELSE cov[z]
    BY <1>3 DEF Load
  <2>3. read'[z][d] = IF z = s /\ run.start <= d /\ d <= WindowEnd(z) THEN today ELSE read[z][d]
    BY <1>1, <1>3 DEF Load
  <2>4. run.start \in Int /\ run.end \in Int /\ today \in Int /\ run.start <= run.end
        /\ run.end <= today /\ pc # "idle"
    BY <1>3 DEF Load, Calendar, TypeOK, RunRecord, Sources, Detailed
  <2>5. CASE z = s /\ run.start <= d /\ d <= WindowEnd(z)
    BY <1>1, <2>3, <2>4, <2>5 DEF WindowEnd, Ahead
  <2>6. CASE ~(z = s /\ run.start <= d /\ d <= WindowEnd(z))
    <3>1. Covers(cov[z], d)
      BY <1>1, <2>1, <2>2, <2>4, <2>6, MarkedFacts DEF TypeOK, WindowEnd
    <3>2. QED
      BY <2>3, <2>6, <3>1 DEF CoverageTruthful
  <2>7. QED
    BY <2>5, <2>6
<1>4. CASE UNCHANGED <<cov, read>>
  BY <1>4 DEF CoverageTruthful, Ahead
<1>5. QED
  BY <1>2, <1>3, <1>4, LoadSteps
     DEF Next, RunStep, StartRun, Certify, SetCheckpoint, LoadFails, Abort, SetReportingStart,
         NextDay, vars

\* A load that succeeds carries its row to the end of the run.
LEMMA LoadedStep == IInv /\ [Next]_vars => LoadedSoFar'
<1> SUFFICES ASSUME IInv, [Next]_vars PROVE LoadedSoFar'
  OBVIOUS
<1> USE ConstantsAssumption DEF ConstantsAssumption, rows
<1> TypeOK /\ Calendar /\ LoadedSoFar
  BY DEF IInv
<1>1. ASSUME NEW request \in Requests, StartRun(request) PROVE LoadedSoFar'
  BY <1>1 DEF StartRun, LoadedSoFar, Done
<1>2. ASSUME Cleanup PROVE LoadedSoFar'
  BY <1>2 DEF Cleanup, LoadedSoFar, Done
<1>3. ASSUME NEW s \in Sources, Load(s) PROVE LoadedSoFar'
  <2>1. SUFFICES ASSUME ~run.failed, NEW z \in Done(pc') 
                 PROVE  cov'[z] # NULL /\ cov'[z].to >= run.end
    BY <1>3 DEF Load, LoadedSoFar
  <2>2. pc = s /\ z \in Detailed /\ (z = s \/ z \in Done(pc)) /\ pc # "idle"
    BY <1>3, <2>1 DEF Load, NextPoint, Done, Sources, Detailed
  <2>3. cov'[z] = IF z = s THEN Marked(cov[z], run.start, WindowEnd(z)) ELSE cov[z]
    BY <1>3, <2>2 DEF Load
  <2>4. run.start \in Int /\ run.end \in Int /\ run.start <= run.end
    BY <2>2 DEF Calendar, TypeOK, RunRecord
  <2>5. CASE z = s
    BY <2>2, <2>3, <2>4, <2>5, LoadedRow
  <2>6. CASE z # s
    BY <2>1, <2>2, <2>3, <2>6 DEF LoadedSoFar
  <2>7. QED
    BY <2>5, <2>6
<1>4. ASSUME Certify PROVE LoadedSoFar'
  BY <1>4 DEF Certify, LoadedSoFar, Done
<1>5. ASSUME NEW s \in Sources, LoadFails(s) PROVE LoadedSoFar'
  BY <1>5 DEF LoadFails, LoadedSoFar, TypeOK, RunRecord
<1>6. CASE SetCheckpoint \/ Abort
  BY <1>6 DEF SetCheckpoint, Abort, LoadedSoFar
<1>7. CASE UNCHANGED <<cov, pc, run>>
  BY <1>7 DEF LoadedSoFar
<1>8. QED
  BY <1>1, <1>2, <1>3, <1>4, <1>5, <1>6, <1>7, LoadSteps
  DEF Next, RunStep, SetReportingStart, NextDay, vars

\* The marker is set only on rows that reach it, and a purge takes it first.
LEMMA MarkerStep == IInv /\ [Next]_vars => MarkerBacked'
<1> SUFFICES ASSUME IInv, [Next]_vars PROVE MarkerBacked'
  OBVIOUS
<1> USE ConstantsAssumption DEF ConstantsAssumption, rows
<1> TypeOK /\ Calendar /\ LoadedSoFar /\ MarkerBacked
  BY DEF IInv
<1>1. ASSUME Cleanup PROVE MarkerBacked'
  BY <1>1 DEF Cleanup, MarkerBacked
<1>2. ASSUME NEW s \in Sources, Load(s) PROVE MarkerBacked'
  <2>1. run.start \in Int /\ run.end \in Int /\ run.start <= run.end
    BY <1>2 DEF Load, Calendar, TypeOK, RunRecord, Sources, Detailed
  <2>2. ASSUME NEW z \in Detailed, cov[z] # NULL
        PROVE  cov'[z] # NULL /\ cov'[z] \in Span /\ cov'[z].to >= cov[z].to
    <3>1. cov'[z] = IF z = s THEN Marked(cov[z], run.start, WindowEnd(z)) ELSE cov[z]
      BY <1>2 DEF Load
    <3>2. cov[z] \in Span
      BY <2>2 DEF TypeOK
    <3>3. Marked(cov[z], run.start, WindowEnd(z)) \in Span
          /\ Marked(cov[z], run.start, WindowEnd(z)) # NULL
          /\ Marked(cov[z], run.start, WindowEnd(z)).to >= cov[z].to
      BY <2>1, <2>2, <3>2, MarkedFacts DEF WindowEnd
    <3>4. QED
      BY <2>2, <3>1, <3>2, <3>3 DEF Span
  <2>3. marker' = marker /\ checkpoint' = checkpoint
    BY <1>2 DEF Load
  <2>4. ASSUME marker # NULL, NEW z \in Detailed
        PROVE  /\ cov'[z] # NULL /\ cov'[z].to >= marker
               /\ checkpoint # NULL => cov'[z].to >= checkpoint
    <3>1. cov[z] # NULL /\ cov[z] \in Span /\ cov[z].to >= marker
          /\ (checkpoint # NULL => cov[z].to >= checkpoint)
      BY <2>4 DEF MarkerBacked, TypeOK
    <3>2. QED
      BY <2>2, <2>4, <3>1 DEF Span, TypeOK
  <2>5. QED
    BY <2>3, <2>4 DEF MarkerBacked
<1>3. ASSUME Certify PROVE MarkerBacked'
  <2>1. CASE marker' = marker
    BY <1>3, <2>1 DEF Certify, MarkerBacked
  <2>2. CASE CompleteThrough(run.end) /\ marker' = run.end
    <3>1. checkpoint # NULL => checkpoint <= run.end
      BY <1>3 DEF Certify, Calendar
    <3>2. \A s \in Detailed : cov[s] # NULL /\ cov[s].to >= run.end /\ cov[s] \in Span
      BY <2>2 DEF CompleteThrough, TypeOK
    <3>3. run.end \in Int /\ checkpoint \in Int \cup {NULL}
      BY DEF TypeOK, RunRecord
    <3>4. QED
      BY <1>3, <2>2, <3>1, <3>2, <3>3 DEF Certify, MarkerBacked, Span
  <2>3. QED
    BY <1>3, <2>1, <2>2 DEF Certify
<1>4. ASSUME SetCheckpoint PROVE MarkerBacked'
  BY <1>4 DEF SetCheckpoint, MarkerBacked, LoadedSoFar, Done
<1>5. CASE UNCHANGED rows
  BY <1>5 DEF MarkerBacked
<1>6. QED
  BY <1>1, <1>2, <1>3, <1>4, <1>5, LoadSteps DEF Next, RunStep, StartRun, LoadFails, Abort,
     SetReportingStart, NextDay, vars

\* An incremental run starts at its checkpoint or earlier, and the rows reach
\* the checkpoint.
LEMMA StartStep == IInv /\ [Next]_vars => StartsInside'
<1> SUFFICES ASSUME IInv, [Next]_vars PROVE StartsInside'
  OBVIOUS
<1> USE ConstantsAssumption DEF ConstantsAssumption, rows
<1> TypeOK /\ Calendar /\ MarkerBacked /\ StartsInside
  BY DEF IInv
<1>1. ASSUME NEW request \in Requests, StartRun(request) PROVE StartsInside'
  <2>1. SUFFICES ASSUME SyncDays = 0, run'.mode = "incremental"
                 PROVE  /\ pc' # "cleanup"
                        /\ \A s \in Detailed : cov[s] # NULL => run'.start <= cov[s].to + 1
    BY <1>1 DEF StartRun, StartsInside
  <2>2. pc' # "cleanup"
    BY <1>1, <2>1 DEF StartRun, IsFullRefresh
  <2>3. marker # NULL /\ checkpoint # NULL /\ run'.start \in Int /\ run'.start <= checkpoint
    BY <1>1, <2>1, WindowFacts DEF StartRun, MarkerValid
  <2>4. ASSUME NEW s \in Detailed, cov[s] # NULL PROVE run'.start <= cov[s].to + 1
    <3>1. cov[s].to \in Int /\ checkpoint \in Int /\ cov[s].to >= checkpoint
      BY <2>3, <2>4 DEF TypeOK, Span, MarkerBacked
    <3>2. QED
      BY <2>3, <3>1
  <2>5. QED
    BY <2>2, <2>4
<1>2. ASSUME Cleanup PROVE StartsInside'
  BY <1>2 DEF Cleanup, StartsInside
<1>3. ASSUME NEW s \in Sources, Load(s) PROVE StartsInside'
  <2>1. run.start \in Int /\ run.end \in Int /\ run.start <= run.end /\ pc # "idle"
    BY <1>3 DEF Load, Calendar, TypeOK, RunRecord, Sources, Detailed
  <2>2. ASSUME SyncDays = 0, run.mode = "incremental", NEW z \in Detailed, cov'[z] # NULL
        PROVE  run.start <= cov'[z].to + 1
    <3>1. cov'[z] = IF z = s THEN Marked(cov[z], run.start, WindowEnd(z)) ELSE cov[z]
      BY <1>3 DEF Load
    <3>2. CASE z = s
      <4>1. cov'[z] \in Span /\ cov'[z].to >= run.end
        BY <2>1, <3>1, <3>2, LoadedRow
      <4>2. cov'[z].to \in Int
        BY <4>1 DEF Span
      <4>3. QED
        BY <2>1, <4>1, <4>2
    <3>3. CASE z # s
      BY <2>1, <2>2, <3>1, <3>3 DEF StartsInside
    <3>4. QED
      BY <3>2, <3>3
  <2>3. pc' # "cleanup" /\ run' = run
    BY <1>3 DEF Load, NextPoint, Sources, Detailed
  <2>4. QED
    BY <2>2, <2>3 DEF StartsInside
<1>4. ASSUME Certify PROVE StartsInside'
  BY <1>4 DEF Certify, StartsInside
<1>5. CASE SetCheckpoint \/ Abort
  BY <1>5 DEF SetCheckpoint, Abort, StartsInside
<1>6. ASSUME NEW s \in Sources, LoadFails(s) PROVE StartsInside'
  BY <1>6 DEF LoadFails, StartsInside, NextPoint, Sources, Detailed, TypeOK, RunRecord
<1>7. CASE UNCHANGED <<cov, pc, run>>
  BY <1>7 DEF StartsInside
<1>8. QED
  BY <1>1, <1>2, <1>3, <1>4, <1>5, <1>6, <1>7, LoadSteps
  DEF Next, RunStep, SetReportingStart, NextDay, vars

\* The invariant holds in every reachable state.
LEMMA Invariant == Spec => []IInv
<1>1. IInv /\ [Next]_vars => IInv'
  BY TypeStep, CalendarStep, TruthStep, LoadedStep, MarkerStep, StartStep DEF IInv
<1>2. QED
  BY InvInit, <1>1, PTL DEF Spec

-----------------------------------------------------------------------------
(* The theorems.                                                           *)

\* Coverage rows are well formed in every state: an interval is never empty.
THEOREM CoverageWellFormed == Spec => []TypeOK
  BY Invariant, PTL DEF IInv

\* Whatever fails, dies or is reconfigured, a coverage row claims no day that
\* its source has not read, nor read too early (mark_sync_source_coverage,
\* invalidate_sync_source_coverage).
THEOREM CoverageIsTruthful == Spec => []CoverageTruthful
  BY Invariant, PTL DEF IInv

\* While the historical marker stands, every row reaches it and the checkpoint
\* (purge_full_refresh_window deletes it in the commit that cuts the rows).
THEOREM MarkerIsBacked == Spec => []MarkerBacked
  BY Invariant, PTL DEF IInv

\* Incremental runs only extend coverage when the whole history is in scope.
THEOREM IncrementalOnlyExtends == Spec => IncrementalExtends
<1> DEFINE Extends ==
      (SyncDays = 0 /\ run.mode = "incremental" /\ pc \in Sources) =>
        \A s \in Detailed, d \in Days : Covers(cov[s], d) => Covers(cov'[s], d)
<1>1. IInv /\ [Next]_vars => [Extends]_vars
  <2> SUFFICES ASSUME IInv, [Next]_vars, SyncDays = 0, run.mode = "incremental", pc \in Sources,
                      NEW z \in Detailed, NEW d \in Days, Covers(cov[z], d)
               PROVE  Covers(cov'[z], d)
    OBVIOUS
  <2> USE ConstantsAssumption DEF ConstantsAssumption, rows
  <2>1. ASSUME NEW s \in Sources, Load(s) PROVE Covers(cov'[z], d)
    <3>1. cov'[z] = IF z = s THEN Marked(cov[z], run.start, WindowEnd(z)) ELSE cov[z]
      BY <2>1 DEF Load
    <3>2. pc # "idle" /\ cov[z] # NULL /\ d \in Int
      BY DEF Sources, Detailed, Covers, Days
    <3>3. run.start \in Int /\ run.end \in Int /\ run.start <= run.end
          /\ run.start <= cov[z].to + 1 /\ cov[z] \in Span
      BY <3>2 DEF IInv, TypeOK, RunRecord, Calendar, StartsInside
    <3>4. QED
      BY <3>1, <3>2, <3>3, MarkedFacts DEF WindowEnd
  <2>2. CASE UNCHANGED cov
    BY <2>2
  <2>3. pc \notin {"cleanup", "idle"}
    BY DEF Sources, Detailed
  <2>4. QED
    BY <2>1, <2>2, <2>3, LoadSteps
       DEF Next, RunStep, StartRun, Cleanup, Certify, SetCheckpoint, LoadFails,
       Abort, SetReportingStart, NextDay, vars
<1>2. QED
  BY Invariant, <1>1, PTL DEF Spec, IncrementalExtends

-----------------------------------------------------------------------------
(***************************************************************************)
(* DatedFetch.                                                             *)
(***************************************************************************)
Day == 0 .. LastDay
Piece == (1 .. LastDay) \X (1 .. LastDay)

\* The types of the variables, and where each of them is used.
TypeInv ==
  /\ source \in [Rows -> Day] /\ stored \in [Rows -> Day]
  /\ got \in [Rows -> Day] /\ items \in [Rows -> Day]
  /\ endpoint \in Endpoints /\ window \in Piece /\ todo \in Seq(Piece)
  /\ page \in Nat \ {0} /\ count \in Nat
  /\ step \in {"idle", "probe", "walk", "store"}
  /\ complete \in BOOLEAN /\ shrunk \in BOOLEAN
  /\ steady \subseteq Rows
  /\ step \in {"probe", "walk"} => todo # <<>>
  /\ step = "store" => todo = <<>>

\* A row that nobody touched was read, or its day is still to be read.
Covered ==
  step # "idle" /\ complete /\ ~shrunk =>
    \A r \in steady : r \in Within(source, window) =>
      got[r] # 0 \/ \E i \in DOMAIN todo : r \in Within(source, todo[i])

\* A walk that stands before its second page holds one full page, all of it rows
\* that are still there unless a row left; beyond, it has more than a page.
WalkInv ==
  step = "walk" =>
    \/ page = 1 /\ items = Nothing /\ count = 0
    \/ /\ page = 2 /\ count = PageSize /\ Cardinality(Held(items)) = PageSize
       /\ ~shrunk => Held(items) \subseteq Matching(Head(todo))
    \/ count > PageSize

FetchInv == TypeInv /\ Covered /\ WalkInv

-----------------------------------------------------------------------------
(* Lemmas about pages and ranges.                                          *)

\* The smaller of two numbers.
LEMMA MinOfTwo ==
  ASSUME NEW a \in Nat, NEW b \in Nat
  PROVE  Min({a, b}) = IF a <= b THEN a ELSE b
<1>1. Min({a, b}) \in {a, b} /\ \A y \in {a, b} : Min({a, b}) <= y
  <2>1. \E x \in {a, b} : \A y \in {a, b} : x =< y
    OBVIOUS
  <2>2. QED
    BY <2>1 DEF Min
<1>2. QED
  BY <1>1

\* What the rows of a request are, whether or not it honours the dates.
LEMMA MatchingRows ==
  ASSUME TypeInv, NEW w \in Piece
  PROVE  /\ Matching(w) \subseteq Rows /\ IsFiniteSet(Matching(w)) /\ Cardinality(Matching(w)) \in Nat
         /\ Within(source, w) \subseteq Matching(w)
         /\ \A r \in Matching(w) : source[r] # 0
<1>1. /\ Matching(w) \subseteq Rows /\ Within(source, w) \subseteq Matching(w)
      /\ \A r \in Matching(w) : source[r] # 0
  BY DEF TypeInv, Matching, Within, Held, Piece, Day
<1>2. IsFiniteSet(Matching(w))
  BY <1>1, FetchAssumption, FS_Subset DEF FetchAssumption
<1>3. QED
  BY <1>1, <1>2, FS_CardinalityType

\* The first page is full, or it is everything.
LEMMA FirstPage ==
  ASSUME TypeInv, NEW w \in Piece, NEW A \in Answers(w, 1)
  PROVE  /\ A \subseteq Matching(w) /\ Cardinality(A) \in Nat /\ Cardinality(A) <= PageSize
         /\ Cardinality(A) < PageSize => A = Matching(w)
         /\ Cardinality(A) >= Cardinality(Matching(w)) => A = Matching(w)
<1> DEFINE all == Matching(w)
           skip == IF endpoint.pages THEN (1 - 1) * PageSize ELSE 0
           passed == Min({skip, Cardinality(all)})
           size == Min({PageSize, Cardinality(all) - passed})
<1>0. PageSize \in Nat /\ IsFiniteSet(all) /\ Cardinality(all) \in Nat
  BY FetchAssumption, MatchingRows DEF FetchAssumption
<1>1. skip = 0
  BY <1>0
<1>2. A \in kSubset(size, all)
  BY DEF Answers
<1> HIDE DEF skip
<1>3. passed = 0
  BY <1>0, <1>1, MinOfTwo
<1> HIDE DEF passed
<1>4. size = IF PageSize <= Cardinality(all) THEN PageSize ELSE Cardinality(all)
  BY <1>0, <1>3, MinOfTwo
<1> HIDE DEF size
<1>5. A \subseteq all /\ Cardinality(A) = size
  BY <1>2 DEF kSubset
<1>6. Cardinality(A) = Cardinality(all) => A = all
  BY <1>0, <1>5, FS_Subset
<1>7. QED
  BY <1>0, <1>4, <1>5, <1>6

\* Nothing on the second page: what there is fits on the first.
LEMMA SecondPage ==
  ASSUME TypeInv, NEW w \in Piece, NEW A \in Answers(w, 2), Cardinality(A) = 0
  PROVE  Cardinality(Matching(w)) <= PageSize
<1> DEFINE all == Matching(w)
           skip == IF endpoint.pages THEN (2 - 1) * PageSize ELSE 0
           passed == Min({skip, Cardinality(all)})
           size == Min({PageSize, Cardinality(all) - passed})
<1>0. PageSize \in Nat /\ PageSize > 0 /\ Cardinality(all) \in Nat
  BY FetchAssumption, MatchingRows DEF FetchAssumption
<1>1. skip = PageSize \/ skip = 0
  BY <1>0
<1>2. A \in kSubset(size, all)
  BY DEF Answers
<1> HIDE DEF skip
<1>3. passed \in Nat /\ passed <= PageSize /\ passed <= Cardinality(all)
  BY <1>0, <1>1, MinOfTwo
<1> HIDE DEF passed
<1>4. size = IF PageSize <= Cardinality(all) - passed THEN PageSize ELSE Cardinality(all) - passed
  <2>1. Cardinality(all) - passed \in Nat
    BY <1>0, <1>3
  <2>2. QED
    BY <1>0, <2>1, MinOfTwo
<1> HIDE DEF size
<1>5. size = 0
  BY <1>2 DEF kSubset
<1>6. QED
  BY <1>0, <1>3, <1>4, <1>5

\* Any page: rows of the request.
LEMMA AnyPage ==
  ASSUME TypeInv, NEW w \in Piece, NEW p \in Nat, NEW A \in Answers(w, p)
  PROVE  A \subseteq Matching(w) /\ Cardinality(A) \in Nat
<1>1. A \subseteq Matching(w)
  BY DEF Answers, kSubset
<1>2. QED
  BY <1>1, MatchingRows, FS_Subset, FS_CardinalityType

\* The halves of a range are ranges, and every day of it is in one of them.
LEMMA HalvesCover ==
  ASSUME NEW w \in Piece, w[1] < w[2]
  PROVE  /\ Halves(w) \in Seq(Piece) /\ Len(Halves(w)) = 2
         /\ \A d \in Nat : w[1] <= d /\ d <= w[2] =>
              \/ Halves(w)[1][1] <= d /\ d <= Halves(w)[1][2]
              \/ Halves(w)[2][1] <= d /\ d <= Halves(w)[2][2]
<1> DEFINE mid == w[1] + (w[2] - w[1]) \div 2
<1>0. w[1] \in 1 .. LastDay /\ w[2] \in 1 .. LastDay /\ LastDay \in Nat
  BY FetchAssumption DEF FetchAssumption, Piece
<1>1. mid \in Nat /\ w[1] <= mid /\ mid < w[2]
  BY <1>0
<1>2. Halves(w) = <<<<w[1], mid>>, <<mid + 1, w[2]>>>>
  BY DEF Halves
<1> HIDE DEF mid
<1>3. <<w[1], mid>> \in Piece /\ <<mid + 1, w[2]>> \in Piece
  BY <1>0, <1>1 DEF Piece
<1>4. QED
  BY <1>0, <1>1, <1>2, <1>3

-----------------------------------------------------------------------------
(* The steps.                                                              *)

\* Before the first step nothing is under way.
LEMMA FetchInvInit == FetchInit => FetchInv
<1> SUFFICES ASSUME FetchInit PROVE FetchInv
  OBVIOUS
<1>1. TypeInv
  <2>1. source \in [Rows -> Day] /\ endpoint \in Endpoints
    BY FetchAssumption DEF FetchAssumption, FetchInit, Day
  <2>2. Nothing \in [Rows -> Day]
    BY FetchAssumption DEF FetchAssumption, Nothing, Day
  <2>3. <<1, LastDay>> \in Piece /\ <<>> \in Seq(Piece)
    BY FetchAssumption DEF FetchAssumption, Piece
  <2>4. stored \in [Rows -> Day] /\ got \in [Rows -> Day] /\ items \in [Rows -> Day]
    BY <2>1, <2>2 DEF FetchInit
  <2>5. /\ window \in Piece /\ todo \in Seq(Piece) /\ page \in Nat \ {0} /\ count \in Nat
        /\ step \in {"idle", "probe", "walk", "store"} /\ step = "idle"
    BY <2>3 DEF FetchInit
  <2>6. complete \in BOOLEAN /\ shrunk \in BOOLEAN /\ steady \subseteq Rows
    BY DEF FetchInit
  <2>7. QED
    BY <2>1, <2>4, <2>5, <2>6 DEF TypeInv
<1>2. Covered /\ WalkInv
  BY DEF FetchInit, Covered, WalkInv
<1>3. QED
  BY <1>1, <1>2 DEF FetchInv

\* What is left of a list when its first range is read, or halved.
LEMMA TailOf ==
  ASSUME NEW s \in Seq(Piece), s # <<>>
  PROVE  /\ Head(s) \in Piece /\ Tail(s) \in Seq(Piece)
         /\ \A i \in DOMAIN s : s[i] = Head(s) \/ \E j \in DOMAIN Tail(s) : Tail(s)[j] = s[i]
<1>1. /\ Len(s) \in Nat \ {0} /\ DOMAIN s = 1 .. Len(s)
      /\ Tail(s) \in Seq(Piece) /\ Len(Tail(s)) = Len(s) - 1 /\ DOMAIN Tail(s) = 1 .. Len(Tail(s))
      /\ Head(s) = s[1] /\ Head(s) \in Piece
  OBVIOUS
<1>2. ASSUME NEW i \in DOMAIN s, i # 1 PROVE i - 1 \in DOMAIN Tail(s) /\ Tail(s)[i - 1] = s[i]
  BY <1>1, <1>2
<1>3. QED
  BY <1>1, <1>2

\* The two halves stand before what is left of the list.
LEMMA Prepended ==
  ASSUME NEW h \in Seq(Piece), Len(h) = 2, NEW s \in Seq(Piece)
  PROVE  /\ h \o s \in Seq(Piece) /\ h \o s # <<>>
         /\ \E k \in DOMAIN (h \o s) : (h \o s)[k] = h[1]
         /\ \E k \in DOMAIN (h \o s) : (h \o s)[k] = h[2]
         /\ \A j \in DOMAIN s : \E k \in DOMAIN (h \o s) : (h \o s)[k] = s[j]
<1>0. /\ h \o s \in Seq(Piece) /\ Len(h \o s) = 2 + Len(s) /\ Len(s) \in Nat
      /\ DOMAIN (h \o s) = 1 .. (2 + Len(s)) /\ DOMAIN s = 1 .. Len(s)
  <2>1. h \o s \in Seq(Piece) /\ Len(h \o s) = Len(h) + Len(s)
    BY ConcatProperties
  <2>2. Len(s) \in Nat /\ DOMAIN s = 1 .. Len(s)
    OBVIOUS
  <2>3. DOMAIN (h \o s) = 1 .. Len(h \o s)
    BY <2>1
  <2>4. QED
    BY <2>1, <2>2, <2>3
<1>1. 1 \in DOMAIN (h \o s) /\ (h \o s)[1] = h[1] /\ 2 \in DOMAIN (h \o s) /\ (h \o s)[2] = h[2]
  BY <1>0
<1>2. ASSUME NEW j \in DOMAIN s PROVE j + 2 \in DOMAIN (h \o s) /\ (h \o s)[j + 2] = s[j]
  BY <1>0
<1>3. h \o s # <<>>
  BY <1>0
<1>4. QED
  BY <1>0, <1>1, <1>2, <1>3

\* A range is done with when every row of it has been returned.
LEMMA PieceRead ==
  ASSUME FetchInv, todo # <<>>, todo' = Tail(todo), UNCHANGED <<source, window, steady, shrunk>>,
         got' \in [Rows -> Day], step # "idle", complete' => complete,
         \A r \in Rows : got[r] # 0 => got'[r] # 0,
         complete' /\ ~shrunk => \A r \in Within(source, Head(todo)) : got'[r] # 0
  PROVE  Covered'
<1> SUFFICES ASSUME complete', ~shrunk, NEW r \in steady, r \in Within(source, window)
             PROVE  got'[r] # 0 \/ \E i \in DOMAIN todo' : r \in Within(source, todo'[i])
  BY DEF Covered, Within
<1>1. CASE got[r] # 0
  BY <1>1 DEF Within
<1>2. ASSUME NEW i \in DOMAIN todo, r \in Within(source, todo[i])
      PROVE  got'[r] # 0 \/ \E j \in DOMAIN todo' : r \in Within(source, todo'[j])
  <2>1. todo[i] = Head(todo) \/ \E j \in DOMAIN Tail(todo) : Tail(todo)[j] = todo[i]
    BY TailOf DEF FetchInv, TypeInv
  <2>2. QED
    BY <1>2, <2>1
<1>3. QED
  BY <1>1, <1>2 DEF FetchInv, Covered

\* The first page of a range: what is read is all of it, or the range stays on
\* the list, halved or to be walked.
LEMMA ProbeStep == FetchInv /\ Probe => FetchInv'
<1> SUFFICES ASSUME FetchInv, Probe PROVE FetchInv'
  OBVIOUS
<1> DEFINE w == Head(todo)
<1>0. /\ todo # <<>> /\ todo \in Seq(Piece) /\ w \in Piece /\ Tail(todo) \in Seq(Piece) /\ step = "probe"
      /\ UNCHANGED <<source, stored, window, full, endpoint, complete, steady, shrunk>>
      /\ source \in [Rows -> Day] /\ got \in [Rows -> Day] /\ TypeInv /\ Covered
  BY TailOf DEF Probe, FetchInv, TypeInv, fetch, history
<1>1. PICK A \in Answers(w, 1) :
        \/ /\ Cardinality(A) < PageSize
           /\ KeepNewRows(Dated(A)) /\ Taken(w)
           /\ UNCHANGED <<page, items, count>>
        \/ /\ Cardinality(A) >= PageSize /\ w[1] < w[2]
           /\ todo' = Halves(w) \o Tail(todo)
           /\ UNCHANGED <<got, step, page, items, count>>
        \/ /\ Cardinality(A) >= PageSize /\ w[1] >= w[2]
           /\ step' = "walk" /\ page' = 1 /\ items' = Nothing /\ count' = 0
           /\ UNCHANGED <<got, todo>>
  BY DEF Probe
<1> HIDE DEF w
<1>2. CASE Cardinality(A) < PageSize /\ KeepNewRows(Dated(A)) /\ Taken(w) /\ UNCHANGED <<page, items, count>>
  <2>1. A = Matching(w) /\ Within(source, w) \subseteq A /\ A \subseteq Rows /\ \A r \in A : source[r] # 0
    BY <1>0, <1>2, FirstPage, MatchingRows
  <2>2. /\ got' \in [Rows -> Day]
        /\ \A r \in Rows : got'[r] = IF got[r] # 0 THEN got[r] ELSE IF r \in A THEN source[r] ELSE 0
    BY <1>0, <1>2, FetchAssumption DEF KeepNewRows, Dated, Day, FetchAssumption
  <2>3. /\ todo' = Tail(todo) /\ step' \in {"probe", "store"}
        /\ step' = "probe" => todo' # <<>>
        /\ step' = "store" => todo' = <<>>
    BY <1>2 DEF Taken
  <2>4. Covered'
    <3>1. \A r \in Within(source, Head(todo)) : got'[r] # 0
      BY <2>1, <2>2 DEF w
    <3>2. QED
      BY <1>0, <1>2, <2>2, <2>3, <3>1, PieceRead
  <2>5. TypeInv'
    BY <1>0, <1>2, <2>2, <2>3 DEF TypeInv
  <2>6. QED
    BY <2>3, <2>4, <2>5 DEF FetchInv, WalkInv
<1>3. CASE w[1] < w[2] /\ todo' = Halves(w) \o Tail(todo) /\ UNCHANGED <<got, step, page, items, count>>
  <2>1. /\ Halves(w) \in Seq(Piece) /\ Len(Halves(w)) = 2
        /\ \A d \in Nat : w[1] <= d /\ d <= w[2] =>
             \/ Halves(w)[1][1] <= d /\ d <= Halves(w)[1][2]
             \/ Halves(w)[2][1] <= d /\ d <= Halves(w)[2][2]
    BY <1>0, <1>3, HalvesCover
  <2>2. /\ todo' \in Seq(Piece) /\ todo' # <<>>
        /\ \E k \in DOMAIN todo' : todo'[k] = Halves(w)[1]
        /\ \E k \in DOMAIN todo' : todo'[k] = Halves(w)[2]
        /\ \A j \in DOMAIN Tail(todo) : \E k \in DOMAIN todo' : todo'[k] = Tail(todo)[j]
    <3> DEFINE h == Halves(w)
               s == Tail(todo)
    <3>1. h \in Seq(Piece) /\ Len(h) = 2 /\ s \in Seq(Piece) /\ todo' = h \o s
      BY <1>0, <1>3, <2>1
    <3> HIDE DEF h, s
    <3>2. /\ h \o s \in Seq(Piece) /\ h \o s # <<>>
          /\ \E k \in DOMAIN (h \o s) : (h \o s)[k] = h[1]
          /\ \E k \in DOMAIN (h \o s) : (h \o s)[k] = h[2]
          /\ \A j \in DOMAIN s : \E k \in DOMAIN (h \o s) : (h \o s)[k] = s[j]
      BY <3>1, Prepended
    <3>3. QED
      BY <3>1, <3>2 DEF h, s
  <2>3. ASSUME NEW r \in Rows, NEW i \in DOMAIN todo, r \in Within(source, todo[i])
        PROVE  \E k \in DOMAIN todo' : r \in Within(source, todo'[k])
    <3>1. CASE todo[i] = w
      <4>1. source[r] \in Nat /\ w[1] <= source[r] /\ source[r] <= w[2]
        BY <1>0, <2>3, <3>1, FetchAssumption DEF Within, Day, FetchAssumption
      <4>2. QED
        BY <2>1, <2>2, <4>1 DEF Within
    <3>2. ASSUME NEW j \in DOMAIN Tail(todo), Tail(todo)[j] = todo[i]
          PROVE  \E k \in DOMAIN todo' : r \in Within(source, todo'[k])
      BY <2>2, <2>3, <3>2
    <3>3. QED
      BY <1>0, <3>1, <3>2, TailOf DEF w
  <2>4. Covered'
    <3>1. \A r \in Rows : r \in Within(source, window)' <=> r \in Within(source, window)
      BY <1>0 DEF Within
    <3>2. \A k : Within(source', todo'[k]) = Within(source, todo'[k])
      BY <1>0
    <3>3. QED
      BY <1>0, <1>3, <2>3, <3>1, <3>2 DEF Covered, TypeInv
  <2>5. TypeInv'
    BY <1>0, <1>3, <2>2 DEF TypeInv
  <2>6. QED
    BY <1>0, <1>3, <2>4, <2>5 DEF FetchInv, WalkInv
<1>4. CASE step' = "walk" /\ page' = 1 /\ items' = Nothing /\ count' = 0 /\ UNCHANGED <<got, todo>>
  <2>1. items' \in [Rows -> Day]
    BY <1>4, FetchAssumption DEF Nothing, Day, FetchAssumption
  <2>2. TypeInv'
    BY <1>0, <1>4, <2>1 DEF TypeInv
  <2>3. QED
    BY <1>0, <1>4, <2>2 DEF FetchInv, Covered, WalkInv, Within, Nothing
<1>5. QED
  BY <1>1, <1>2, <1>3, <1>4

\* A walk that ends within a page has read every row that did not leave: it was
\* short, or its second page was empty.
LEMMA WalkReadsAll ==
  ASSUME FetchInv, step = "walk", ~shrunk, NEW A \in Answers(Head(todo), page), NEW n,
         n = Min({count + Cardinality(A), ManyItems}), LastPage(A, n), ~Exposed(n)
  PROVE  Matching(Head(todo)) \subseteq A \cup Held(items)
<1> DEFINE w == Head(todo)
           all == Matching(w)
<1>0. /\ TypeInv /\ w \in Piece /\ PageSize \in Nat /\ PageSize > 0 /\ ManyItems \in Nat /\ ManyItems > PageSize
      /\ count \in Nat /\ page \in Nat
  <2>1. PageSize \in Nat /\ PageSize > 0 /\ ManyItems > PageSize + Cardinality(Rows) /\ Cardinality(Rows) \in Nat
    BY FetchAssumption, FS_CardinalityType DEF FetchAssumption
  <2>2. QED
    BY <2>1, FetchAssumption, TailOf DEF FetchAssumption, FetchInv, TypeInv
<1>1. A \subseteq all /\ Cardinality(A) \in Nat /\ IsFiniteSet(all) /\ Cardinality(all) \in Nat /\ all \subseteq Rows
  BY <1>0, AnyPage, MatchingRows
<1>2. n = IF count + Cardinality(A) <= ManyItems THEN count + Cardinality(A) ELSE ManyItems
  BY <1>0, <1>1, MinOfTwo
<1>3. n <= PageSize
  BY <1>0, <1>1, <1>2 DEF Exposed
<1>4. CASE page = 1 /\ count = 0
  <2>1. Cardinality(A) < PageSize \/ Cardinality(A) >= Cardinality(all)
    <3>1. n >= Cardinality(all) => Cardinality(A) >= Cardinality(all)
      BY <1>0, <1>1, <1>2, <1>4
    <3>2. QED
      BY <3>1 DEF LastPage
  <2>2. QED
    BY <1>0, <1>4, <2>1, FirstPage
<1>5. CASE page = 2 /\ count = PageSize /\ Cardinality(Held(items)) = PageSize /\ Held(items) \subseteq all
  <2>1. Cardinality(A) = 0
    BY <1>0, <1>1, <1>2, <1>3, <1>5
  <2>2. Cardinality(all) <= PageSize
    BY <1>0, <1>5, <2>1, SecondPage
  <2>3. Cardinality(Held(items)) <= Cardinality(all)
    BY <1>1, <1>5, FS_Subset
  <2>4. Cardinality(Held(items)) = Cardinality(all)
    BY <1>0, <1>1, <1>5, <2>2, <2>3
  <2>5. Held(items) = all
    BY <1>1, <1>5, <2>4, FS_Subset
  <2>6. QED
    BY <2>5
<1>6. CASE count > PageSize
  BY <1>0, <1>1, <1>2, <1>3, <1>6
<1>7. QED
  BY <1>4, <1>5, <1>6 DEF FetchInv, WalkInv

\* A page of a walk: the last one closes the range, and the fetch counts as
\* complete only if the walk had no page to lose a row between.
LEMMA ReadStep == FetchInv /\ ReadPage => FetchInv'
<1> SUFFICES ASSUME FetchInv, ReadPage PROVE FetchInv'
  OBVIOUS
<1> DEFINE w == Head(todo)
<1>0. /\ todo # <<>> /\ todo \in Seq(Piece) /\ w \in Piece /\ Tail(todo) \in Seq(Piece) /\ step = "walk"
      /\ UNCHANGED <<source, stored, window, full, endpoint, steady, shrunk>>
      /\ source \in [Rows -> Day] /\ got \in [Rows -> Day] /\ items \in [Rows -> Day]
      /\ TypeInv /\ Covered /\ WalkInv
  BY TailOf DEF ReadPage, FetchInv, TypeInv, fetch, history
<1>00. /\ PageSize \in Nat /\ PageSize > 0 /\ ManyItems \in Nat /\ ManyItems > PageSize
       /\ count \in Nat /\ page \in Nat \ {0}
  <2>1. PageSize \in Nat /\ PageSize > 0 /\ ManyItems > PageSize + Cardinality(Rows) /\ Cardinality(Rows) \in Nat
    BY FetchAssumption, FS_CardinalityType DEF FetchAssumption
  <2>2. QED
    BY <2>1, FetchAssumption DEF FetchAssumption, FetchInv, TypeInv
<1> DEFINE total(A) == Min({count + Cardinality(A), ManyItems})
           joined(A) == [r \in Rows |-> IF items[r] # 0 THEN items[r] ELSE Dated(A)[r]]
<1>1. PICK A \in Answers(w, page) :
        \/ /\ LastPage(A, total(A))
           /\ complete' = (complete /\ ~Exposed(total(A)))
           /\ KeepNewRows(joined(A)) /\ Taken(w)
           /\ page' = 1 /\ items' = Nothing /\ count' = 0
        \/ /\ ~LastPage(A, total(A))
           /\ page' = Min({page + 1, ManyItems}) /\ items' = joined(A) /\ count' = total(A)
           /\ UNCHANGED <<complete, got, todo, step>>
  BY DEF ReadPage
<1>2. /\ A \subseteq Matching(w) /\ Cardinality(A) \in Nat /\ A \subseteq Rows
      /\ \A r \in Matching(w) : source[r] # 0
      /\ Within(source, w) \subseteq Matching(w)
  BY <1>0, <1>00, AnyPage, MatchingRows
<1>3. /\ joined(A) \in [Rows -> Day]
      /\ \A r \in Rows : joined(A)[r] = IF items[r] # 0 THEN items[r] ELSE IF r \in A THEN source[r] ELSE 0
  BY <1>0, FetchAssumption DEF Dated, Day, FetchAssumption
<1>4. /\ total(A) \in Nat
      /\ total(A) = IF count + Cardinality(A) <= ManyItems THEN count + Cardinality(A) ELSE ManyItems
  BY <1>00, <1>2, MinOfTwo
<1> DEFINE n == total(A)
           both == joined(A)
<1>5. /\ n \in Nat /\ n = IF count + Cardinality(A) <= ManyItems THEN count + Cardinality(A) ELSE ManyItems
      /\ n = Min({count + Cardinality(A), ManyItems})
  BY <1>4
<1>6. /\ both \in [Rows -> Day]
      /\ \A r \in Rows : both[r] = IF items[r] # 0 THEN items[r] ELSE IF r \in A THEN source[r] ELSE 0
  BY <1>3
<1>7. \/ /\ LastPage(A, n)
         /\ complete' = (complete /\ ~Exposed(n))
         /\ KeepNewRows(both) /\ Taken(w)
         /\ page' = 1 /\ items' = Nothing /\ count' = 0
      \/ /\ ~LastPage(A, n)
         /\ page' = Min({page + 1, ManyItems}) /\ items' = both /\ count' = n
         /\ UNCHANGED <<complete, got, todo, step>>
  BY <1>1
<1> HIDE DEF n, both, total, joined
<1>8. CASE /\ LastPage(A, n) /\ complete' = (complete /\ ~Exposed(n)) /\ KeepNewRows(both) /\ Taken(w)
           /\ page' = 1 /\ items' = Nothing /\ count' = 0
  <2>1. /\ got' \in [Rows -> Day] /\ items' \in [Rows -> Day]
        /\ \A r \in Rows : got'[r] = IF got[r] # 0 THEN got[r] ELSE both[r]
    BY <1>0, <1>6, <1>8, FetchAssumption DEF KeepNewRows, Nothing, Day, FetchAssumption
  <2>2. /\ todo' = Tail(todo) /\ step' \in {"probe", "store"}
        /\ step' = "probe" => todo' # <<>>
        /\ step' = "store" => todo' = <<>>
    BY <1>8 DEF Taken
  <2>3. complete' \in BOOLEAN /\ (complete' => complete) /\ (complete' => ~Exposed(n))
    BY <1>8
  <2>4. ASSUME complete', ~shrunk, NEW r \in Within(source, w) PROVE got'[r] # 0
    <3>1. r \in A \cup Held(items)
      BY <1>0, <1>2, <1>5, <1>8, <2>3, <2>4, WalkReadsAll DEF w
    <3>2. r \in Rows /\ both[r] # 0
      BY <1>2, <1>6, <2>4, <3>1 DEF Held
    <3>3. QED
      BY <2>1, <3>2
  <2>5. Covered'
    <3>1. complete' /\ ~shrunk => \A r \in Within(source, Head(todo)) : got'[r] # 0
      BY <2>4 DEF w
    <3>2. \A r \in Rows : got[r] # 0 => got'[r] # 0
      BY <2>1
    <3>3. QED
      BY <1>0, <2>1, <2>2, <2>3, <3>1, <3>2, PieceRead
  <2>6. TypeInv'
    BY <1>0, <1>8, <2>1, <2>2, <2>3 DEF TypeInv
  <2>7. QED
    BY <2>2, <2>5, <2>6 DEF FetchInv, WalkInv
<1>9. CASE /\ ~LastPage(A, n) /\ page' = Min({page + 1, ManyItems}) /\ items' = both /\ count' = n
           /\ UNCHANGED <<complete, got, todo, step>>
  <2>1. Cardinality(A) >= PageSize
    BY <1>00, <1>2, <1>9 DEF LastPage
  <2>2. page' = IF page + 1 <= ManyItems THEN page + 1 ELSE ManyItems
    BY <1>00, <1>9, MinOfTwo
  <2>3. page' \in Nat \ {0}
    BY <1>00, <2>2
  <2>4. ASSUME page = 1, items = Nothing, count = 0 PROVE WalkInv'
    <3>1. Cardinality(A) = PageSize /\ n = PageSize /\ page' = 2
      <4>1. Cardinality(A) <= PageSize
        BY <1>0, <2>4, FirstPage
      <4>2. QED
        BY <1>00, <1>2, <1>5, <2>1, <2>2, <2>4, <4>1
    <3>2. Held(both) = A
      BY <1>2, <1>6, <2>4 DEF Held, Nothing
    <3>3. Matching(w)' = Matching(w)
      BY <1>0, <1>9 DEF Matching, Within, Held
    <3>4. QED
      BY <1>2, <1>9, <3>1, <3>2, <3>3 DEF WalkInv, w
  <2>5. ASSUME count >= PageSize PROVE WalkInv'
    <3>1. n > PageSize
      BY <1>00, <1>2, <1>5, <2>1, <2>5
    <3>2. QED
      BY <1>9, <3>1 DEF WalkInv
  <2>6. WalkInv'
    BY <1>0, <1>00, <2>4, <2>5 DEF WalkInv
  <2>7. TypeInv'
    BY <1>0, <1>5, <1>6, <1>9, <2>3 DEF TypeInv
  <2>8. Covered'
    BY <1>0, <1>9 DEF Covered, Within
  <2>9. QED
    BY <2>6, <2>7, <2>8 DEF FetchInv
<1>10. QED
  BY <1>7, <1>8, <1>9

\* Somebody touches one row: what is known of the others stays, and a row that
\* leaves a walk is noticed.
LEMMA ChangeStep == ASSUME FetchInv, NEW r \in Rows, NEW d \in Day, Change(r, d) PROVE FetchInv'
<1>0. /\ source \in [Rows -> Day] /\ source' = [source EXCEPT ![r] = d]
      /\ steady' = steady \ {r} /\ steady \subseteq Rows
      /\ UNCHANGED <<stored, endpoint, window, full, step, todo, got, page, items, count, complete>>
      /\ shrunk' = (shrunk \/ (step = "walk" /\ page > 1 /\ r \in Matching(Head(todo))))
      /\ TypeInv /\ Covered /\ WalkInv
  BY DEF Change, FetchInv, TypeInv, fetch, progress
<1>1. \A q \in Rows \ {r} : source'[q] = source[q]
  BY <1>0
<1>2. shrunk' \in BOOLEAN /\ (~shrunk' => ~shrunk)
  BY <1>0
<1>3. TypeInv'
  <2>1. source' \in [Rows -> Day]
    BY <1>0
  <2>2. QED
    BY <1>0, <1>2, <2>1 DEF TypeInv
<1>4. Covered'
  BY <1>0, <1>1, <1>2 DEF Covered, Within
<1>5. WalkInv'
  <2> SUFFICES ASSUME step = "walk", page = 2, Held(items) \subseteq Matching(Head(todo)), ~shrunk'
               PROVE  Held(items) \subseteq Matching(Head(todo))'
    BY <1>0, <1>2 DEF WalkInv, Held
  <2>1. r \notin Matching(Head(todo))
    <3>1. page > 1
      OBVIOUS
    <3>2. shrunk' = (shrunk \/ (step = "walk" /\ page > 1 /\ r \in Matching(Head(todo))))
      BY <1>0
    <3>3. QED
      BY <3>1, <3>2, Zenon
  <2>2. \A q \in Matching(Head(todo)) : q \in Matching(Head(todo))'
    <3>1. \A q \in Matching(Head(todo)) : q \in Rows /\ source'[q] = source[q]
      BY <1>1, <2>1 DEF Matching, Within, Held
    <3>2. QED
      BY <1>0, <3>1 DEF Matching, Within, Held
  <2>3. QED
    BY <2>2
<1>6. QED
  BY <1>3, <1>4, <1>5 DEF FetchInv

\* The invariant is kept.
LEMMA FetchInvStep == FetchInv /\ [FetchNext]_fetchVars => FetchInv'
<1> SUFFICES ASSUME FetchInv, [FetchNext]_fetchVars PROVE FetchInv'
  OBVIOUS
<1>1. ASSUME NEW w \in Windows, NEW f \in BOOLEAN, BeginStep(w, f) PROVE FetchInv'
  <2>1. w \in Piece /\ <<w>> \in Seq(Piece) /\ <<w>> # <<>> /\ DOMAIN <<w>> = {1} /\ <<w>>[1] = w
    BY FetchAssumption DEF FetchAssumption, Piece
  <2>2. Nothing \in [Rows -> Day]
    BY FetchAssumption DEF FetchAssumption, Nothing, Day
  <2>3. TypeInv'
    BY <1>1, <2>1, <2>2 DEF BeginStep, FetchInv, TypeInv, Held
  <2>4. Covered'
    BY <1>1, <2>1 DEF BeginStep, Covered, Within
  <2>5. QED
    BY <1>1, <2>3, <2>4 DEF BeginStep, FetchInv, WalkInv
<1>2. CASE Probe
  BY <1>2, ProbeStep
<1>3. CASE ReadPage
  BY <1>3, ReadStep
<1>4. CASE Abandon \/ OutOfBudget
  <2>1. Nothing \in [Rows -> Day] /\ <<>> \in Seq(Piece)
    BY FetchAssumption DEF FetchAssumption, Nothing, Day
  <2>2. /\ got' = Nothing /\ items' = Nothing /\ todo' = <<>> /\ step' = "idle" /\ page' = 1 /\ count' = 0
        /\ UNCHANGED <<source, stored, window, full, endpoint, complete, steady, shrunk>>
    BY <1>4 DEF Abandon, OutOfBudget, fetch, history
  <2>3. TypeInv'
    BY <2>1, <2>2 DEF FetchInv, TypeInv
  <2>4. QED
    BY <2>2, <2>3 DEF FetchInv, Covered, WalkInv
<1>5. CASE Store \/ RollBack
  <2>1. Nothing \in [Rows -> Day]
    BY FetchAssumption DEF FetchAssumption, Nothing, Day
  <2>2. stored' \in [Rows -> Day]
    BY <1>5, FetchAssumption DEF Store, RollBack, FetchInv, TypeInv, Day, FetchAssumption
  <2>3. TypeInv'
    BY <1>5, <2>1, <2>2 DEF Store, RollBack, FetchInv, TypeInv, fetch, history
  <2>4. QED
    BY <1>5, <2>3 DEF Store, RollBack, FetchInv, Covered, WalkInv
<1>6. ASSUME NEW r \in Rows, NEW d \in 0 .. LastDay, Change(r, d) PROVE FetchInv'
  BY <1>6, ChangeStep DEF Day
<1>7. CASE UNCHANGED fetchVars
  BY <1>7 DEF fetchVars, fetch, progress, history, FetchInv, TypeInv, Covered, WalkInv, Within, Held, Matching
<1>8. QED
  BY <1>1, <1>2, <1>3, <1>4, <1>5, <1>6, <1>7 DEF FetchNext

\* The invariant holds of every behaviour.
LEMMA FetchInvariant == FetchSpec => []FetchInv
  BY FetchInvInit, FetchInvStep, PTL DEF FetchSpec

\* What is read counts as complete only when nothing that stood still is missing:
\* for every way to order the rows of a day, every page size and every endpoint.
THEOREM ReadsWhatStands == FetchSpec => []SteadyRowsRead
<1>1. FetchInv => SteadyRowsRead
  <2> SUFFICES ASSUME FetchInv, step = "store", complete, ~shrunk, NEW r \in steady, r \in Within(source, window)
               PROVE  r \in Held(got)
    BY DEF SteadyRowsRead
  <2>1. DOMAIN todo = {}
    BY DEF FetchInv, TypeInv
  <2>2. got[r] # 0
    BY <2>1 DEF FetchInv, Covered
  <2>3. QED
    BY <2>2 DEF Held, Within
<1>2. QED
  BY <1>1, FetchInvariant, PTL

\* What NoSteadyRowLost says of one step.
LosesNoSteadyRow ==
  \A r \in Held(stored) \ Held(stored') : r \notin steady \/ stored[r] # source[r] \/ shrunk

\* A purge is safe: it takes rows out of the mirror only where the window was
\* read completely, and puts back what was read.
THEOREM PurgesSafely == FetchSpec => NoSteadyRowLost
<1>1. FetchInv /\ [FetchNext]_fetchVars => LosesNoSteadyRow
  <2> SUFFICES ASSUME FetchInv, [FetchNext]_fetchVars PROVE LosesNoSteadyRow
    OBVIOUS
  <2>1. CASE stored' = stored
    BY <2>1 DEF LosesNoSteadyRow, Held
  <2>2. CASE Store
    <3> SUFFICES ASSUME NEW r \in Held(stored), r \notin Held(stored'), r \in steady, stored[r] = source[r], ~shrunk
                 PROVE  FALSE
      BY DEF LosesNoSteadyRow
    <3> DEFINE purged == IF Held(got) # {} /\ WindowSafeToPurge THEN Within(stored, window) ELSE {}
    <3>1. /\ r \in Rows /\ stored[r] # 0
          /\ stored'[r] = IF got[r] # 0 THEN got[r] ELSE IF r \in purged THEN 0 ELSE stored[r]
      BY <2>2 DEF Store, Held
    <3>2. got[r] = 0 /\ r \in purged
      BY <3>1 DEF Held
    <3>3. complete /\ r \in Within(source, window)
      BY <3>1, <3>2 DEF WindowSafeToPurge, Within
    <3>4. DOMAIN todo = {} /\ step = "store"
      BY <2>2 DEF Store, FetchInv, TypeInv
    <3>5. QED
      BY <3>2, <3>3, <3>4 DEF FetchInv, Covered
  <2>3. QED
    BY <2>1, <2>2
       DEF FetchNext, BeginStep, Probe, ReadPage, Abandon, OutOfBudget, RollBack, Change, fetchVars
<1>2. QED
  BY <1>1, FetchInvariant, PTL DEF FetchSpec, NoSteadyRowLost, LosesNoSteadyRow

-----------------------------------------------------------------------------
(* The shifts.                                                             *)

\* A day in `done` is over at the branch, and its shift is mirrored.
ShiftsInv ==
  /\ branch \in Nat /\ server \in Nat /\ rotaRun \in Nat
  /\ done \subseteq Rota!Days /\ rota \subseteq Rota!Days
  /\ shifts \in [Rota!Days -> Nat]
  /\ \A d \in done : d < branch /\ shifts[d] > 0

\* An answer is stored: a day that is not cleared keeps its shift, and one that
\* is worked gets one.
LEMMA StoredShifts ==
  ASSUME NEW empty \in BOOLEAN, NEW worked \in SUBSET Int, ShiftsInv, Rota!Store(empty, worked)
  PROVE  /\ shifts' \in [Rota!Days -> Nat]
         /\ \A d \in Rota!Days :
              (d \notin Rota!Replaced(empty) /\ shifts[d] > 0) \/ d \in Rota!Kept(worked) => shifts'[d] > 0
         /\ rotaRun' = 0 /\ UNCHANGED <<server, branch, rota>>
<1>1. /\ shifts' = [d \in Rota!Days |->
           (IF d \in Rota!Replaced(empty) THEN 0 ELSE shifts[d]) + (IF d \in Rota!Kept(worked) THEN 1 ELSE 0)]
      /\ rotaRun' = 0 /\ UNCHANGED <<server, branch, rota>>
  BY DEF Rota!Store
<1>2. shifts \in [Rota!Days -> Nat]
  BY DEF ShiftsInv
<1>3. \A d \in Rota!Days : shifts'[d] =
        (IF d \in Rota!Replaced(empty) THEN 0 ELSE shifts[d]) + (IF d \in Rota!Kept(worked) THEN 1 ELSE 0)
  BY <1>1
<1>4. \A d \in Rota!Days : shifts[d] \in Nat
  BY <1>2
<1>5. \A d \in Rota!Days : shifts'[d] \in Nat
  BY <1>3, <1>4
<1>6. shifts' \in [Rota!Days -> Nat]
  BY <1>1, <1>3, <1>5
<1>7. QED
  BY <1>1, <1>3, <1>4, <1>6

\* Nothing is mirrored as over before the branch's date has passed it.
LEMMA ShiftsInit == Rota!Init => ShiftsInv
<1> SUFFICES ASSUME Rota!Init PROVE ShiftsInv
  OBVIOUS
<1>1. Rota!Days \subseteq Nat
  BY RotaAssumption DEF RotaAssumption, Rota!Days
<1>2. /\ server = 1 /\ branch \in 0 .. 2 /\ rota \in SUBSET Rota!Days /\ rotaRun = 0
      /\ shifts = [d \in Rota!Days |-> IF d \in rota THEN 1 ELSE 0]
      /\ done = {d \in rota : d < branch}
  BY DEF Rota!Init
<1>3. shifts \in [Rota!Days -> Nat] /\ \A d \in rota : shifts[d] = 1
  BY <1>2
<1>4. branch \in Nat /\ server \in Nat /\ done \subseteq Rota!Days /\ rota \subseteq Rota!Days
  BY <1>2
<1>5. QED
  BY <1>2, <1>3, <1>4 DEF ShiftsInv

\* The invariant is kept: an answer with entries rewrites what it denies, and an
\* empty one clears no day before the branch's date.
LEMMA ShiftsStep == ShiftsInv /\ [Rota!Next]_(Rota!vars) => ShiftsInv'
<1> SUFFICES ASSUME ShiftsInv, [Rota!Next]_(Rota!vars) PROVE ShiftsInv'
  OBVIOUS
<1>0. LastDate \in Nat /\ DaysAhead \in Nat /\ Rota!Days \subseteq Nat /\ Rota!Days = 0 .. LastDate + DaysAhead
  BY RotaAssumption DEF RotaAssumption, Rota!Days
<1>a. /\ branch \in Nat /\ server \in Nat /\ rotaRun \in Nat
      /\ done \subseteq Rota!Days /\ rota \subseteq Rota!Days
      /\ shifts \in [Rota!Days -> Nat]
      /\ \A d \in done : d < branch /\ shifts[d] > 0
      /\ \A d \in Rota!Days : d \in Nat
  BY <1>0 DEF ShiftsInv
<1>1. CASE Rota!ServerMidnight
  BY <1>1, <1>a DEF Rota!ServerMidnight, ShiftsInv
<1>2. CASE Rota!BranchMidnight
  <2>1. /\ branch' = branch + 1 /\ done' \subseteq done \cup {branch} /\ branch < LastDate
        /\ (branch \in done' => branch \in done \/ shifts[branch] > 0)
        /\ UNCHANGED <<server, rota, shifts, rotaRun>>
    BY <1>2 DEF Rota!BranchMidnight
  <2>2. branch \in Rota!Days
    BY <1>0, <1>a, <2>1
  <2>3. QED
    BY <1>0, <1>a, <2>1, <2>2 DEF ShiftsInv
<1>3. ASSUME NEW d \in Rota!Days, Rota!Edit(d) PROVE ShiftsInv'
  BY <1>3, <1>a DEF Rota!Edit, ShiftsInv
<1>4. CASE Rota!Begin
  BY <1>4, <1>a DEF Rota!Begin, ShiftsInv
<1>5. CASE Rota!SyncStaffSchedules
  <2>1. PICK worked \in Rota!Told :
          /\ Rota!Store(FALSE, worked)
          /\ done' = (done \ Rota!Window) \cup {d \in rota \cap Rota!Window : d < branch}
    BY <1>5 DEF Rota!SyncStaffSchedules
  <2>2. worked \in SUBSET Int /\ rota \cap Rota!Window \subseteq worked /\ rotaRun \in Nat
    BY <1>0, <1>a, <2>1 DEF Rota!Told, Rota!Window
  <2>3. /\ shifts' \in [Rota!Days -> Nat]
        /\ \A d \in Rota!Days :
             (d \notin Rota!Replaced(FALSE) /\ shifts[d] > 0) \/ d \in Rota!Kept(worked) => shifts'[d] > 0
        /\ rotaRun' = 0 /\ UNCHANGED <<server, branch, rota>>
    BY <2>1, <2>2, StoredShifts
  <2>4. ASSUME NEW d \in done' PROVE d \in Rota!Days /\ d < branch' /\ shifts'[d] > 0
    <3>1. d \in Rota!Days /\ d < branch' /\ d \in Nat
      BY <1>a, <2>1, <2>3
    <3>2. CASE d \in done \ Rota!Window
      BY <1>a, <2>3, <3>1, <3>2 DEF Rota!Replaced
    <3>3. CASE d \in rota \cap Rota!Window
      <4>1. d \in worked /\ d >= rotaRun
        BY <1>a, <2>2, <3>1, <3>3 DEF Rota!Window
      <4>2. d # rotaRun - 1
        BY <1>a, <3>1, <4>1
      <4>3. d \in Rota!Kept(worked)
        BY <4>1, <4>2 DEF Rota!Kept
      <4>4. QED
        BY <2>3, <3>1, <4>3
    <3>4. QED
      BY <2>1, <3>2, <3>3
  <2>5. done' \subseteq Rota!Days /\ \A d \in done' : d < branch' /\ shifts'[d] > 0
    BY <2>4
  <2>6. QED
    BY <1>a, <2>3, <2>5 DEF ShiftsInv
<1>6. CASE Rota!EmptyAnswer
  <2>1. Rota!Store(TRUE, {}) /\ done' = done
    BY <1>6 DEF Rota!EmptyAnswer
  <2>2. /\ shifts' \in [Rota!Days -> Nat]
        /\ \A d \in Rota!Days : d \notin Rota!Replaced(TRUE) /\ shifts[d] > 0 => shifts'[d] > 0
        /\ rotaRun' = 0 /\ UNCHANGED <<server, branch, rota>>
    BY <2>1, StoredShifts
  <2>3. \A d \in done : d \notin Rota!Replaced(TRUE)
    BY <1>a DEF Rota!Replaced, Rota!DeleteFrom, Rota!Window
  <2>4. QED
    BY <1>a, <2>1, <2>2, <2>3 DEF ShiftsInv
<1>7. CASE Rota!Fail
  BY <1>7, <1>a DEF Rota!Fail, ShiftsInv
<1>8. CASE UNCHANGED Rota!vars
  BY <1>8, <1>a DEF Rota!vars, ShiftsInv
<1>9. QED
  BY <1>1, <1>2, <1>3, <1>4, <1>5, <1>6, <1>7, <1>8 DEF Rota!Next

\* A shift that was mirrored when its day ended stays until YClients denies it,
\* for every horizon and however the two clocks differ.
THEOREM PastShiftsStay == Rota!Spec => []PastShiftsKept
<1>1. ShiftsInv => PastShiftsKept
  BY DEF ShiftsInv, PastShiftsKept, Rota!PastShiftsKept
<1>2. QED
  BY <1>1, ShiftsInit, ShiftsStep, PTL DEF Rota!Spec

-----------------------------------------------------------------------------
\* The behaviours that the run checks are behaviours of both parts, so that the
\* theorems above speak of them.
THEOREM PullIsBoth == PullSpec => FetchSpec /\ Rota!Spec
<1>1. PullInit => FetchInit /\ Rota!Init
  BY DEF PullInit
<1>2. [PullNext]_<<part, fetchVars, rotaVars>> => [FetchNext]_fetchVars /\ [Rota!Next]_(Rota!vars)
  BY DEF PullNext, rotaVars, Rota!vars
<1>3. QED
  BY <1>1, <1>2, PTL DEF PullSpec, FetchSpec, Rota!Spec
=============================================================================
