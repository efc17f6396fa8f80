---------------------------- MODULE PlanSettings ----------------------------
(***************************************************************************)
(* The plan of one month: a page loads the coefficients of the branches    *)
(* and the inputs of their people, and a save replaces the branches' rows  *)
(* whole, with the metrics computed from them, under an advisory lock of   *)
(* the month (dashboard_service.py, planSettings of main.js).  Metrics     *)
(* imported from elsewhere survive until a save edits what they are about. *)
(*                                                                         *)
(* Numbers count halves of what a page shows: clients are shown whole and  *)
(* coefficients to two decimals, and a save takes both as they are typed.  *)
(* A blank input is a row without numbers.  Categories are left out.       *)
(***************************************************************************)
EXTENDS Integers, Functions

CONSTANTS
  Editors,
  Sees,            \* editor -> the branches of the account
  WorksAt,         \* person -> branch
  Scheduled,       \* people with a shift in the month
  Typed,           \* inputs somebody may type
  Shares,          \* coefficients somebody may type
  Imported,        \* metrics of another source at the start
  Template,        \* person -> input of the month a page may be copied from
  TemplateShare,   \* branch -> coefficient of that month
  MaxSaves, MaxTurns  \* bounds: saves, and hires and departures

VARIABLES
  inputs,          \* plan_staff_inputs: person -> input
  shares,          \* plan_branch_settings: branch -> coefficient, 0 without a row
  metrics,         \* plan_metrics
  fired,           \* staff.fired of the mirror
  left,            \* branches whose reporting window ended before the month
  page,            \* what the editor shows
  save,            \* the running save of each editor
  lock,            \* the advisory lock of the month
  saves, turns     \* counters of the bounds

vars == <<inputs, shares, metrics, fired, left, page, save, lock, saves, turns>>

People == DOMAIN WorksAt
Branches == {WorksAt[p] : p \in People}
Free == 0
Blank == 0
Whole == 0         \* the "person" of a branch's own metric

(* Imported metrics: one per branch, person and code, and filed where the person works. *)
ASSUME ConstantsAssumption ==
  /\ Free \notin Editors /\ Whole \notin People
  /\ Sees \in [Editors -> SUBSET Branches]
  /\ Typed \cup Shares \subseteq Nat
  /\ \A p \in People : Template[p] \in Nat
  /\ \A b \in Branches : TemplateShare[b] \in Nat
  /\ \A m \in Imported :
       /\ m \in [co : Branches, who : People \cup {Whole}, code : {"clients", "opz"}, value : Nat, own : {FALSE}]
       /\ m.who # Whole => m.co = WorksAt[m.who]
       /\ \A n \in Imported : n.co = m.co /\ n.who = m.who /\ n.code = m.code => n = m

NoPage == [shown |-> <<>>, share |-> <<>>, copied |-> FALSE, typed |-> FALSE]
Idle == [stage |-> "idle"]

Of(f, p, otherwise) == IF p \in DOMAIN f THEN f[p] ELSE otherwise

(* To what a page shows: half up for clients; for a coefficient either neighbour would do. *)
Rounded(v) == 2 * ((v + 1) \div 2)
Key(m) == <<m.co, m.who, m.code>>
Metric(b, p, code, value) == [co |-> b, who |-> p, code |-> code, value |-> value, own |-> TRUE]
Staffed(b, f) == {p \in DOMAIN f : WorksAt[p] = b /\ f[p] > 0}
Opz(v, share) == 2 * ((v * share + 2) \div 4)

(* _calculate_plan_settings_metrics: of every person with clients, and their sums in a branch. *)
OfPerson(p, v, share) == {Metric(WorksAt[p], p, "clients", Rounded(v)), Metric(WorksAt[p], p, "opz", Opz(v, share))}
OfBranch(b, f, share) ==
  LET people == Staffed(b, f)
  IN  {Metric(b, Whole, "clients", SumFunction([p \in people |-> Rounded(f[p])])),
       Metric(b, Whole, "opz", SumFunction([p \in people |-> Opz(f[p], share)]))}
BranchRows(b, f, share) ==
  IF Staffed(b, f) = {} THEN {}
    ELSE OfBranch(b, f, share) \cup UNION {OfPerson(p, f[p], share) : p \in Staffed(b, f)}
Computed(f, share) == UNION {BranchRows(b, f, share[b]) : b \in DOMAIN share}

(* _plan_settings_snapshot: people without an input get the one an imported metric tells. *)
Snapshot(bs) ==
  LET stored == {p \in DOMAIN inputs : WorksAt[p] \in bs}
      told == {m \in metrics : m.co \in bs /\ m.who # Whole /\ m.code = "clients" /\ m.who \notin stored}
  IN  [p \in stored \cup {m.who : m \in told} |->
         IF p \in stored THEN inputs[p] ELSE (CHOOSE m \in told : m.who = p).value]

(* What a page shows of the numbers of a month is rounded. *)
ShownInputs(people, plan) == [p \in people |-> Rounded(Of(plan, p, Blank))]
ShownShares(bs, stored) == [b \in bs |-> Rounded(stored[b])]

(* fetch_plan_settings: people who work there and whoever the plan names. *)
Fresh(e) ==
  LET bs == Sees[e] \ left
      plan == Snapshot(bs)
      there == {p \in People : WorksAt[p] \in bs /\ (p \notin fired \/ p \in DOMAIN plan)}
  IN  [shown |-> ShownInputs(there, plan), share |-> ShownShares(bs, shares), copied |-> FALSE, typed |-> FALSE]

Init ==
  /\ inputs = <<>> /\ shares = [b \in Branches |-> 0] /\ metrics = Imported
  /\ fired = {} /\ left = {}
  /\ page = [e \in Editors |-> NoPage] /\ save = [e \in Editors |-> Idle]
  /\ lock = Free /\ saves = 0 /\ turns = 0

-----------------------------------------------------------------------------
(* The page *)

(* Nobody saves from this page yet; after the last save of the bound pages do not matter. *)
Still(e) == save[e].stage = "idle" /\ saves < MaxSaves

(* loadPlanSettings *)
Load(e) ==
  /\ Still(e)
  /\ page' = [page EXCEPT ![e] = Fresh(e)]
  /\ UNCHANGED <<inputs, shares, metrics, fired, left, save, lock, saves, turns>>

(* copyPreviousPlanSettings: the people of today with the numbers of another month. *)
Copy(e) ==
  LET bs == Sees[e] \ left
      there == {p \in People : WorksAt[p] \in bs /\ p \notin fired}
  IN  /\ Still(e)
      /\ page' = [page EXCEPT ![e] = [shown |-> ShownInputs(there, Template), share |-> ShownShares(bs, TemplateShare),
                                      copied |-> TRUE, typed |-> FALSE]]
      /\ UNCHANGED <<inputs, shares, metrics, fired, left, save, lock, saves, turns>>

(* One cell is typed into a page: the bound of the editors. *)
Type(e, p, v) ==
  /\ Still(e) /\ p \in DOMAIN page[e].shown /\ ~page[e].typed
  /\ page' = [page EXCEPT ![e].shown[p] = v, ![e].typed = TRUE]
  /\ UNCHANGED <<inputs, shares, metrics, fired, left, save, lock, saves, turns>>

TypeShare(e, b, s) ==
  /\ Still(e) /\ b \in DOMAIN page[e].share /\ ~page[e].typed
  /\ page' = [page EXCEPT ![e].share[b] = s, ![e].typed = TRUE]
  /\ UNCHANGED <<inputs, shares, metrics, fired, left, save, lock, saves, turns>>

-----------------------------------------------------------------------------
(* save_plan_settings *)

(* The request is checked against the windows before it waits for the lock. *)
Submit(e) ==
  /\ Still(e)
  /\ DOMAIN page[e].share # {} /\ DOMAIN page[e].share \cap left = {}
  /\ save' = [save EXCEPT ![e] = [stage |-> "waiting"]]
  /\ saves' = saves + 1
  /\ UNCHANGED <<inputs, shares, metrics, fired, left, page, lock, turns>>

(* A mutant: nobody waits. *)
BadTakeLock(e) ==
  /\ save[e].stage = "waiting"
  /\ save' = [save EXCEPT ![e] = [stage |-> "locked"]]
  /\ UNCHANGED <<inputs, shares, metrics, fired, left, page, lock, saves, turns>>

(* pg_advisory_xact_lock *)
TakeLock(e) ==
  /\ save[e].stage = "waiting" /\ lock = Free
  /\ save' = [save EXCEPT ![e] = [stage |-> "locked"]]
  /\ lock' = e
  /\ UNCHANGED <<inputs, shares, metrics, fired, left, page, saves, turns>>

Release(e) == IF lock = e THEN Free ELSE lock

(* edited_staff_keys, edited_branch_ids *)
EditedPeople(pg, plan) ==
  {p \in DOMAIN pg.shown : pg.copied \/ pg.shown[p] # Of(plan, p, Blank)}
EditedBranches(pg, plan) ==
  {b \in DOMAIN pg.share : pg.copied \/ pg.share[b] # shares[b]}
  \cup {WorksAt[p] : p \in EditedPeople(pg, plan)}

(* People who have left and whom the page does not show keep their inputs. *)
CarriedOver(pg, plan) == IF pg.copied THEN {} ELSE (DOMAIN plan \cap fired) \ DOMAIN pg.shown

(* A mutant: imported metrics give way to what the plan computes. *)
BadImportedKept(pg, plan) == {}

(* Imported metrics stand unless the save edits the person or the branch they are about. *)
ImportedKept(pg, plan) ==
  {m \in metrics : /\ ~m.own /\ m.co \in DOMAIN pg.share /\ ~pg.copied
                   /\ IF m.who = Whole THEN m.co \notin EditedBranches(pg, plan)
                      ELSE m.who \notin EditedPeople(pg, plan)}

(* _period_relevant_staff_clause *)
Relevant(p) == p \notin fired \/ p \in Scheduled \/ p \in DOMAIN inputs \/ \E m \in metrics : m.who = p

(* A mutant: the metrics are computed from the submitted rows alone. *)
BadRowsOf(pg, f) == Computed(pg.shown, pg.share)
RowsOf(pg, f) == Computed(f, pg.share)

(* The snapshot, the checks of the people and the deletes of the branches' rows ... *)
ReadPlan(e) ==
  LET pg == page[e]
      plan == Snapshot(DOMAIN pg.share)
      f == [p \in DOMAIN pg.shown \cup CarriedOver(pg, plan) |-> Of(pg.shown, p, Of(plan, p, Blank))]
      kept == ImportedKept(pg, plan)
      rows == {m \in RowsOf(pg, f) : Key(m) \notin {Key(k) : k \in kept}}
      gone(b) == b \in DOMAIN pg.share
  IN  /\ save[e].stage = "locked" /\ \A p \in DOMAIN f : Relevant(p)
      /\ save' = [save EXCEPT ![e] =
           [stage |-> "ready", inputs |-> f, rows |-> rows \cup kept,
            goneInputs |-> {p \in DOMAIN inputs : gone(WorksAt[p])},
            goneShares |-> {b \in DOMAIN pg.share : shares[b] # 0},
            goneRows |-> {m \in metrics : gone(m.co)}]]
      /\ UNCHANGED <<inputs, shares, metrics, fired, left, page, lock, saves, turns>>

(* ... or a refusal: somebody on the page has nothing to do with the month any more. *)
Refuse(e) ==
  /\ save[e].stage = "locked" /\ \E p \in DOMAIN page[e].shown : ~Relevant(p)
  /\ save' = [save EXCEPT ![e] = Idle]
  /\ lock' = Release(e)
  /\ UNCHANGED <<inputs, shares, metrics, fired, left, page, saves, turns>>

(* PlanSettingsConflict: a new row meets one that the deletes did not see (unique indexes). *)
Collides(e) ==
  LET s == save[e]
      pg == page[e]
  IN  \/ (DOMAIN s.inputs \cap DOMAIN inputs) \ s.goneInputs # {}
      \/ {b \in DOMAIN pg.share : pg.share[b] # 0 /\ shares[b] # 0} \ s.goneShares # {}
      \/ {Key(m) : m \in s.rows} \cap {Key(m) : m \in metrics \ s.goneRows} # {}

(* The inserts and the commit; the page is drawn anew. *)
Commit(e) ==
  LET s == save[e]
      pg == page[e]
      kept == DOMAIN inputs \ s.goneInputs
  IN  /\ s.stage = "ready" /\ ~Collides(e)
      /\ inputs' = [p \in kept \cup DOMAIN s.inputs |-> Of(s.inputs, p, Of(inputs, p, Blank))]
      /\ shares' = [b \in Branches |-> IF b \in DOMAIN pg.share THEN pg.share[b] ELSE shares[b]]
      /\ metrics' = (metrics \ s.goneRows) \cup s.rows
      /\ save' = [save EXCEPT ![e] = Idle]
      /\ lock' = Release(e)
      /\ page' = [page EXCEPT ![e] = NoPage]
      /\ UNCHANGED <<fired, left, saves, turns>>

(* The connection is lost before the commit: everything is rolled back and the lock is free. *)
Abort(e) ==
  /\ save[e].stage = "ready"
  /\ save' = [save EXCEPT ![e] = Idle]
  /\ lock' = Release(e)
  /\ UNCHANGED <<inputs, shares, metrics, fired, left, page, saves, turns>>

-----------------------------------------------------------------------------
(* Meanwhile the sync mirrors who works there, and a branch may leave. *)
Turn(p) ==
  /\ turns < MaxTurns
  /\ fired' = IF p \in fired THEN fired \ {p} ELSE fired \cup {p}
  /\ turns' = turns + 1
  /\ UNCHANGED <<inputs, shares, metrics, left, page, save, lock, saves>>

Leave(b) ==
  /\ turns < MaxTurns /\ b \notin left
  /\ left' = left \cup {b}
  /\ turns' = turns + 1
  /\ UNCHANGED <<inputs, shares, metrics, fired, page, save, lock, saves>>

Next ==
  \/ \E e \in Editors : Load(e) \/ Copy(e) \/ Submit(e) \/ TakeLock(e) \/ ReadPlan(e) \/ Refuse(e)
                        \/ Commit(e) \/ Abort(e)
  \/ \E e \in Editors, p \in People, v \in Typed : Type(e, p, v)
  \/ \E e \in Editors, b \in Branches, s \in Shares : TypeShare(e, b, s)
  \/ \E p \in People : Turn(p)
  \/ \E b \in Branches : Leave(b)

Spec == Init /\ [][Next]_vars

-----------------------------------------------------------------------------
(* The metrics every page of the plan reads are those of the inputs and coefficients stored   *)
(* with them: the rows of one save, whoever left, came or saved in the meantime.               *)
MetricsTellThePlan ==
  LET want == Computed(inputs, shares)
  IN  /\ {m \in metrics : m.own} \subseteq want
      /\ \A w \in want : \E m \in metrics : Key(m) = Key(w)

(* Saves of a month queue up: one that had to wait meets no row its deletes did not see.       *)
SavesQueue == \A e \in Editors : save[e].stage = "ready" => ~Collides(e)

Ends(e) == save[e].stage = "ready" /\ save'[e] = Idle

(* A page tells the numbers of a branch as the month has them. *)
ShownExactly(b) ==
  /\ shares[b] % 2 = 0
  /\ \A p \in DOMAIN Snapshot({b}) : Snapshot({b})[p] % 2 = 0

(* Saving what a fresh page shows changes nothing of a branch whose numbers it shows exactly:   *)
(* its inputs and coefficient stand, and so does the value of every metric, imported ones too.   *)
UneditedSaveIsSilent ==
  [][\A e \in Editors, b \in Branches :
       Ends(e) /\ page[e] = Fresh(e) /\ ShownExactly(b)
       => /\ \A m \in metrics : m.co = b => \E n \in metrics' : Key(n) = Key(m) /\ n.value = m.value
          /\ shares'[b] = shares[b]
          /\ \A p \in DOMAIN inputs : WorksAt[p] = b => Of(inputs', p, Blank) = inputs[p]]_vars

=============================================================================
