--------------------------- MODULE Administrators ---------------------------
(***************************************************************************)
(* Which administrator of a branch is credited with a rebooking or with a  *)
(* finished visit, and the pages that show it: the rows of Plan/fact, an   *)
(* administrator's own overview with its daily series, and the editor of   *)
(* additional rebookings (dashboard_service.py).  Who is an administrator  *)
(* is a question of the month, answered by the plan before the position.   *)
(***************************************************************************)
EXTENDS Rebookings, Functions

CONSTANTS
  Team,            \* staff.id -> [role, user]: the position and the account in YClients
  Plans,           \* plan rows somebody may save: [who, month, metric, role]
  Slots,           \* shifts YClients may answer: [who, day, from, to] with halves of a day
  TopUps,          \* <<who, month>> -> additional rebookings typed in (opz_qty)
  Asked,           \* periods the pages are asked about
  HomeZone,        \* DEFAULT_BRANCH_TIMEZONE
  MaxChanges         \* bound of the changes below

VARIABLES
  plans,           \* plan_staff_inputs and plan_metrics of people (metric)
  shifts,          \* staff_schedules
  gone,            \* staff.fired
  changed          \* counter of the bound

staffing == <<plans, shifts, gone, changed>>
avars == <<appts, zone, opened, now, plans, shifts, gone, changed>>

People == DOMAIN Team
Months == {Month(d) : d \in Days}
Least(S, before(_, _)) == CHOOSE x \in S : \A y \in S : before(x, y)

Turn == changed < MaxChanges /\ changed' = changed + 1

SavePlan(r) ==
  /\ Turn /\ r \notin plans
  /\ plans' = {q \in plans : <<q.who, q.month, q.metric>> # <<r.who, r.month, r.metric>>} \cup {r}
  /\ UNCHANGED <<appts, zone, opened, now, shifts, gone>>

MirrorShift(s) ==
  /\ Turn
  /\ shifts' = IF s \in shifts THEN shifts \ {s} ELSE shifts \cup {s}
  /\ UNCHANGED <<appts, zone, opened, now, plans, gone>>

MirrorDeparture(p) ==
  /\ Turn
  /\ gone' = IF p \in gone THEN gone \ {p} ELSE gone \cup {p}
  /\ UNCHANGED <<appts, zone, opened, now, plans, shifts>>

-----------------------------------------------------------------------------
(* Roles *)

(* _month_slices *)
MonthsOf(from, to) == {m \in Months : FirstDay(m) <= to /\ LastDay(m) >= from}

PlanRows(p, months, metric) == {r \in plans : r.who = p /\ r.month \in months /\ r.metric = metric}

(* _resolve_staff_role_periods: the metrics of the month, or else the input, or else the position. *)
RoleIn(p, m) ==
  LET metrics == PlanRows(p, {m}, TRUE)
      rows == IF metrics # {} THEN metrics ELSE PlanRows(p, {m}, FALSE)
  IN  IF rows = {} THEN Team[p].role ELSE (CHOOSE r \in rows : TRUE).role

(* _administrator_role_periods_by_company, as months *)
AdminMonths(p, from, to) == {m \in MonthsOf(from, to) : RoleIn(p, m) = "administrator"}

(* _period_relevant_staff_clause *)
Relevant(p, from, to) ==
  \/ p \notin gone
  \/ \E s \in shifts : s.who = p /\ s.day \in from - 1 .. to
  \/ \E r \in plans : r.who = p /\ r.month \in MonthsOf(from, to)

(* _resolve_plan_period: the plan of a month, where the period lies in one that has any. *)
PlanMonths(from, to) ==
  {m \in MonthsOf(from, to) : \/ MonthsOf(from, to) = {m} /\ \E r \in plans : r.month = m /\ r.metric
                              \/ from = FirstDay(m) /\ to = LastDay(m)}

(* _plan_metric_components_by_staff, _staff_category *)
Category(p, from, to) ==
  LET ms == PlanMonths(from, to)
  IN  IF \E metric \in BOOLEAN : PlanRows(p, ms, metric) # {} THEN RoleIn(p, Min(ms)) ELSE Team[p].role

(* _branch_staff_role_context: people who left are listed as administrators only. *)
Listed(from, to) ==
  {p \in People : /\ Relevant(p, from, to)
                  /\ p \notin gone \/ Category(p, from, to) = "administrator"}

(* _segment_staff_by_category *)
In(people, m, role) == {p \in people : RoleIn(p, m) = role}

(* A mutant: the roles of the last month of the period. *)
BadRoleSegments(people, from, to) ==
  {[from |-> from, to |-> to, month |-> Max(MonthsOf(from, to))]}

(* _staff_role_segments: adjacent months in which nobody changes the role are one segment. *)
RoleSegments(people, from, to) ==
  LET ms == MonthsOf(from, to)
      same(m, n) == \A k \in m..n : In(people, k, "administrator") = In(people, m, "administrator")
      runs == {r \in ms \X ms : /\ r[1] <= r[2] /\ same(r[1], r[2])
                                /\ r[1] - 1 \in ms => ~same(r[1] - 1, r[1])
                                /\ r[2] + 1 \in ms => ~same(r[2], r[2] + 1)}
  IN  {[from |-> Max({from, FirstDay(r[1])}), to |-> Min({to, LastDay(r[2])}), month |-> r[1]] : r \in runs}

-----------------------------------------------------------------------------
(* Shifts *)

(* _schedule_slot_covers_local_moment: a shift that ends before it starts ends the next day. *)
Covers(s, moment) ==
  /\ 2 * s.day + s.from <= moment
  /\ moment < 2 * (IF s.to <= s.from THEN s.day + 1 ELSE s.day) + s.to

(* _admin_event_context *)
ShiftsOf(people, days) == {s \in shifts : s.who \in people /\ s.day \in days}

(* The shifts of the day and of the day before are looked at. *)
OnShift(people, moment) ==
  {s.who : s \in {x \in ShiftsOf(people, {DayOf(moment) - 1, DayOf(moment)}) : Covers(x, moment)}}

(* _postgres_administrator_schedule_condition *)
CoversInSql(s, moment) ==
  LET sameDay == s.day = DayOf(moment)
      half == moment % 2
  IN  /\ s.day \in {DayOf(moment), DayOf(moment) - 1}
      /\ \/ s.to > s.from /\ sameDay /\ half >= s.from /\ half < s.to
         \/ s.to <= s.from /\ ((sameDay /\ half >= s.from) \/ (~sameDay /\ half < s.to))

(* _administrator_service_scope: the visits behind an administrator's services, by PostgreSQL *)
(* or, for any other database, from rows of _scheduled_staff_ids_by_appointment.              *)
ServiceScope(p, from, to, postgresql) ==
  LET covers(s, moment) == IF postgresql THEN CoversInSql(s, moment) ELSE Covers(s, moment)
  IN  {v \in CompletedVisits(from, to) :
         IF RoleIn(p, Month(Day(v))) = "administrator"
           THEN \E s \in shifts : s.who = p /\ covers(s, Local(v.at))
           ELSE v.barber = p}

-----------------------------------------------------------------------------
(* _admin_event_assignments *)

Nobody == 0
Creator(e, admins) ==
  LET who == {p \in admins : Team[p].user = e.by /\ e.by # Null}
  IN  IF who = {} THEN Nobody ELSE CHOOSE p \in who : TRUE

(* What somebody has so far: of one day, or of all days. *)
Load(given, p, day) == Cardinality({x \in given : x.who = p /\ x.day = day})
Total(given, p) == Cardinality({x \in given : x.who = p})

LeastLoaded(people, given, day) ==
  Least(people, LAMBDA p, q : \/ Load(given, p, day) < Load(given, q, day)
                              \/ /\ Load(given, p, day) = Load(given, q, day)
                                 /\ \/ Total(given, p) < Total(given, q)
                                    \/ Total(given, p) = Total(given, q) /\ p <= q)

LeastOfAll(people, given) ==
  Least(people, LAMBDA p, q : Total(given, p) < Total(given, q) \/ (Total(given, p) = Total(given, q) /\ p <= q))

Assigned(e, admins, given) ==
  LET creator == Creator(e, admins)
      there == OnShift(admins, Local(e.moment))
  IN  IF creator \in there THEN creator
      ELSE IF there # {} THEN LeastLoaded(there, given, LocalDay(e.moment))
      ELSE IF creator # Nobody THEN creator
      ELSE LeastOfAll(admins, given)

Latest(events) ==
  Least(events, LAMBDA a, b : \/ a.day > b.day
                              \/ a.day = b.day /\ (a.moment > b.moment \/ (a.moment = b.moment /\ a.id >= b.id)))

(* What is given away when the events have come in their order. *)
Assignments(events, admins) ==
  LET given[es \in SUBSET events] ==
        IF es = {} THEN {}
        ELSE LET e == Latest(es)
                 before == given[es \ {e}]
             IN  before \cup {[event |-> e.id, who |-> Assigned(e, admins, before), day |-> LocalDay(e.moment)]}
  IN  given[events]

(* Credited events: who -> events. *)
Credits(events, admins) ==
  LET given == IF admins = {} THEN {} ELSE Assignments(events, admins)
  IN  [p \in admins |-> {e \in events : \E x \in given : x.who = p /\ x.event = e.id}]

(* A barber's own visits and their events. *)
OwnVisits(p, s) == {v \in CompletedVisits(s.from, s.to) : v.barber = p}
OwnOpz(p, s, events) == {e \in events : e.day \in s.from..s.to /\ e.barber = p}

(* Events of visits to the barbers of the segment, where it has any. *)
OfBarbers(rows, barbers) == {r \in rows : barbers = {} \/ r.barber \in barbers}

(* A mutant: a page about one person spreads the events over that person alone. *)
BadSpread(s, people, p) == In({p}, s.month, "administrator")

(* Everybody of the branch takes part, whoever is asked about. *)
Spread(s, people, p) == In(people, s.month, "administrator")

(* _admin_opz_events_by_created_appointments *)
CreditedOpz(s, people, admins, events) ==
  Credits(OfBarbers({e \in events : e.day \in s.from..s.to}, In(people, s.month, "barber")), admins)

(* _admin_assigned_records *)
CreditedVisits(s, people, admins) ==
  LET vs == OfBarbers(CompletedVisits(s.from, s.to), In(people, s.month, "barber"))
      event(v) == [id |-> v.id, day |-> Day(v), moment |-> v.at, by |-> v.by]
      credited == Credits({event(v) : v \in vs}, admins)
  IN  [p \in admins |-> {v \in vs : \E e \in credited[p] : e.id = v.id}]

-----------------------------------------------------------------------------
(* Additional rebookings *)

(* _countable_manual_months: whole months, and the month that runs while the page is read. *)
Countable(from, to) ==
  LET today == DayOf(now + HomeZone)
  IN  {m \in MonthsOf(from, to) : /\ from <= FirstDay(m)
                                  /\ to >= LastDay(m) \/ (Month(today) = m /\ to >= today)}

TopUp(p, months) ==
  MapThenSumSet(LAMBDA k : TopUps[k], {k \in DOMAIN TopUps : k[1] = p /\ k[2] \in months /\ LastDay(k[2]) >= opened})

(* _manual_fact_values_for_role_periods: of everybody's months as an administrator. *)
BranchTopUp(from, to, countable) ==
  MapThenSumSet(LAMBDA p : TopUp(p, AdminMonths(p, from, to) \cap countable), {p \in People : Relevant(p, from, to)})

(* _countable_manual_opz_keys: would a value typed in for this month count? *)
Counted(p, m) ==
  LastDay(m) >= opened /\ Relevant(p, FirstDay(m), LastDay(m)) /\ RoleIn(p, m) = "administrator"

-----------------------------------------------------------------------------
(* The pages *)

(* _staff_fact_components_by_branch: one segment of a row *)
Fact(p, x, events, countable) ==
  IF p \in DOMAIN x.opz
    THEN [clients |-> Cardinality(x.visits[p]), opz |-> Cardinality(x.opz[p]),
          topUp |-> TopUp(p, MonthsOf(x.s.from, x.s.to) \cap countable)]
    ELSE [clients |-> Cardinality(OwnVisits(p, x.s)), opz |-> Cardinality(OwnOpz(p, x.s, events)), topUp |-> 0]

(* _staff_plan_groups_for_branch: the rows of Plan/fact.  The pages of a request share the events *)
(* of the branch, which are found once (_opz_events).                                            *)
Rows(from, to, countable, events) ==
  LET people == Listed(from, to)
      admins(s) == In(people, s.month, "administrator")
      parts == {[s |-> s, opz |-> CreditedOpz(s, people, admins(s), events),
                 visits |-> CreditedVisits(s, people, admins(s))] : s \in RoleSegments(people, from, to)}
  IN  [p \in people |-> LET facts == {<<x.s, Fact(p, x, events, countable)>> : x \in parts}
                        IN  [clients |-> MapThenSumSet(LAMBDA f : f[2].clients, facts),
                             opz |-> MapThenSumSet(LAMBDA f : f[2].opz, facts),
                             topUp |-> MapThenSumSet(LAMBDA f : f[2].topUp, facts)]]

(* _branch_row_and_diagnostics: the branch itself *)
BranchRow(from, to, events) ==
  [clients |-> Cardinality(CompletedVisits(from, to)), opz |-> Cardinality(events),
   topUp |-> BranchTopUp(from, to, Countable(from, to))]

(* _admin_opz_by_staff_for_period: what the editor adds the typed number to *)
EditorOpz(from, to, events) ==
  LET people == Listed(from, to)
      credits == {[s |-> s, to |-> CreditedOpz(s, people, In(people, s.month, "administrator"), events)] :
                    s \in RoleSegments(people, from, to)}
  IN  [p \in people |-> MapThenSumSet(LAMBDA c : IF p \in DOMAIN c.to THEN Cardinality(c.to[p]) ELSE 0, credits)]

(* _compute_staff_opz_segments: what the overview of one person is made of *)
OpzSegments(p, from, to, events) ==
  LET people == Listed(from, to)
      admins(s) == Spread(s, people, p)
  IN  IF p \notin people THEN {}
      ELSE {IF p \in admins(s)
              THEN [s |-> s, events |-> CreditedOpz(s, people, admins(s), events)[p],
                    visits |-> CreditedVisits(s, people, admins(s))[p]]
              ELSE [s |-> s, events |-> OwnOpz(p, s, events), visits |-> OwnVisits(p, s)] : s \in RoleSegments(people, from, to)}

(* _staff_opz_window_facts: rebookings after a first and after another visit, visits, first visits *)
WindowFacts(parts) ==
  LET split == Split(UNION {x.events : x \in parts})
  IN  [first |-> split[1], repeat |-> split[2],
       visits |-> MapThenSumSet(LAMBDA x : Cardinality(x.visits), parts),
       firstVisits |-> MapThenSumSet(LAMBDA x : Cardinality(FirstVisits(x.visits, x.s.to)), parts)]

(* fetch_administrator_opz_daily *)
DailySeries(parts, from, to) ==
  LET events == UNION {x.events : x \in parts}
      visits == UNION {x.visits : x \in parts}
  IN  [d \in from..to |-> [opz |-> Cardinality({e \in events : e.day = d}),
                           visits |-> Cardinality({v \in visits : Day(v) = d})]]

(* _manual_opz_scope_keys: only people with a value are asked about. *)
Holders(months) == {p \in People : \E m \in months : <<p, m>> \in DOMAIN TopUps /\ TopUps[<<p, m>>] # 0}

(* _manual_opz_by_month *)
TopUpsByMonth(from, to) ==
  LET countable == Countable(from, to)
      people == {p \in Holders(countable) : Relevant(p, from, to)}
  IN  [m \in countable |-> MapThenSumSet(LAMBDA p : TopUp(p, AdminMonths(p, from, to) \cap {m}), people)]

(* fetch_opz_year_facts: the months of a longer period *)
MonthCounts(from, to, events) ==
  LET topUps == TopUpsByMonth(from, to)
  IN  [m \in MonthsOf(from, to) |-> Cardinality({e \in events : Month(e.day) = m})
                                    + (IF m \in DOMAIN topUps THEN topUps[m] ELSE 0)]

(* _manual_opz_scope_total, _manual_opz_months_total: the overview of the branch *)
ScopeTopUp(from, to) ==
  LET countable == Countable(from, to)
      people == {p \in Holders(countable) : Relevant(p, from, to)}
  IN  MapThenSumSet(LAMBDA p : TopUp(p, AdminMonths(p, from, to) \cap countable), people)

(* _admin_staff_ids_by_company: the people of the editors *)
EditorPeople(m) ==
  LET told(p) == {r.role : r \in PlanRows(p, {m}, TRUE)}
      typed(p) == {r.role : r \in PlanRows(p, {m}, FALSE)}
      category(p) == IF told(p) # {} THEN told(p) ELSE IF typed(p) # {} THEN typed(p) ELSE {Team[p].role}
  IN  {p \in People : Relevant(p, FirstDay(m), LastDay(m)) /\ "administrator" \in category(p)}

-----------------------------------------------------------------------------
AdminInit ==
  /\ \E r \in Readings : zone = r[1] /\ now = r[2]
  /\ appts = {} /\ opened = Min(Days) - 1
  /\ plans = {} /\ shifts \in {{}, Slots} /\ gone = {} /\ changed = 0

AdminNext ==
  \/ \E a \in Answers : Arrive(a) /\ UNCHANGED staffing
  \/ \E r \in Plans : SavePlan(r)
  \/ \E s \in Slots : MirrorShift(s)
  \/ \E p \in People : MirrorDeparture(p)

-----------------------------------------------------------------------------
OneMonth(p) == Cardinality(MonthsOf(p[1], p[2])) = 1

(* What the pages show of a period. *)
Screens(from, to, countable, events) ==
  [rows |-> Rows(from, to, countable, events), branch |-> BranchRow(from, to, events),
   counts |-> MonthCounts(from, to, events),
   editor |-> EditorOpz(from, to, events),
   parts |-> [p \in Listed(from, to) |-> OpzSegments(p, from, to, events)]]
Shown(w) == Screens(w[1], w[2], Countable(w[1], w[2]), Opz(w[1], w[2]))

(* Every rebooking and every finished visit of the barbers listed in a month is in one barber's *)
(* row and, where the month has administrators, in the row of exactly one of them, so the rows  *)
(* add up to the branch but for barbers no longer listed; the additional ones always do.        *)
AddUp(rows, branch, visits, events) ==
  LET people == DOMAIN rows
      barbers(m) == In(people, m, "barber")
      times(m, barber) ==
        (IF barber \in barbers(m) THEN 1 ELSE 0)
        + (IF barbers(m) # people /\ (barbers(m) = {} \/ barber \in barbers(m)) THEN 1 ELSE 0)
  IN  /\ MapThenSumSet(LAMBDA p : rows[p].opz, people)
           = MapThenSumSet(LAMBDA e : times(Month(e.day), e.barber), events)
      /\ MapThenSumSet(LAMBDA p : rows[p].clients, people)
           = MapThenSumSet(LAMBDA v : times(Month(Day(v)), v.barber), visits)
      /\ gone = {} => MapThenSumSet(LAMBDA p : rows[p].topUp, people) = branch.topUp
RowsAddUp ==
  \A w \in Asked : \A events \in {Opz(w[1], w[2])} :
    AddUp(Rows(w[1], w[2], Countable(w[1], w[2]), events), BranchRow(w[1], w[2], events),
          CompletedVisits(w[1], w[2]), events)

(* The overview of a person, its days, the row of Plan/fact and the editor tell of the same     *)
(* rebookings and visits, whichever of them asks and by whichever database.  A typed number that  *)
(* a row counts is one the editor of some month calls countable (in a page about one month, or of *)
(* somebody who has not left), and it calls everybody countable whom it lists.  The months of a    *)
(* period make the period.                                                                         *)
Agree(w, x, p, cards, days) ==
  /\ x.rows[p].opz = cards.first + cards.repeat
  /\ x.rows[p].clients = cards.visits /\ cards.firstVisits <= cards.visits
  /\ MapThenSumSet(LAMBDA d : days[d].opz, DOMAIN days) = x.rows[p].opz
  /\ MapThenSumSet(LAMBDA d : days[d].visits, DOMAIN days) = x.rows[p].clients
  /\ ServiceScope(p, w[1], w[2], TRUE) = ServiceScope(p, w[1], w[2], FALSE)
  /\ OneMonth(w) /\ RoleIn(p, Month(w[1])) = "administrator" => x.editor[p] = x.rows[p].opz
  /\ x.rows[p].topUp > 0 /\ (OneMonth(w) \/ p \notin gone) => \E m \in MonthsOf(w[1], w[2]) : Counted(p, m)
ScreensAgree ==
  \A w \in Asked : \A x \in {Shown(w)} :
    /\ ScopeTopUp(w[1], w[2]) = x.branch.topUp
    /\ x.branch.opz + x.branch.topUp = MapThenSumSet(LAMBDA m : x.counts[m], DOMAIN x.counts)
    /\ \A p \in DOMAIN x.rows : Agree(w, x, p, WindowFacts(x.parts[p]), DailySeries(x.parts[p], w[1], w[2]))
    /\ \A m \in MonthsOf(w[1], w[2]) : \A p \in EditorPeople(m) : Counted(p, m)
=============================================================================
