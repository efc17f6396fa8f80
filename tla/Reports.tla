------------------------------- MODULE Reports -------------------------------
(***************************************************************************)
(* The report catalog: every report is one more way of slicing the rows of *)
(* the overview, and the payment report also nets out the Yandex Pay total *)
(* typed in per branch and month (payment_methods.py).                     *)
(***************************************************************************)
EXTENDS Overview

CONSTANTS
  Typed,           \* Yandex Pay entries [co, month, amount, through]; amount Null clears
  Horizons,        \* months after which a cohort's returns are counted
  ChurnDays,       \* days without a visit after which a client has left
  LookbackDays     \* days of payments that price a client who left

VARIABLE entered   \* manual_payment_amounts

rvars == <<visits, payments, sales, window, covered, now, labels, entered>>

-----------------------------------------------------------------------------
(* Periods of a report *)

Granularities == {"day", "week", "month"}

(* period_key *)
PeriodKey(day, g) ==
  CASE g = "month" -> FirstDay(MonthOf[day])
    [] g = "week" -> day - ((day - 1) % WeekDays)
    [] OTHER -> day

(* period_starts: quiet periods stay on the axis. *)
PeriodStarts(q, g) == {PeriodKey(d, g) : d \in q.from..q.to}

(* appointment_conditions: records of any attendance. *)
Booked(q) ==
  {v \in visits : /\ Within(v.day, q) /\ Business(v.staff) /\ Reported(v.co, v.day)
                  /\ Happened(v) /\ InScope(q, v.co) /\ Chosen(q, v.staff)}

(* build_financial_overview, _aggregate_daily *)
FinancialOverview(q, g) ==
  LET days(k) == {d \in Daily(q) : PeriodKey(d.day, g) = k}
  IN  {[period |-> k,
        revenue |-> Total(LAMBDA d : d.service + d.goods + d.topup, days(k)),
        appointments |-> Total(LAMBDA d : d.appointments, days(k))] : k \in PeriodStarts(q, g)}

-----------------------------------------------------------------------------
(* year_over_year *)

Shown(known, n) == IF known THEN <<n>> ELSE <<>>

(* _year_over_year_activity_bounds: the days of every factual component, whenever it was. *)
ActivityDays(q) ==
  LET ever == At(q, Period(Min(Days), Max(Days)))
  IN  {v.day : v \in CompletedVisits(ever)} \cup {x[2].day : x \in PaidServices(ever)}
      \cup {p.day : p \in GoodsPayments(ever) \cup TopUpPayments(ever)} \cup {g.day : g \in SoldGoods(ever)}

YearDays(y) == {d \in Days : YearOf(MonthOf[d]) = y}

(* _year_periods: the first and the last year are cut to what happened. *)
YearPeriods(q) ==
  LET start == Min(ActivityDays(q))
      cut(y) == Period(Max({start, Min(YearDays(y))}), Min({Today, Max(YearDays(y))}))
  IN  {[year |-> y, cut |-> cut(y),
        partial |-> cut(y) # Period(Min(YearDays(y)), Max(YearDays(y))) \/ y = YearOf(MonthOf[Today])]
       : y \in YearOf(MonthOf[start])..YearOf(MonthOf[Today])}

(* A mutant: the visits a payment leans on are not asked for. *)
BadMissingSources(q, p, lean) ==
  {s \in Sources : \E b \in CompanyIds(q) :
     LET part == Meets(window[b], p)
         range == covered[<<b, s>>]
     IN  ~Empty(part) /\ (range = NoBound \/ range.from > part.from \/ range.to < part.to)}

(* _year_over_year_missing_sources: a source is missing if some branch that reports on part of *)
(* p was not read for all of that part; visits also for the days its revenue leans on, a set of  *)
(* pairs of branch and day.                                                                    *)
MissingSources(q, p, lean) ==
  {s \in Sources : \E b \in CompanyIds(q) :
     LET part == Meets(window[b], p)
         days == {part.from, part.to} \cup (IF s = "appointments" THEN {l[2] : l \in {x \in lean : x[1] = b}} ELSE {})
         range == covered[<<b, s>>]
     IN  ~Empty(part) /\ (range = NoBound \/ range.from > Min(days) \/ range.to < Max(days))}

(* _mask_unknown_year_metrics: a sum of partly known rows is no sum. *)
Masked(f, missing) ==
  [revenue |-> Shown(missing = {}, f.service + f.goods + f.topup),
   appointments |-> Shown("appointments" \notin missing, f.appointments),
   check |-> Shown(missing = {} /\ f.appointments > 0,
                   Ratio(f.service + f.goods + f.topup, f.appointments))]

LeansOn(q, m) == UNION {{b} \X Dependencies(q, b, m) : b \in CompanyIds(q)}
SinceStart(q) == At(q, Period(Min(ActivityDays(q)), Today))

(* build_year_over_year, _year_row *)
YearRow(q, y) ==
  LET h == SinceStart(q)
      facts == CHOOSE f \in YearFacts(h) : f.year = y.year
      lean == UNION {LeansOn(h, m) : m \in {k \in Months : YearOf(k) = y.year}}
  IN  Masked(facts, MissingSources(q, y.cut, lean))

(* _monthly_yoy_rows: the months of a year, each by its own coverage. *)
MonthRow(q, y, m) ==
  LET h == SinceStart(q)
      facts == CHOOSE f \in MonthFacts(h) : f.month = m
      slice == Period(Max({FirstDay(m), y.cut.from}), Min({LastDay(m), y.cut.to}))
  IN  IF Empty(slice) THEN [revenue |-> <<>>, appointments |-> <<>>, check |-> <<>>]
      ELSE Masked(facts, MissingSources(q, slice, LeansOn(h, m)))

-----------------------------------------------------------------------------
(* payment_methods *)

(* entry_dates: a running month is entered up to yesterday, a finished one up to its end. *)
DefaultThrough(m) ==
  IF LastDay(m) < Today THEN LastDay(m) ELSE Max({FirstDay(m), Today - 1})

(* save_yandex_pay, by an editor that shows what is stored. *)
SaveYandexPay(c) ==
  /\ c.month <= MonthOf[Today]
  /\ c.through = Null \/ (c.through \in DaysOf(c.month) /\ c.through <= Today)
  /\ c.co \in NotYetLeft(Branches, FirstDay(c.month))
  /\ entered' = {e \in entered : ~(e.co = c.co /\ e.month = c.month)} \cup
       (IF c.amount = Null THEN {}
        ELSE {[c EXCEPT !.through = IF @ = Null THEN DefaultThrough(c.month) ELSE @]})

MonthsIn(q) == {m \in Months : FirstDay(m) <= q.to /\ LastDay(m) >= q.from}
Entries(b, ms) == {e \in entered : e.co = b /\ e.month \in ms /\ Reported(b, LastDay(e.month))}
CoveredMonths(q, b) == {m \in MonthsIn(q) : Reported(b, LastDay(m))}

(* A mutant: the end of the period is not compared with the day the total reaches. *)
BadApplied(q, b) == \A m \in CoveredMonths(q, b) : q.from <= FirstDay(m)

(* _unapplied_reason: a total stands only against a period that spans all the days it covers. *)
Applied(q, b) ==
  /\ \A m \in CoveredMonths(q, b) : q.from <= FirstDay(m)
  /\ \A e \in Entries(b, CoveredMonths(q, b)) : e.through <= q.to

Columns(q) == {b \in CompanyIds(q) : ~Empty(Meets(window[b], q))}

(* fetch_payment_breakdown: the table decides per branch, all or nothing; ... *)
PaymentTable(q) ==
  LET accounts == RevenueByAccount(q)
      sum(b, name) == Total(LAMBDA r : r.amount, {r \in accounts : r.key[1] = b /\ r.key[3] = name})
      typed(b) == IF Applied(q, b) THEN Entries(b, CoveredMonths(q, b)) ELSE {}
  IN  {[co |-> b, cash |-> sum(b, "cash"), other |-> sum(b, "other"), counted |-> typed(b),
        yandex |-> Amount(typed(b)), cashless |-> sum(b, "cashless") - Amount(typed(b)),
        missing |-> {m \in CoveredMonths(q, b) : /\ Applied(q, b) /\ m <= MonthOf[Today]
                                                 /\ m \notin {e.month : e \in Entries(b, Months)}}]
       : b \in Columns(q)}

(* ... the trend per month and value. *)
PaymentTrend(q) ==
  LET accounts == RevenueByAccount(q)
      sum(m, name) == Total(LAMBDA r : r.amount,
                            {r \in accounts : r.key[1] \in Columns(q) /\ r.key[2] = m /\ r.key[3] = name})
      typed(m) == {e \in UNION {Entries(b, {m}) : b \in Columns(q)} :
                     q.from <= FirstDay(m) /\ e.through <= q.to}
  IN  {[month |-> m, cash |-> sum(m, "cash"), other |-> sum(m, "other"), yandex |-> Amount(typed(m)),
        cashless |-> sum(m, "cashless") - Amount(typed(m))] : m \in MonthsIn(q)}

-----------------------------------------------------------------------------
(* Clients *)

(* A mutant: the staff filter shortens the history of the clients it picks. *)
BadClientRows(q) ==
  LET vs == CompletedVisits(q)
      paid == PaidServices(q)
      past == {v \in History(q) : v.day <= q.to /\ Chosen(q, v.staff)}
  IN  {[client |-> c, visits |-> Cardinality(VisitsOf(vs, c)), lifetime |-> Cardinality(VisitsOf(past, c)),
        revenue |-> PairAmount({x \in paid : x[3].client = c})]
       : c \in {v.client : v \in vs} \cup {x[3].client : x \in paid}}

(* _clients_rows: who came or paid in the period; Null stands for visits without a client. *)
ClientRows(q) ==
  LET vs == CompletedVisits(q)
      paid == PaidServices(q)
      past == {v \in History(q) : v.day <= q.to}
  IN  {[client |-> c, visits |-> Cardinality(VisitsOf(vs, c)), lifetime |-> Cardinality(VisitsOf(past, c)),
        revenue |-> PairAmount({x \in paid : x[3].client = c})]
       : c \in {v.client : v \in vs} \cup {x[3].client : x \in paid}}

(* _client_pareto_rows: a tenth of the clients, the next four, the rest, by what they paid. *)
Pareto(q) ==
  LET rows == {r \in ClientRows(q) : r.client # Null}
      n == Cardinality(rows)
      richer(a, b) == a.revenue > b.revenue \/ (a.revenue = b.revenue /\ a.client > b.client)
      place(r) == Cardinality({x \in rows : richer(x, r)}) + 1
      top == Max({1, (n + 9) \div 10})
      middle == Max({0, (n * 5 + 9) \div 10 - top})
      part(low, high) == {r \in rows : low < place(r) /\ place(r) <= high}
  IN  <<part(0, top), part(top, top + middle), part(top + middle, n)>>

(* _frequency_rows: clients without a visit in the period are a row of their own. *)
FrequencyRows(q) ==
  LET rows == {r \in ClientRows(q) : r.client # Null}
      came(low, high) == {r \in rows : r.visits > 0 /\ low < r.lifetime /\ r.lifetime <= high}
  IN  [one |-> {r \in rows : r.visits > 0 /\ r.lifetime <= OneVisit},
       few |-> came(OneVisit, FewVisits),
       many |-> {r \in rows : r.visits > 0 /\ r.lifetime > FewVisits},
       paidOnly |-> {r \in rows : r.visits <= 0}]

(* _visit_filters *)
ClientVisits(q) == {v \in History(q) : v.client # Null}
PairsOf(vs) == {<<v.co, v.client>> : v \in vs}
In(vs, k) == {v \in vs : v.co = k[1] /\ v.client = k[2]}

(* The order of row_number(): day, moment with none last, id. *)
Earlier(u, v) ==
  \/ u.day < v.day
  \/ /\ u.day = v.day
     /\ \/ u.at # Null /\ (v.at = Null \/ u.at < v.at)
        \/ u.at = v.at /\ u.id < v.id
FirstOf(vs) == CHOOSE v \in vs : \A u \in vs \ {v} : Earlier(v, u)

(* ... and descending, where a visit without a moment comes last among its day's as well. *)
Later(u, v) ==
  \/ u.day > v.day
  \/ /\ u.day = v.day
     /\ \/ u.at # Null /\ (v.at = Null \/ u.at > v.at)
        \/ u.at = v.at /\ u.id > v.id
LastOf(vs) == CHOOSE v \in vs : \A u \in vs \ {v} : Later(v, u)

(* _branch_horizons: a branch that left is known up to its last day. *)
Horizon(b, otherwise) == IF window[b].to # Null /\ window[b].to < Today THEN window[b].to ELSE otherwise

(* _cohort_rows: clients by the month of their first visit, with the day they came again. *)
Cohort(q, m) ==
  LET vs == ClientVisits(q)
      first(k) == FirstOf(In(vs, k))
  IN  {k \in PairsOf(vs) : MonthOf[first(k).day] = m /\ Chosen(q, first(k).staff)}

DayInMonth(d) == d - FirstDay(MonthOf[d])
ReturnedWithin(q, k, months) ==
  LET vs == In(ClientVisits(q), k)
      first == FirstOf(vs).day
      again == {v.day : v \in {u \in vs : u.day > first}}
      elapsed == MonthOf[Min(again)] - MonthOf[first]
                 - (IF DayInMonth(Min(again)) < DayInMonth(first) THEN 1 ELSE 0)
  IN  again # {} /\ elapsed < months

(* A mutant: a cohort's horizon is measured from today for a branch that has left as well. *)
BadMature(b, m, months) == ShiftMonthsBack(LastDay(m), -months) <= Today - 1

(* build_retention_3_6_12: only cohorts all of whose clients have had the time are counted. *)
Mature(b, m, months) == ShiftMonthsBack(LastDay(m), -months) <= Horizon(b, Today - 1)

Retention(q, m, months) ==
  LET ready == {k \in Cohort(q, m) : Mature(k[1], m, months)}
  IN  [size |-> Cardinality(Cohort(q, m)), ready |-> ready,
       returned |-> {k \in ready : ReturnedWithin(q, k, months)}]

(* build_revenue_at_risk, _churn_cutoff: the last visit is in the period and long enough ago. *)
Churned(q) ==
  LET vs == ClientVisits(q)
      last(k) == LastOf(In(vs, k))
  IN  {k \in PairsOf(vs) : /\ Within(last(k).day, q) /\ Chosen(q, last(k).staff)
                           /\ last(k).day <= Horizon(k[1], Today) - ChurnDays}

(* ... priced by what was paid up to the last visit; the payments are read from a bounded window. *)
AtRisk(q, k) ==
  LET last == LastOf(In(ClientVisits(q), k)).day
      read == [At(q, Period(q.from - (LookbackDays - 1), Min({q.to, Today}))) EXCEPT
                 !.sel = [kind |-> "all", ids |-> {}]]
  IN  PairAmount({x \in PaidServices(read) : /\ x[3].co = k[1] /\ x[3].client = k[2]
                                             /\ last - LookbackDays < x[2].day /\ x[2].day <= last})

(* ... against the clients of the period who could have left by now. *)
ChurnBase(q) ==
  PairsOf({v \in ClientVisits(q) : /\ Within(v.day, q) /\ Chosen(q, v.staff)
                                   /\ v.day <= Horizon(v.co, Today) - ChurnDays})

-----------------------------------------------------------------------------
(* Operations, team and goods *)

(* _records_by_period of build_bookings_dynamics and build_booking_channels *)
RecordsByPeriod(q, g) ==
  LET in(k) == {v \in Booked(q) : PeriodKey(v.day, g) = k}
  IN  {[period |-> k, records |-> Cardinality(in(k)),
        completed |-> Cardinality({v \in in(k) : v.att = Completed}),
        noShow |-> Cardinality({v \in in(k) : v.att = Cancelled}),
        online |-> Cardinality({v \in in(k) : v.by = "online"}),
        byStaff |-> Cardinality({v \in in(k) : v.by = "staff"})] : k \in PeriodStarts(q, g)}

(* _staff_records *)
StaffRecords(q) ==
  LET of(s) == {v \in Booked(q) : v.staff = s}
  IN  {[staff |-> s, records |-> Cardinality(of(s)),
        completed |-> Cardinality({v \in of(s) : v.att = Completed}),
        noShow |-> Cardinality({v \in of(s) : v.att = Cancelled})] : s \in {v.staff : v \in Booked(q)}}

(* _local_visit_cells: completed visits by weekday and half of the day, those without a moment apart. *)
PeakLoad(q) ==
  LET vs == {v \in Booked(q) : v.att = Completed}
      cell(v) == <<(DayOf(v.at) - 1) % WeekDays, v.at % 2>>
      timed == {v \in vs : v.at # Null}
  IN  [cells |-> {[cell |-> c, visits |-> Cardinality({v \in timed : cell(v) = c})]
                  : c \in {cell(v) : v \in timed}},
       unplaced |-> Cardinality(vs \ timed)]

(* _staff_rows of build_staff_efficiency: who had records, or only payments for earlier ones. *)
StaffEfficiency(q) ==
  LET of(s) == {v \in Booked(q) : v.staff = s}
      paid == PaidServices(q)
  IN  {[staff |-> s, appointments |-> Cardinality(of(s)), clients |-> Cardinality(Clients(of(s))),
        completed |-> Cardinality({v \in of(s) : v.att = Completed}),
        revenue |-> PairAmount({x \in paid : x[3].staff = s})]
       : s \in {v.staff : v \in Booked(q)} \cup {x[3].staff : x \in paid}}

(* build_service_combos: a pair counts a visit once, however often a line repeats a service. *)
ServicesOf(v) == {l.service : l \in {k \in v.lines : k.qty > 0}}
Combos(q) ==
  {[pair |-> k, visits |-> {v \in CompletedVisits(q) : k[1] \in ServicesOf(v) /\ k[2] \in ServicesOf(v)}]
   : k \in {x \in Services \X Services : x[1] < x[2]}}

(* _goods_visits_by_day: the staff filter picks the visit, whoever sold. *)
AnySeller(q) == [q EXCEPT !.sel = [kind |-> "all", ids |-> {}]]
GoodsVisits(q) ==
  {x[3] : x \in {y \in PaidVisits : y[2] \in GoodsPayments(AnySeller(q)) /\ y[3] \in CompletedVisits(q)}}

(* _unlinked_goods_sales: paid over the counter, or for a visit outside the period. *)
UnlinkedGoods(q) ==
  {p \in GoodsPayments(q) : ~\E v \in CompletedVisits(AnySeller(q)) : Pays(p, v)}

(* _merged_goods: units from stock movements, money from payments; a good with only one of them stays. *)
MergedGoods(q) ==
  LET paid == PaidGoodsRows(q)
      moved == SoldGoods(q)
      size(g) == IF g.qty < 0 THEN -g.qty ELSE g.qty
  IN  {[good |-> t, units |-> Total(size, {g \in moved : g.good = t}),
        revenue |-> Total(LAMBDA r : r.payment.amount, {r \in paid : r.good = t})]
       : t \in {g.good : g \in moved} \cup {r.good : r \in paid}}

(* _seller_rows: by person and branch, sales without a seller in one row of the branch. *)
SellerRows(q) ==
  LET paid == PaidGoodsRows(q)
      key(r) == <<r.payment.co, r.master>>
  IN  {[seller |-> k, count |-> Cardinality({r \in paid : key(r) = k}),
        revenue |-> Total(LAMBDA r : r.payment.amount, {r \in paid : key(r) = k})] : k \in {key(r) : r \in paid}}

-----------------------------------------------------------------------------
RInit == FInit /\ entered = {}

RNext ==
  \/ FNext /\ UNCHANGED entered
  \/ \E c \in Typed : SaveYandexPay(c) /\ UNCHANGED fvars

RSpec == RInit /\ [][RNext]_rvars

=============================================================================
