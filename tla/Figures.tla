------------------------------ MODULE Figures ------------------------------
(***************************************************************************)
(* The figures of the overview, each as the code derives it from the       *)
(* mirrored rows: dashboard_service.py queries become sets of rows and     *)
(* sums over them.  A question q names the period [from, to], one branch   *)
(* (co, 0 for none), the branches the account may see (limited, allowed)   *)
(* and the staff filter sel: all, one person, or a group of people, where  *)
(* an empty group is a filter that matches nobody.                         *)
(***************************************************************************)
EXTENDS Mirror, TLC

CONSTANTS
  MonthsBack,      \* preset -> the number of months its baseline steps back
  WeekDays,        \* the length of a week
  OneVisit,        \* the last count of the first bucket of visit frequencies
  FewVisits,       \* the last count of the second
  CashType, CashlessType  \* account.type of YClients

VARIABLES labels   \* service_labels: <<company, service>> pairs marked extra

fvars == <<visits, payments, sales, window, covered, now, labels>>

-----------------------------------------------------------------------------
(* Periods *)

Length(p) == p.to - p.from + 1
Within(day, p) == p.from <= day /\ day <= p.to
Period(from, to) == [from |-> from, to |-> to]

(* shift_months_back: the same day of an earlier month, or its last one; 0 before the calendar *)
(* and the day after its last one behind it.                                                   *)
ShiftMonthsBack(day, k) ==
  LET m == MonthOf[day] - k
  IN  IF m < 1 THEN 0
      ELSE IF m \notin Months THEN Max(Days) + 1
      ELSE Min({FirstDay(m) + day - FirstDay(MonthOf[day]), LastDay(m)})

PrecedingWindow(p) == Period(p.from - Length(p), p.from - 1)

(* DateRange._shifted_period: whole months land on whole months. *)
ShiftedPeriod(p, preset) ==
  LET k == MonthsBack[preset]
      whole == p.from = FirstDay(MonthOf[p.from]) /\ p.to = LastDay(MonthOf[p.to])
      to == ShiftMonthsBack(p.to, k)
  IN  IF preset = "week" THEN Period(p.from - WeekDays, p.to - WeekDays)
      ELSE IF preset \notin DOMAIN MonthsBack THEN PrecedingWindow(p)
      ELSE Period(ShiftMonthsBack(p.from, k), IF whole /\ to > 0 THEN LastDay(MonthOf[to]) ELSE to)

(* DateRange.previous_period; a baseline that starts before the calendar is PeriodOutOfRangeError. *)
PreviousPeriod(p, preset) ==
  LET shifted == ShiftedPeriod(p, preset)
  IN  IF shifted.to < p.from THEN shifted ELSE PrecedingWindow(p)

-----------------------------------------------------------------------------
(* Who and where *)

(* _staff_match *)
Chosen(q, s) == q.sel.kind = "all" \/ s \in q.sel.ids

(* _company_scope_clause: no restriction and an empty list of branches are not the same. *)
InScope(q, b) == (q.co = Null \/ b = q.co) /\ (~q.limited \/ b \in q.allowed)

(* _appointment_company_ids: the branches whose rows answer the question. *)
CompanyIds(q) ==
  LET open == IF q.limited THEN q.allowed ELSE Branches
      home == {WorksAt[s] : s \in q.sel.ids \cap Staff}
  IN  CASE q.sel.kind = "group" -> {b \in home : InScope(q, b)}
        [] q.sel.kind = "one" -> home \cap open
        [] OTHER -> IF q.co = Null THEN open ELSE {q.co} \cap open

(* The callers hand the resolved branches on as the allowed ones. *)
Resolved(q) == [q EXCEPT !.limited = TRUE, !.allowed = CompanyIds(q)]
At(q, p) == [q EXCEPT !.from = p.from, !.to = p.to]

-----------------------------------------------------------------------------
(* Rows behind the figures *)

(* _client_scope_filters without the client: completed visits of the scope, whenever they were. *)
History(q) ==
  {v \in visits : /\ v.att = Completed /\ Business(v.staff)
                  /\ Reported(v.co, v.day) /\ InScope(q, v.co) /\ Happened(v)}

(* _appt_revenue_filters *)
CompletedVisits(q) == {v \in History(q) : Within(v.day, q) /\ Chosen(q, v.staff)}

(* _goods_revenue_filters; a moment of a day past is at most now, so days decide here. *)
SoldGoods(q) ==
  {g \in sales : /\ g.sale /\ Within(g.day, q) /\ Business(g.master) /\ Reported(g.co, g.day)
                 /\ InScope(q, g.co) /\ Chosen(q, g.master) /\ g.day <= Today}

(* cosmetics_goods_clause *)
Cosmetics(q) == {g \in SoldGoods(q) : g.cosmetics}

(* _service_paid_filters with _physical_account_condition over the union of the two joins:   *)
(* both the visit and the payment lie in the reporting window, the payment in the period.    *)
PaidServices(q) ==
  {x \in PaidVisits :
     LET p == x[2]
         v == x[3]
     IN  /\ p.kind = "service" /\ v.att = Completed /\ p.amount > 0 /\ Within(p.day, q)
         /\ Business(v.staff) /\ Reported(v.co, v.day) /\ Reported(p.co, p.day)
         /\ InScope(q, v.co) /\ Chosen(q, v.staff)
         /\ p.day <= Today /\ Happened(v) /\ Physical(p)}

(* _direct_payment_filters *)
DirectPayments(q) ==
  {p \in payments : /\ p.amount > 0 /\ Within(p.day, q) /\ Physical(p) /\ Reported(p.co, p.day)
                    /\ p.day <= Today /\ BusinessPayment(p) /\ InScope(q, p.co)}

(* A mutant: money is credited by person for groups alone. *)
BadCredited(q, p) == q.sel.kind # "group" \/ Chosen(q, Attributed(p))

(* _direct_revenue_classifiers: a payment that is both counts in both. *)
Credited(q, p) == q.sel.kind = "all" \/ Chosen(q, Attributed(p))
GoodsPayments(q) == {p \in DirectPayments(q) : p.kind = "goods" /\ Credited(q, p)}
TopUpPayments(q) == {p \in DirectPayments(q) : TopUp(p) /\ Credited(q, p)}

Total(f(_), S) == MapThenSumSet(f, S)
Amount(ps) == Total(LAMBDA p : p.amount, ps)
PairAmount(xs) == Total(LAMBDA x : x[2].amount, xs)

-----------------------------------------------------------------------------
(* Revenue and the average check *)

(* _completed_visit_counts *)
Clients(vs) == {v.client : v \in vs} \ {Null}

(* _source_coverage_status: top-ups are certified only where every branch that reports on   *)
(* some day of the period was read for all of those days, and at least one branch reports.  *)
CoverageStatus(q) ==
  LET reporting == {b \in CompanyIds(q) : ~Empty(Meets(window[b], q))}
      read(b) == LET need == Meets(window[b], q)
                     range == covered[<<b, "financials">>]
                 IN  range # NoBound /\ range.from <= need.from /\ range.to >= need.to
  IN  IF reporting # {} /\ \A b \in reporting : read(b) THEN "ready" ELSE "partial"

Ratio(n, d) == IF d = 0 THEN 0 ELSE (100 * n) \div d

(* _average_check_block: the parts are read once and added up. *)
Check(status, vs, service, goods, topup) ==
  [status |-> status, service |-> service, goods |-> goods, topup |-> topup,
   appointments |-> Cardinality(vs), clients |-> Cardinality(Clients(vs)),
   revenue |-> service + goods + topup, total |-> Ratio(service + goods + topup, Cardinality(vs))]
AverageCheck(q) ==
  Check(CoverageStatus(q), CompletedVisits(q), PairAmount(PaidServices(q)), Amount(GoodsPayments(q)),
        Amount(TopUpPayments(q)))

(* ACCOUNT_TYPE_BUCKETS: an account missing from the catalog still is revenue. *)
Bucket(p) ==
  CASE p.account \notin DOMAIN Accounts -> "other"
    [] Accounts[p.account].type = CashType -> "cash"
    [] Accounts[p.account].type = CashlessType -> "cashless"
    [] OTHER -> "other"

(* fetch_revenue_by_account_type: per branch, month of payment and bucket, without staff. *)
RevenueByAccount(q) ==
  LET all == [q EXCEPT !.sel = [kind |-> "all", ids |-> {}], !.co = Null]
      services == PaidServices(all)
      goods == GoodsPayments(all)
      topups == TopUpPayments(all)
      in(p, k) == <<p.co, MonthOf[p.day], Bucket(p)>> = k
  IN  {[key |-> k, amount |-> PairAmount({x \in services : in(x[2], k)})
                             + Amount({p \in goods : in(p, k)}) + Amount({p \in topups : in(p, k)})]
       : k \in CompanyIds(q) \X Months \X {"cash", "cashless", "other"}}

-----------------------------------------------------------------------------
(* Clients *)

VisitsOf(vs, c) == {v \in vs : v.client = c}
FirstVisit(vs, c) == Min({v.day : v \in VisitsOf(vs, c)})

(* _client_visit_frequency_block: the staff filter chooses the clients, their whole history up *)
(* to the end of the period decides how often they came.                                        *)
VisitFrequency(q) ==
  LET past == {v \in History(q) : v.day <= q.to}
      here == Clients(CompletedVisits(q))
      came(c) == Cardinality(VisitsOf(past, c))
  IN  [total |-> Cardinality(here),
       one |-> Cardinality({c \in here : came(c) <= OneVisit}),
       few |-> Cardinality({c \in here : OneVisit < came(c) /\ came(c) <= FewVisits}),
       many |-> Cardinality({c \in here : came(c) > FewVisits})]

(* _client_recency_block *)
ClientRecency(q) ==
  LET here == Clients(CompletedVisits(q))
      history == History(q)
      first(c) == FirstVisit(history, c)
  IN  [total |-> Cardinality(here),
       new |-> Cardinality({c \in here : first(c) >= q.from}),
       repeat |-> Cardinality({c \in here : first(c) < q.from})]

(* _first_visit_days and _first_visit_join: visits on the first day of their client in their  *)
(* branch; the history up to the end is read without the moment of the page.                  *)
FirstVisits(q) ==
  LET past == {v \in visits : /\ v.att = Completed /\ Business(v.staff) /\ v.day <= q.to
                              /\ Reported(v.co, v.day) /\ InScope(q, v.co) /\ v.client # Null}
  IN  {v \in CompletedVisits(q) :
         v.client # Null /\ v.day = FirstVisit({u \in past : u.co = v.co}, v.client)}

(* fetch_client_mix_metrics: the cards about clients without the rest of the summary. *)
ClientMix(q, preset) ==
  LET cards(x, vs) == [visits |-> Cardinality(vs), clients |-> Cardinality(Clients(vs)), recency |-> ClientRecency(x)]
      of(p) == cards(At(Resolved(q), p), CompletedVisits(At(Resolved(q), p)))
  IN  [current |-> of(Period(q.from, q.to)), previous |-> of(PreviousPeriod(q, preset))]

-----------------------------------------------------------------------------
(* Appointment cards *)

Fields == <<"cancelled", "completed", "incomplete">>

(* _appointment_shares: whole percents by the largest remainder, the order of Fields breaks ties. *)
Shares(counts) ==
  LET total == counts.total
      exact(f) == 100 * counts[f]
      rest(f) == exact(f) % total
      before(i, j) == \/ rest(Fields[i]) > rest(Fields[j])
                      \/ rest(Fields[i]) = rest(Fields[j]) /\ i < j
      rank(i) == Cardinality({j \in 1..3 : before(j, i)})
      left == 100 - MapThenSumSet(LAMBDA i : exact(Fields[i]) \div total, 1..3)
  IN  [i \in 1..3 |-> IF total = 0 THEN 0
                      ELSE exact(Fields[i]) \div total + IF rank(i) < left THEN 1 ELSE 0]

(* _ready_appointments_breakdown: parts that do not make the total are no answer. *)
ReadyBreakdown(counts, status) ==
  IF counts.cancelled + counts.completed + counts.incomplete # counts.total
  THEN [status |-> "unavailable"]
  ELSE [status |-> status, counts |-> counts, shares |-> Shares(counts)]

(* _local_appointments_breakdown *)
LocalBreakdown(q, cos, reason) ==
  LET vs == {v \in visits : /\ v.co \in cos /\ Within(v.day, q) /\ Business(v.staff)
                            /\ Reported(v.co, v.day) /\ Happened(v) /\ Chosen(q, v.staff)}
      count(S) == Cardinality({v \in vs : v.att \in S})
  IN  ReadyBreakdown([total |-> Cardinality(vs), cancelled |-> count({Cancelled}), completed |-> count({Completed}),
                      incomplete |-> Cardinality({v \in vs : v.att \notin {Completed, Cancelled}})], reason)

(* _fetch_appointments_breakdown: YClients' own counts stand only for one person or everybody,  *)
(* a period that is over, and a scope where no branch has a window; stats is its answer.         *)
AppointmentsBreakdown(q, stats) ==
  LET cos == CompanyIds(q)
  IN  CASE q.sel.kind = "group" -> LocalBreakdown(q, cos, "staff_group")
        [] q.sel.kind # "group" /\ q.to >= Today -> LocalBreakdown(q, cos, "period_includes_today")
        [] q.sel.kind # "group" /\ q.to < Today /\ \E b \in cos : window[b] # NoBound ->
             LocalBreakdown(q, cos, "reporting_window")
        [] OTHER -> IF stats = <<>> THEN LocalBreakdown(q, cos, "upstream_error")
                    ELSE ReadyBreakdown(stats, "ready")
=============================================================================
