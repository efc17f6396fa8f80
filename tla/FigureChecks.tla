---------------------------- MODULE FigureChecks ----------------------------
(***************************************************************************)
(* What the pages promise each other about the same mirrored rows.         *)
(***************************************************************************)
EXTENDS Reports

(* Ids are positive, amounts whole, and the calendar has every day there is. *)
ASSUME MirrorAssumption ==
  /\ IsFiniteSet(Branches) /\ Null \notin Branches
  /\ IsFiniteSet(Staff) /\ Null \notin Staff /\ \A s \in Staff : WorksAt[s] \in Branches
  /\ IsFiniteSet(LegacyVisits)
  /\ \A v \in LegacyVisits : v.id \in Nat /\ AtHome(v.staff, v.co)
  /\ \A r \in Records : NewId[<<r.co, r.ext>>] \in Nat /\ AtHome(r.staff, r.co)
  /\ \A t \in Transfers : t.amount \in Int /\ t.day \in Days /\ AtHome(t.master, t.co)
  /\ \A g \in Moves : g.ext \in Nat /\ g.day \in Days /\ AtHome(g.master, g.co)
  /\ Bounds \cup Ranges \subseteq [from : Nat, to : Nat]

(* Months follow one another, and so do years: none between two days is without days. *)
ASSUME CalendarAssumption ==
  /\ MonthOf \in Seq(Nat) /\ \A d \in Days, e \in Days : d <= e => MonthOf[d] <= MonthOf[e]
  /\ YearMonths \in Nat \ {0}
  /\ \A d \in Days, e \in Days : \A y \in YearOf(MonthOf[d])..YearOf(MonthOf[e]) : YearDays(y) # {}
  /\ {FirstNow, LastNow} \subseteq Nat /\ FirstNow <= LastNow /\ {DayOf(FirstNow), DayOf(LastNow)} \subseteq Days

(* A typed total is of a branch and a month there are. *)
ASSUME TypedAssumption == Typed \subseteq [co : Branches, month : Months, amount : Nat, through : Nat]

(* A new visit gets an id no visit ever had; its day is in the calendar, and so is its moment. *)
ASSUME HistoryAssumption ==
  /\ \A v \in LegacyVisits : v.day \in Days /\ v.at \in Nat
  /\ \A u \in LegacyVisits, v \in LegacyVisits : u.id = v.id => u = v
  /\ \A r \in Records : r.ext # Null /\ r.day \in Days /\ r.at \in Nat
  /\ \A r \in Records, v \in LegacyVisits : NewId[<<r.co, r.ext>>] # v.id
  /\ \A r \in Records, s \in Records :
       NewId[<<r.co, r.ext>>] = NewId[<<s.co, s.ext>>] => r.co = s.co /\ r.ext = s.ext
  /\ Horizons \subseteq Nat /\ ChurnDays \in Nat

(* Branches and people of a question exist, and one person works in the branch asked for *)
(* (_validate_dashboard_scope answers 400).                                              *)
ASSUME QuestionsAssumption ==
  /\ Questions \subseteq [from : Int, to : Int, co : Branches \cup {Null},
                         limited : BOOLEAN, allowed : SUBSET Branches,
                         sel : [kind : {"all", "one", "group"}, ids : SUBSET Staff]]
  /\ \A q \in Questions : q.sel.kind = "one" /\ q.co # Null => \A s \in q.sel.ids : WorksAt[s] = q.co

(* A visit has somebody of the staff or nobody and finitely many lines, and its client is of its *)
(* branch (_prepare_client_map); a movement of goods without an id is left out (_payload_id).    *)
ASSUME RowsAssumption ==
  /\ \A r \in Records \cup LegacyVisits :
       /\ r.staff \in Staff \cup {Null} /\ r.client \in Nat /\ r.att \in Int
       /\ IsFiniteSet(r.lines) /\ r.lines \subseteq [service : Nat, qty : Int]
       /\ \A s \in Records \cup LegacyVisits : r.client = s.client /\ r.client # Null => r.co = s.co
  /\ \A g \in Moves : g.ext # Null /\ g.qty \in Int

(* The buckets of visit frequencies: one visit, a few, more. *)
ASSUME BucketsAssumption == OneVisit = 1 /\ FewVisits \in Nat /\ OneVisit < FewVisits

Everybody(q) == q.sel.kind = "all"

(* All pages of one question, read at one moment. *)
Pages(q, r) ==
  [everybody |-> Everybody(q), summary |-> Summary(q, "month", <<>>), mix |-> ClientMix(q, "month"),
   daily |-> Daily(q), years |-> YearFacts(r), first |-> Cardinality(FirstVisits(r)),
   services |-> TopServices(q, FALSE, FALSE), masters |-> TopServices(q, TRUE, FALSE),
   extra |-> ExtraRevenueByStaff(r), nobodys |-> PairAmount({x \in ExtraPaid(PaidServices(r)) : x[3].staff = Null}),
   groups |-> GroupCounts(r), goods |-> PaidGoodsRows(r),
   accounts |-> RevenueByAccount(r), cosmetics |-> CosmoQty(r)]

(* The daily chart, the years, the services, the goods and the split by account add up to the *)
(* summary's revenue and visits, and the cards of clients and appointments to its clients and *)
(* visits: the code computes each of them by a query of its own.                              *)
OneStory(page) ==
  LET check == page.summary.current.check
      block == page.summary.current.block
      frequency == page.summary.frequency
      recency == page.summary.recency
      cards == page.summary.appointments
  IN  /\ check.service = Total(LAMBDA d : d.service, page.daily)
      /\ check.goods = Total(LAMBDA d : d.goods, page.daily)
      /\ check.appointments = Total(LAMBDA d : d.appointments, page.daily)
      /\ check.service = Total(LAMBDA y : y.service, page.years)
      /\ check.topup = Total(LAMBDA y : y.topup, page.years)
      /\ check.appointments = Total(LAMBDA y : y.appointments, page.years)
      /\ page.first = Total(LAMBDA y : y.first, page.years)
      /\ check.service = Total(LAMBDA s : s.revenue, page.services)
      /\ check.service = Total(LAMBDA s : s.revenue, page.masters)
      /\ block.services = Total(LAMBDA s : s.sold, page.services)
      /\ block.extraRevenue = page.nobodys + Total(LAMBDA s : page.extra[s], Staff)
      /\ \A g \in DOMAIN Groups :
           page.groups[g] = Total(LAMBDA s : s.sold, {s \in page.services : s.service \in Groups[g]})
      /\ check.goods = Total(LAMBDA row : row.payment.amount, page.goods)
      /\ page.everybody => check.revenue = Total(LAMBDA k : k.amount, page.accounts)
      /\ page.cosmetics <= block.goods
      /\ page.mix.current = [visits |-> check.appointments, clients |-> check.clients, recency |-> recency]
      /\ page.mix.previous.visits = page.summary.previous.check.appointments
      /\ cards.status # "unavailable" =>
           /\ cards.counts.completed = check.appointments
           /\ cards.counts.total > 0 => Total(LAMBDA i : cards.shares[i], 1..3) = 100
      /\ frequency.total = check.clients /\ recency.total = check.clients
      /\ frequency.one + frequency.few + frequency.many = check.clients
      /\ recency.new + recency.repeat = check.clients
      /\ recency.repeat <= frequency.few + frequency.many

PagesAgree == \A page \in {Pages(q, Resolved(q)) : q \in Questions} : OneStory(page)

Alone(q, s) == [q EXCEPT !.sel = [kind |-> "one", ids |-> {s}]]
InGroup(q, S) == [q EXCEPT !.sel = [kind |-> "group", ids |-> S]]

(* A network is the sum of its branches and a group the sum of its people: no payment and no  *)
(* visit is lost between them or counted in two, whichever join found it.                     *)
PartsAddUp ==
  \A q \in {x \in Questions : Everybody(x) /\ x.co = Null} :
    LET check(x) == AverageCheck(Resolved(x))
        of(b) == check([q EXCEPT !.co = b])
        team == {s \in Staff : Business(s)}
        whole == check(InGroup(q, team))
    IN  /\ check(q).revenue = Total(LAMBDA b : of(b).revenue, CompanyIds(q))
        /\ check(q).appointments = Total(LAMBDA b : of(b).appointments, CompanyIds(q))
        /\ whole.service = Total(LAMBDA s : check(Alone(q, s)).service, team)
        /\ whole.goods = Total(LAMBDA s : check(InGroup(q, {s})).goods, team)
        /\ whole.topup = Total(LAMBDA s : check(Alone(q, s)).topup, team)
        /\ check(InGroup(q, {})).revenue = 0

(* The same figures over a part of the mirror. *)
From(vs, ps, gs) == INSTANCE Reports WITH visits <- vs, payments <- ps, sales <- gs

(* No figure reaches out of its scope.  Rows of another branch that carry the same numbers,   *)
(* services or clients meet only within their company, whichever id they are matched by; and a *)
(* visit outside the reporting window of its branch, or after the period, is in no figure about *)
(* the period's visits and clients: a past period keeps telling what was true then.            *)
OtherRowsSilent ==
  \A q \in Questions :
    LET mine(rows) == {x \in rows : x.co \in CompanyIds(q)}
        inside == {v \in visits : Reported(v.co, v.day) /\ v.day <= q.to}
        r == Resolved(q)
    IN  /\ From(mine(visits), mine(payments), mine(sales))!PeriodSummary(r) = PeriodSummary(r)
        /\ From(inside, payments, sales)!VisitFigures(r) = VisitFigures(r)

(* Whatever is certified was read: the top-ups of a period on every day a branch of the scope  *)
(* reports, and the money of a year shown by the years report on every such day of the year   *)
(* and on the day of every visit its payments lean on; its known months then make the year.   *)
CertifiedDays ==
  \A q \in Questions :
    LET r == Resolved(q)
        read(b, source, d) == LET range == covered[<<b, source>>]
                              IN  range # NoBound /\ range.from <= d /\ d <= range.to
        since == SinceStart(r)
        years == IF ActivityDays(r) = {} THEN {} ELSE {y \in YearPeriods(r) : YearRow(r, y).revenue # <<>>}
        months(y) == {m \in Months : MonthRow(r, y, m).revenue # <<>>}
    IN  /\ CoverageStatus(r) = "ready" =>
             \A b \in CompanyIds(q), d \in q.from..q.to : Reported(b, d) => read(b, "financials", d)
        /\ \A y \in years :
             /\ \A b \in CompanyIds(q), d \in y.cut.from..y.cut.to, s \in Sources : Reported(b, d) => read(b, s, d)
             /\ \A x \in PaidServices(since) :
                  YearOf(MonthOf[x[2].day]) = y.year => read(x[3].co, "appointments", x[3].day)
             /\ YearRow(r, y).revenue[1] = Total(LAMBDA m : MonthRow(r, y, m).revenue[1], months(y))

(* All reports of one question, with the figures of the overview. *)
OfReports(q, r) ==
  [everybody |-> Everybody(q), check |-> AverageCheck(r), cards |-> VisitFrequency(r),
   finance |-> {FinancialOverview(q, g) : g \in Granularities},
   clients |-> ClientRows(r), pareto |-> Pareto(r), frequency |-> FrequencyRows(r),
   records |-> RecordsByPeriod(r, "month"), team |-> StaffRecords(r), masters |-> StaffEfficiency(r),
   load |-> PeakLoad(r), local |-> AppointmentsBreakdown(r, <<>>), sellers |-> SellerRows(r),
   goods |-> MergedGoods(r), units |-> RevenueBlock(r).goods, unlinked |-> Amount(UnlinkedGoods(r)),
   linked |-> Amount({p \in GoodsPayments(r) : \E v \in GoodsVisits(r) : Pays(p, v)}),
   several |-> {v \in CompletedVisits(r) : Cardinality(ServicesOf(v)) > 1},
   pairs |-> UNION {k.visits : k \in Combos(r)},
   cohorts |-> [m \in Months |-> Cardinality(Cohort(r, m))],
   newcomers |-> [m \in Months |-> ClientRecency(At(r, Period(FirstDay(m), LastDay(m)))).new]]

(* Every report slices the summary's rows: its periods, clients, masters, sellers, goods and  *)
(* channels add up to the figures of the overview, and new clients are the cohort of a month. *)
SlicesOf(x) ==
  LET known == {c \in x.clients : c.client # Null}
      total == x.local.counts.total
  IN  /\ \A periods \in x.finance : x.check.revenue = Total(LAMBDA p : p.revenue, periods)
      /\ x.check.service = Total(LAMBDA c : c.revenue, x.clients)
      /\ x.check.appointments = Total(LAMBDA c : c.visits, x.clients)
      /\ UNION {x.pareto[i] : i \in 1..3} = known
      /\ Cardinality(known) = Total(LAMBDA i : Cardinality(x.pareto[i]), 1..3)
      /\ Cardinality(x.frequency.one) = x.cards.one /\ Cardinality(x.frequency.few) = x.cards.few
      /\ Cardinality(x.frequency.many) = x.cards.many
      /\ x.local.status = "unavailable"
         \/ /\ total = Total(LAMBDA p : p.records, x.records)
            /\ total = Total(LAMBDA s : s.records, x.team)
            /\ x.local.counts.cancelled = Total(LAMBDA s : s.noShow, x.team)
      /\ x.check.appointments = x.load.unplaced + Total(LAMBDA c : c.visits, x.load.cells)
      /\ x.check.appointments = Total(LAMBDA s : s.completed, x.masters)
      /\ x.check.service = Total(LAMBDA s : s.revenue, x.masters)
      /\ x.check.goods = Total(LAMBDA s : s.revenue, x.sellers)
      /\ x.check.goods = Total(LAMBDA g : g.revenue, x.goods)
      /\ x.units = Total(LAMBDA g : g.units, x.goods)
      /\ x.everybody => x.check.goods = x.unlinked + x.linked /\ x.cohorts = x.newcomers
      /\ x.several = x.pairs

ReportsAgree == \A x \in {OfReports(q, Resolved(q)) : q \in Questions} : SlicesOf(x)

(* The payment report: its columns and its trend both make up the revenue of the summary, tell *)
(* the same Yandex Pay where no column had to leave it out, and count a typed total only over *)
(* days of the period that were over when it was typed.                                        *)
PaymentsNetOut ==
  \A q \in {x \in Questions : Everybody(x)} :
    LET r == Resolved(q)
        table == PaymentTable(r)
        trend == PaymentTrend(r)
        whole(row) == row.cash + row.cashless + row.yandex + row.other
    IN  /\ AverageCheck(r).revenue = Total(whole, table)
        /\ AverageCheck(r).revenue = Total(whole, trend)
        /\ (\A b \in Columns(r) : Applied(r, b)) =>
             Total(LAMBDA row : row.yandex, table) = Total(LAMBDA row : row.yandex, trend)
        /\ \A row \in table, e \in entered :
             e \in row.counted => /\ e.co = row.co /\ e.month \notin row.missing
                                  /\ FirstDay(e.month)..e.through \subseteq (q.from..q.to) \cap (1..Today)

(* Every page and every report tells the same money, visits and clients of the same period.   *)
FiguresAgree == PagesAgree /\ ReportsAgree

(* Nobody counts as lost who had no time to return: in a cohort's base every client had all   *)
(* the months, and a churned one all the days, while the branch still reported and the day    *)
(* was over; and the churned are among the clients their share is taken of.                    *)
ClientsHadTime ==
  \A q \in Questions :
    LET r == Resolved(q)
        vs == ClientVisits(r)
        known(b, from, to) == \A d \in from..to : Reported(b, d) /\ d <= Today
        paid(k) == {x \in PaidVisits : x[2].amount > 0 /\ x[3].co = k[1] /\ x[3].client = k[2]}
    IN  /\ \A m \in Months, h \in Horizons : \A k \in Retention(r, m, h).ready :
             LET first == FirstOf(In(vs, k)).day
             IN  known(k[1], first, ShiftMonthsBack(first, -h)) /\ ShiftMonthsBack(first, -h) < Today
        /\ \A k \in Churned(r) :
             LET last == LastOf(In(vs, k)).day
             IN  known(k[1], last, last + ChurnDays) /\ AtRisk(r, k) <= PairAmount(paid(k))
        /\ Churned(r) \subseteq ChurnBase(r)
=============================================================================
