------------------------------ MODULE Overview ------------------------------
(***************************************************************************)
(* The pages built from the figures: the summary, the daily chart, the     *)
(* years, the services and the goods.  They are written as separate        *)
(* queries in the code and must tell one story about the same rows.        *)
(***************************************************************************)
EXTENDS Figures

CONSTANTS
  Questions,       \* the questions the pages are asked
  LabelChanges     \* batches of [co, service, extra] the service editor may save

(* _transaction_service_label_join: the label of a service in its branch. *)
Extra(b, s) == <<b, s>> \in labels

LineQty(v, S) == Total(LAMBDA l : l.qty, {l \in v.lines : l.service \in S})
Qty(vs, S) == Total(LAMBDA v : LineQty(v, S), vs)
Services == UNION {{l.service : l \in r.lines} : r \in Records \cup LegacyVisits}
ExtrasOf(b) == {s \in Services : Extra(b, s)}

(* _extra_condition rows: what a visit sold that is labelled extra in its branch. *)
ExtraQty(vs) == Total(LAMBDA v : LineQty(v, ExtrasOf(v.co)), vs)
ExtraPaid(xs) == {x \in xs : Extra(x[3].co, x[2].item)}

(* _revenue_block *)
RevenueBlock(q) ==
  LET vs == CompletedVisits(q)
  IN  [extraRevenue |-> PairAmount(ExtraPaid(PaidServices(q))),
       services |-> Qty(vs, Services),
       goods |-> Total(LAMBDA g : IF g.qty < 0 THEN -g.qty ELSE g.qty, SoldGoods(q)),
       extraQty |-> ExtraQty(vs),
       extraClients |-> Cardinality(Clients({v \in vs : \E l \in v.lines : Extra(v.co, l.service)}))]

(* _pct_change: no base, no change. *)
Change(current, previous) ==
  IF previous = 0 THEN <<>> ELSE <<(100 * (current - previous)) \div previous>>

(* fetch_summary, of one period: the average check is the one source of revenue and visits. *)
Cards(check, block) ==
  [revenue |-> check.revenue, check |-> check, block |-> block,
   services |-> Ratio(check.service, check.appointments),
   goods |-> Ratio(check.goods, block.goods),
   extraAverage |-> Ratio(block.extraRevenue, block.extraQty),
   extraPerVisit |-> Ratio(block.extraQty, check.appointments),
   extraClients |-> Ratio(block.extraClients, check.clients),
   perClient |-> Ratio(check.appointments, check.clients)]
PeriodSummary(q) == Cards(AverageCheck(q), RevenueBlock(q))

(* fetch_summary: the period against its baseline, with the cards that have none. *)
Compared(cur, prev, frequency, recency, appointments) ==
  [current |-> cur, previous |-> prev,
   change |-> Change(cur.revenue, prev.revenue),
   visits |-> Change(cur.check.appointments, prev.check.appointments),
   frequency |-> frequency, recency |-> recency, appointments |-> appointments]
Summary(q, preset, stats) ==
  LET r == Resolved(q)
  IN  Compared(PeriodSummary(r), PeriodSummary(At(r, PreviousPeriod(q, preset))),
               VisitFrequency(r), ClientRecency(r), AppointmentsBreakdown(r, stats))

-----------------------------------------------------------------------------
(* fetch_revenue_daily: visits by their own day, money by the day it was paid. *)
Daily(q) ==
  LET r == Resolved(q)
      vs == CompletedVisits(r)
      services == PaidServices(r)
      goods == GoodsPayments(r)
      topups == TopUpPayments(r)
  IN  {[day |-> d,
        appointments |-> Cardinality({v \in vs : v.day = d}),
        service |-> PairAmount({x \in services : x[2].day = d}),
        goods |-> Amount({p \in goods : p.day = d}),
        topup |-> Amount({p \in topups : p.day = d})] : d \in q.from..q.to}

(* fetch_year_over_year_facts: the facts of each month of a period, ... *)
MonthFacts(q) ==
  LET vs == CompletedVisits(q)
      first == FirstVisits(q)
      services == PaidServices(q)
      goods == GoodsPayments(q)
      topups == TopUpPayments(q)
  IN  {[month |-> m,
        appointments |-> Cardinality({v \in vs : MonthOf[v.day] = m}),
        first |-> Cardinality({v \in first : MonthOf[v.day] = m}),
        service |-> PairAmount({x \in services : MonthOf[x[2].day] = m}),
        goods |-> Amount({p \in goods : MonthOf[p.day] = m}),
        topup |-> Amount({p \in topups : MonthOf[p.day] = m})] : m \in Months}

(* ... and of each year: its money and first visits are added up, its visits and clients are *)
(* counted anew, for a client of two months is one client of the year.                       *)
Years == {YearOf(m) : m \in Months}
YearFacts(q) ==
  LET vs == CompletedVisits(q)
      facts == MonthFacts(q)
      months(y) == {f \in facts : YearOf(f.month) = y}
      seen(y) == {v \in vs : YearOf(MonthOf[v.day]) = y}
  IN  {[year |-> y, appointments |-> Cardinality(seen(y)), clients |-> Cardinality(Clients(seen(y))),
        extra |-> ExtraQty(seen(y)),
        first |-> Total(LAMBDA f : f.first, months(y)),
        service |-> Total(LAMBDA f : f.service, months(y)),
        goods |-> Total(LAMBDA f : f.goods, months(y)),
        topup |-> Total(LAMBDA f : f.topup, months(y))] : y \in Years}

(* ... the days of the visits a month's revenue leans on, whose coverage it therefore needs: *)
(* visits of paid services, and visits that tell whose a payment without a master is.         *)
Dependencies(q, b, m) ==
  {x[3].day : x \in {y \in PaidVisits :
     LET p == y[2]
         v == y[3]
         direct == /\ p.master = Null /\ Business(v.staff)
                   /\ \/ p.kind = "goods" /\ Credited(q, p)
                      \/ TopUp(p) /\ Credited(q, p)
         service == /\ p.kind = "service" /\ v.att = Completed /\ Business(v.staff)
                    /\ Chosen(q, v.staff)
     IN  /\ p.co = b /\ MonthOf[p.day] = m /\ InScope(q, b) /\ Within(p.day, q)
         /\ p.amount > 0 /\ Physical(p) /\ Reported(p.co, p.day) /\ Reported(v.co, v.day)
         /\ p.day <= Today /\ Happened(v) /\ (service \/ direct)}}

-----------------------------------------------------------------------------
(* fetch_top_services: units from the visits' lines, revenue from what was paid for a service, *)
(* by the visit's master if asked; an extra-only list names the counted services alone.         *)
TopServices(q, byStaff, onlyExtra) ==
  LET r == Resolved(q)
      vs == CompletedVisits(r)
      paid == IF onlyExtra THEN ExtraPaid(PaidServices(r)) ELSE PaidServices(r)
      shown(v, s) == ~onlyExtra \/ Extra(v.co, s)
      master(v) == IF byStaff THEN v.staff ELSE Null
      counted == UNION {{<<master(v), l.service>> : l \in {k \in v.lines : shown(v, k.service)}} : v \in vs}
      paidFor == {<<master(x[3]), x[2].item>> : x \in paid}
      sold(k) == Total(LAMBDA v : LineQty(v, {s \in {k[2]} : shown(v, s)}),
                               {v \in vs : master(v) = k[1]})
      revenue(k) == PairAmount({x \in paid : master(x[3]) = k[1] /\ x[2].item = k[2]})
  IN  {[master |-> k[1], service |-> k[2], sold |-> sold(k), revenue |-> revenue(k)]
       : k \in IF onlyExtra THEN counted ELSE counted \cup paidFor}

(* fetch_paid_goods_rows: a row for each sale a payment matches, or one without a sale. *)
PaidGoodsRows(q) ==
  UNION {LET linked == {g \in sales : SaleOf(p, g)}
             row(id, good) == [payment |-> p, sale |-> id, good |-> good, master |-> Attributed(p)]
         IN  IF linked = {} THEN {row(Null, p.item)} ELSE {row(g.id, g.good) : g \in linked}
         : p \in GoodsPayments(q)}

(* _service_group_counts: the KPI groups by title; a service may sit in several. *)
GroupCounts(q) == [g \in DOMAIN Groups |-> Qty(CompletedVisits(q), Groups[g])]

(* _extra_service_revenue_by_staff: by the master of the visit, nobody's visits left out. *)
ExtraRevenueByStaff(q) ==
  [s \in Staff |-> PairAmount({x \in ExtraPaid(PaidServices(q)) : x[3].staff = s})]

(* _goods_sales_metrics: sales are negative stock movements, so a return lowers the count. *)
CosmoQty(q) == Total(LAMBDA g : -g.qty, Cosmetics(q))

(* Everything a card shows about visits and clients. *)
VisitFigures(q) ==
  [frequency |-> VisitFrequency(q), recency |-> ClientRecency(q), first |-> FirstVisits(q),
   check |-> AverageCheck(q).appointments, cards |-> LocalBreakdown(q, CompanyIds(q), "local")]

-----------------------------------------------------------------------------
(* save_service_management: a batch is validated whole, then written whole; a branch that has *)
(* left keeps its labels, for its past figures are read through them.                         *)
SaveLabels(batch, allowed) ==
  /\ \A c \in batch : c.co \in allowed /\ c.co \in NotYetLeft(Branches, Today)
  /\ labels' = (labels \ {<<c.co, c.service>> : c \in {x \in batch : ~x.extra}})
               \cup {<<c.co, c.service>> : c \in {x \in batch : x.extra}}
  /\ UNCHANGED mvars

FInit == MirrorInit /\ labels = {}

FNext ==
  \/ UNCHANGED labels /\ \E r \in Records : MirrorRecord(r)
  \/ UNCHANGED labels /\ \E v \in visits : PurgeVisit(v)
  \/ UNCHANGED labels /\ \E t \in Transfers : MirrorTransfer(t)
  \/ UNCHANGED labels /\ \E g \in Moves : MirrorMove(g)
  \/ UNCHANGED labels /\ \E b \in Branches, s \in Sources, c \in Ranges : MarkCovered(b, s, c)
  \/ UNCHANGED labels /\ \E b \in Branches, w \in Bounds : SetReportingWindow(b, w)
  \/ UNCHANGED labels /\ Tick
  \/ \E batch \in LabelChanges : SaveLabels(batch, Branches)

FSpec == FInit /\ [][FNext]_fvars

=============================================================================
