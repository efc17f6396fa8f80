------------------------------- MODULE Mirror -------------------------------
(***************************************************************************)
(* The mirrored tables every figure is computed from, the row-level effect *)
(* of the synchronisation on them, and the conditions all figures share:   *)
(* who counts as staff, the reporting window of a branch, the moment the   *)
(* page is read at, and which visit or sale a payment belongs to.          *)
(*                                                                         *)
(* Ids are numbers and 0 stands for NULL.  A day is its number in the      *)
(* calendar of MonthOf; a moment is 2 * day (morning) or 2 * day + 1     *)
(* (evening), and every timestamp is read on one clock.                    *)
(***************************************************************************)
EXTENDS Integers, Sequences, FiniteSets, FiniteSetsExt

CONSTANTS
  Branches,        \* companies.id
  WorksAt,         \* staff.id -> staff.company_id
  Placeholders,    \* staff rows of YClients itself: the waiting list, "Administrator ..."
  MonthOf,         \* the month of each day of the calendar
  YearMonths,      \* the number of months of a year
  Accounts,        \* account_id -> [type, physical]; an id outside is not in the catalog
  Groups,          \* KPI group code -> the services whose title belongs to it
  Records,         \* what YClients may answer for a visit
  Transfers,       \* ... for a financial transaction
  Moves,           \* ... for a goods transaction
  LegacyVisits,    \* visits mirrored before external ids existed
  Bounds,          \* reporting windows an operator may set
  Ranges,          \* coverage intervals the sync may have stored
  NewId,           \* <<company, YClients id>> -> the id the sequence hands to a new visit
  FirstNow, LastNow  \* bounds of the clock

VARIABLES
  visits,          \* appointments, each with its transactions (lines)
  payments,        \* financial_transactions
  sales,           \* goods_transactions
  window,          \* companies.reporting_start_date, reporting_end_date
  covered,         \* sync_source_states of the visits and of the transfers
  now              \* the moment the dashboard treats as now

mvars == <<visits, payments, sales, window, covered, now>>

Null == 0
Staff == DOMAIN WorksAt
Completed == 1
Cancelled == -1

(* Whoever a row names works in the row's branch, for names are looked up by YClients id among *)
(* the branch's own staff (_load_staff_map).                                                   *)
AtHome(s, b) == s \in Staff => WorksAt[s] = b

-----------------------------------------------------------------------------
(* The calendar *)

Days == DOMAIN MonthOf
Months == {MonthOf[d] : d \in Days}
DaysOf(m) == {d \in Days : MonthOf[d] = m}
FirstDay(m) == Min(DaysOf(m))
LastDay(m) == Max(DaysOf(m))
YearOf(m) == (m - 1) \div YearMonths + 1
DayOf(moment) == moment \div 2

(* factual_branch_date: the business day of the moment the page is read. *)
Today == DayOf(now)

-----------------------------------------------------------------------------
(* Rows *)

NoBound == [from |-> Null, to |-> Null]
Sources == {"appointments", "financials"}

(* A missing bound cuts nothing; both bounds are days that still count. *)
Covers(w, day) == (w.from = Null \/ day >= w.from) /\ (w.to = Null \/ day <= w.to)

(* reporting_window_clause *)
Reported(b, day) == Covers(window[b], day)

(* ReportingWindow.intersect: the part of a period the branch reports on. *)
Meets(w, p) ==
  LET low == IF w.from = Null THEN p.from ELSE Max({p.from, w.from})
      high == IF w.to = Null THEN p.to ELSE Min({p.to, w.to})
  IN  [from |-> low, to |-> high]

Empty(p) == p.from > p.to

(* branch_window_overlap_clause: the branch is the tenant's for some day of a period. *)
Overlaps(b, p) ==
  /\ window[b].from = Null \/ window[b].from <= p.to
  /\ window[b].to = Null \/ window[b].to >= p.from

(* branches_not_yet_left *)
NotYetLeft(bs, start) == {b \in bs : window[b].to = Null \/ window[b].to >= start}

(* _business_staff_id_condition: nobody, or anybody but a placeholder row. *)
Business(s) == s \notin Placeholders

(* _appointment_factual_at_condition: by its moment where it has one, else by its day. *)
Happened(v) == IF v.at = Null THEN v.day <= Today ELSE v.at <= now

(* financial_appointment_match_condition: by the YClients id, and by our own id only for a  *)
(* visit that has none while nobody in the branch claims the number as his YClients id.     *)
DirectMatch(p, v) == p.co = v.co /\ v.ext # Null /\ p.rec = v.ext

(* A mutant: the number is looked for among the visits of every company. *)
BadFallbackMatch(p, v) ==
  p.co = v.co /\ v.ext = Null /\ p.rec = v.id /\ ~\E u \in visits : u.ext # Null /\ u.ext = p.rec

FallbackMatch(p, v) ==
  /\ p.co = v.co /\ v.ext = Null /\ p.rec = v.id
  /\ ~\E u \in visits : u.co = p.co /\ u.ext # Null /\ u.ext = p.rec
Pays(p, v) == p.rec # Null /\ (DirectMatch(p, v) \/ FallbackMatch(p, v))

(* _financial_appointment_branches_union: the pairs of the two joins, laid end to end; the *)
(* tag keeps a pair found by both of them twice.                                           *)
PaidVisits ==
  UNION {{<<"direct", p, v>> : v \in {u \in visits : DirectMatch(p, u)}} \cup
         {<<"fallback", p, v>> : v \in {u \in visits : FallbackMatch(p, u)}}
         : p \in {x \in payments : x.rec # Null}}

(* financial_goods_transaction_match_condition *)
SaleOf(p, g) ==
  /\ p.co = g.co /\ p.item # Null
  /\ \/ g.ext # Null /\ p.item = g.ext
     \/ /\ g.ext = Null /\ p.item = g.id
        /\ ~\E h \in sales : h.co = p.co /\ h.ext # Null /\ h.ext = p.item

ById(rows) == CHOOSE r \in rows : \A x \in rows : r.id <= x.id

(* _goods_seller_staff_id: the seller of the first linked sale that names one, else the master. *)
Seller(p) ==
  LET linked == {g \in sales : SaleOf(p, g) /\ g.sale}
  IN  IF linked # {} /\ ById(linked).master # Null THEN ById(linked).master ELSE p.master

(* _financial_attributed_staff_id *)
Attributed(p) ==
  LET linked == {v \in visits : Pays(p, v) /\ Business(v.staff)}
  IN  IF p.kind = "goods" THEN Seller(p)
      ELSE IF p.master # Null THEN p.master
      ELSE IF linked = {} THEN Null ELSE ById(linked).staff

(* _business_financial_master_condition: somebody of the branch received the money. *)
BusinessPayment(p) ==
  LET known == \/ p.master # Null /\ Business(p.master)
               \/ /\ p.master = Null
                  /\ p.rec = Null \/ \E v \in visits : Pays(p, v) /\ Business(v.staff) /\ Happened(v)
  IN  IF p.kind = "goods" /\ Seller(p) # Null THEN Business(Seller(p)) ELSE known

(* _physical_account_condition: money, not a bonus; an account we do not know is money. *)
Physical(p) == IF p.account \in DOMAIN Accounts THEN Accounts[p.account].physical ELSE TRUE

(* _personal_account_condition: by the type of the sold item or the title of the expense. *)
TopUp(p) == p.kind = "topup" \/ p.expense

-----------------------------------------------------------------------------
(* What the synchronisation writes *)

MirrorInit ==
  /\ visits = LegacyVisits
  /\ payments = {}
  /\ sales = {}
  /\ window = [b \in Branches |-> NoBound]
  /\ covered = [k \in Branches \X Sources |-> NoBound]
  /\ now = FirstNow

FreeId(rows) == CHOOSE n \in 1..Cardinality(rows) + 1 : n \notin {r.id : r \in rows}

(* load_existing_or_adopt_legacy_source_map: the row of a YClients id, or the row from before *)
(* there were any that carries it as its own id.                                              *)
Known(rows, co, ext) ==
  LET mapped == {r \in rows : r.co = co /\ r.ext = ext}
      legacy == {r \in rows : r.co = co /\ r.ext = Null /\ r.id = ext}
  IN  IF mapped # {} THEN mapped ELSE legacy

(* sync_records: a visit of the answer is written over the row it has, its lines rebuilt. *)
MirrorRecord(r) ==
  LET old == Known(visits, r.co, r.ext)
      id == IF old = {} THEN NewId[<<r.co, r.ext>>] ELSE ById(old).id
  IN  /\ visits' = (visits \ old) \cup
           {[id |-> id, ext |-> r.ext, co |-> r.co, staff |-> r.staff, client |-> r.client, by |-> r.by,
             day |-> r.day, at |-> r.at, made |-> r.made, att |-> r.att, lines |-> r.lines]}
      /\ UNCHANGED <<payments, sales, window, covered, now>>

(* ... and in a full refresh the visits of the window the answer no longer has are purged. *)
PurgeVisit(v) ==
  /\ visits' = visits \ {v}
  /\ UNCHANGED <<payments, sales, window, covered, now>>

(* sync_financial_transactions; record_id 0 means there was no visit (parse_reference_id). *)
MirrorTransfer(t) ==
  /\ payments' = {p \in payments : ~(p.co = t.co /\ p.ext = t.ext)} \cup {t}
  /\ UNCHANGED <<visits, sales, window, covered, now>>

(* sync_goods_transactions *)
MirrorMove(g) ==
  LET old == Known(sales, g.co, g.ext)
      id == IF old # {} THEN ById(old).id
            ELSE IF g.ext \in {h.id : h \in sales} THEN FreeId(sales) ELSE g.ext
  IN  /\ sales' = (sales \ old) \cup
           {[id |-> id, ext |-> g.ext, co |-> g.co, day |-> g.day, master |-> g.master, sale |-> g.sale,
             qty |-> g.qty, good |-> g.good, cosmetics |-> g.cosmetics]}
      /\ UNCHANGED <<visits, payments, window, covered, now>>

(* mark_sync_source_coverage after the visits or the transfers of a branch were read. *)
MarkCovered(b, source, range) ==
  /\ covered' = [covered EXCEPT ![<<b, source>>] = range]
  /\ UNCHANGED <<visits, payments, sales, window, now>>

(* scripts/set_reporting_window: an inverted window is refused. *)
SetReportingWindow(b, w) ==
  /\ w.from = Null \/ w.to = Null \/ w.from <= w.to
  /\ w.from <= Today
  /\ window' = [window EXCEPT ![b] = w]
  /\ UNCHANGED <<visits, payments, sales, covered, now>>

Tick ==
  /\ now < LastNow
  /\ now' = now + 1
  /\ UNCHANGED <<visits, payments, sales, window, covered>>
=============================================================================
