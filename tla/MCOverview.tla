----------------------------- MODULE MCOverview -----------------------------
(* Two branches, two masters in the first (11, 12), one in the second (21), *)
(* and a waiting list row (19).                                             *)
EXTENDS FigureChecks

CONSTANT MaxFacts   \* bound of a state

Homes == 11 :> 1 @@ 12 :> 1 @@ 19 :> 1 @@ 21 :> 2
Calendar == <<1, 2, 3, 3, 3, 4, 4>>
Catalog == 1 :> [type |-> 0, physical |-> TRUE] @@ 2 :> [type |-> 1, physical |-> FALSE]
GroupServices == "wax" :> {1} @@ "face" :> {1, 2}
Presets == "month" :> 1

Record(ext, co, staff, client, day, att, lines) ==
  [ext |-> ext, co |-> co, staff |-> staff, client |-> client, by |-> "online", day |-> day, at |-> 2 * day,
   made |-> 1, att |-> att, lines |-> lines]
Line(s, n) == [service |-> s, qty |-> n]

(* Visit 2 may have lost its master.  Visit 5 of branch 1 was mirrored before external ids; *)
(* branch 2 has a visit 5 of its own.                                                       *)
VisitAnswers ==
  {Record(2, 1, 11, 1, 2, 1, {Line(1, 1)}), Record(2, 1, 0, 1, 2, 1, {Line(1, 1)}),
   Record(3, 1, 12, 1, 4, 1, {Line(1, 2), Line(2, 1)}),
   Record(3, 1, 12, 1, 4, 0, {}), Record(5, 1, 11, 2, 4, 1, {Line(2, 1)}),
   Record(5, 2, 21, 3, 4, 1, {Line(1, 1)})}
OldVisits ==
  {[id |-> 5, ext |-> 0, co |-> 1, staff |-> 11, client |-> 2, by |-> "online", day |-> 4, at |-> 0, made |-> 1,
    att |-> 1, lines |-> {Line(2, 1)}]}

Transfer(ext, co, day, amount, rec, item, master, kind, expense, account) ==
  [ext |-> ext, co |-> co, day |-> day, amount |-> amount, rec |-> rec, item |-> item, master |-> master,
   kind |-> kind, expense |-> expense, account |-> account]
TransferAnswers ==
  {Transfer(1, 1, 4, 10, 5, 2, 0, "service", FALSE, 1),
   Transfer(2, 1, 5, 20, 3, 1, 0, "service", FALSE, 9),
   Transfer(3, 1, 4, 40, 0, 7, 0, "goods", TRUE, 1),
   Transfer(4, 2, 4, 80, 5, 0, 0, "topup", FALSE, 1),
   Transfer(5, 1, 4, 160, 2, 1, 0, "service", FALSE, 1)}
MoveAnswers ==
  {[ext |-> 7, co |-> 1, day |-> 4, master |-> 12, sale |-> TRUE, qty |-> -2, good |-> 3, cosmetics |-> TRUE]}

Windows == {NoBound, [from |-> 4, to |-> 0], [from |-> 0, to |-> 2]}
Read == {[from |-> 3, to |-> 5], [from |-> 1, to |-> 5]}
NewIds == <<1, 2>> :> 3 @@ <<1, 3>> :> 6 @@ <<1, 5>> :> 7 @@ <<2, 5>> :> 2

Batches == {{[co |-> 1, service |-> 1, extra |-> TRUE]}, {[co |-> 1, service |-> 1, extra |-> FALSE],
            [co |-> 2, service |-> 1, extra |-> TRUE]}}

All == [kind |-> "all", ids |-> {}]
Ask(from, to, co, sel) == [from |-> from, to |-> to, co |-> co, sel |-> sel, limited |-> FALSE, allowed |-> {}]
(* Facts that differ from an empty mirror: all combinations of a few of them.  A label, a typed *)
(* total, the wider range and the tick weigh two, for they matter only next to rows.            *)
Facts == Cardinality(SymDiff(visits, LegacyVisits)) + Cardinality(payments) + Cardinality(sales)
         + Cardinality({b \in Branches : window[b] # NoBound})
         + Cardinality({k \in DOMAIN covered : covered[k] # NoBound})
         + Cardinality({k \in DOMAIN covered : covered[k].from = 1})
         + 2 * (Cardinality(labels) + Cardinality(entered) + (now - FirstNow))
(* Read ranges decide what is certified, labels and typed totals how money is split: one kind at a time. *)
Apart == Cardinality({k \in 1..3 : <<\E r \in DOMAIN covered : covered[r] # NoBound, labels # {}, entered # {}>>[k]}) <= 1
MCSpec == RInit /\ [][RNext /\ Facts' <= MaxFacts /\ Apart']_rvars

YandexPay == {[co |-> 1, month |-> 3, amount |-> 5, through |-> 0], [co |-> 1, month |-> 3, amount |-> 7, through |-> 5],
              [co |-> 1, month |-> 3, amount |-> 0, through |-> 0]}

Asked == {Ask(3, 5, 0, All), Ask(2, 3, 1, All), Ask(4, 4, 0, [kind |-> "group", ids |-> {12, 21}]),
          Ask(3, 5, 0, [kind |-> "one", ids |-> {11}])}
=============================================================================
