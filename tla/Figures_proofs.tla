-------------------------- MODULE Figures_proofs --------------------------
(***************************************************************************)
(* FiguresAgree of FigureChecks, for any rows: every page and every report *)
(* of a period tells the same money, visits and clients as the cards of    *)
(* the overview.  A report is a table: rows filed under a key, a figure of *)
(* each row summed over its file.  One lemma sums any such table           *)
(* (TableSum); the rest says which table each report is.                   *)
(***************************************************************************)
EXTENDS Branches_proofs

-----------------------------------------------------------------------------
(* Tables: rows that slice other rows by a key.                            *)

\* The sum of a field over some records.
FieldTotal(f, S) == Total(LAMBDA x : x[f], S)

\* The total of a field is the sum of the function that takes it.
LEMMA FieldTotalIs ==
  ASSUME NEW f, NEW S, NEW g, \A x \in S : g[x] = x[f]
  PROVE  FieldTotal(f, S) = SumOf(g, S)
  <1> DEFINE P(h) == h = [s \in SUBSET S |-> IF s = {} THEN 0 ELSE OneOf(s)[f] + h[s \ {OneOf(s)}]]
  <1>1. FieldTotal(f, S) = (CHOOSE h : P(h))[S]
    BY DEF FieldTotal, Total, MapThenSumSet, MapThenFoldSet, OneOf
  <1>2. \A h : P(h) <=> Adds(h, g, S)
    <2>1. \A s \in SUBSET S : s # {} => g[OneOf(s)] = OneOf(s)[f]
      BY SomeIn
    <2>2. QED
      BY <2>1 DEF Adds
  <1>3. (CHOOSE h : P(h)) = (CHOOSE h : Adds(h, g, S))
    BY <1>2
  <1>4. QED
    BY <1>1, <1>3, SumIs

\* A table over the keys K with the rows row[k], in which the elements of S are filed by their keys.
TableOf(row, K) == {row[k] : k \in K}
Files(S, key, K, row) ==
  /\ IsFiniteSet(K)
  /\ \A x \in S : key[x] \in K
  /\ \A i \in K, j \in K : row[i] = row[j] => i = j

\* A field that sums up what is filed in each row sums up everything.
LEMMA TableSum ==
  ASSUME NEW S, NEW g, Summable(g, S), NEW key, NEW K, NEW row, Files(S, key, K, row),
         NEW f, \A k \in K : row[k][f] = SumOf(g, Filed(S, key, k))
  PROVE  FieldTotal(f, TableOf(row, K)) = SumOf(g, S) /\ \A k \in K : row[k][f] \in Int
  <1> DEFINE part == [k \in K |-> Filed(S, key, k)]
             s == [k \in K |-> row[k][f]]
             T == TableOf(row, K)
             h == [x \in T |-> x[f]]
  <1>1. \A k \in K : part[k] \subseteq S /\ s[k] = SumOf(g, part[k]) /\ s[k] = row[k][f]
    BY DEF Filed
  <1>2. /\ \A i \in K, j \in K : i # j => part[i] \cap part[j] = {}
        /\ \A x \in S : \E i \in K : x \in part[i]
    BY DEF Filed, Files
  <1>3. \A x \in T : h[x] = x[f]
    OBVIOUS
  <1>4. \A k \in K : row[k] \in T
    BY DEF TableOf
  <1>5. T = {row[k] : k \in K}
    BY DEF TableOf
  <1> HIDE DEF part, s, T, h
  <1>6. \A k \in K : s[k] \in Int
    <2>1. ASSUME NEW k \in K PROVE s[k] \in Int
      <3>1. Summable(g, part[k])
        BY <1>1, FS_Subset DEF Summable
      <3>2. QED
        BY <1>1, <3>1, SumStep
    <2>2. QED
      BY <2>1
  <1>7. SumOf(g, S) = SumOf(s, K)
    BY <1>1, <1>2, SumParts DEF Files
  <1>8. \A k \in K : h[row[k]] = s[k]
    BY <1>1, <1>3, <1>4
  <1>9. SumOf(h, T) = SumOf(s, K)
    BY <1>5, <1>6, <1>8, SumOfRows DEF Files
  <1>10. FieldTotal(f, T) = SumOf(h, T)
    BY <1>3, FieldTotalIs
  <1>11. QED
    BY <1>1, <1>6, <1>7, <1>9, <1>10 DEF T

\* What each payment and each pair brings in, and the count of one.
PaidIn == [p \in payments |-> p.amount]
PairIn == [x \in PaidVisits |-> x[2].amount]
\* Money and counts are sums.
LEMMA MoneySums ==
  ASSUME RowsInv
  PROVE  /\ \A S \in SUBSET payments : Summable(PaidIn, S) /\ Amount(S) = SumOf(PaidIn, S)
         /\ \A S \in SUBSET PaidVisits : Summable(PairIn, S) /\ PairAmount(S) = SumOf(PairIn, S)
  <1>1. \A p \in payments : PaidIn[p] = p.amount /\ PaidIn[p] \in Int
    BY DEF PaidIn, RowsInv
  <1>2. \A x \in PaidVisits : PairIn[x] = x[2].amount /\ PairIn[x] \in Int
    BY PaidVisitsAre DEF PairIn
  <1>3. \A S \in SUBSET payments : IsFiniteSet(S)
    BY FS_Subset DEF RowsInv
  <1>4. \A S \in SUBSET PaidVisits : IsFiniteSet(S)
    BY FS_Subset, PaidVisitsAre
  <1>5. \A S \in SUBSET payments : Summable(PaidIn, S) /\ Amount(S) = SumOf(PaidIn, S)
    BY <1>1, <1>3, AmountIs DEF Summable
  <1>6. \A S \in SUBSET PaidVisits : Summable(PairIn, S) /\ PairAmount(S) = SumOf(PairIn, S)
    BY <1>2, <1>4, PairAmountIs DEF Summable
  <1>7. QED
    BY <1>5, <1>6

\* A field of the rows holds what is filed in them: money of visits, money of payments, a count, or any sum.
HoldsPairs(S, key, K, row, f) ==
  S \in SUBSET PaidVisits /\ Files(S, key, K, row) /\ \A k \in K : row[k][f] = PairAmount(Filed(S, key, k))
HoldsPayments(S, key, K, row, f) ==
  S \in SUBSET payments /\ Files(S, key, K, row) /\ \A k \in K : row[k][f] = Amount(Filed(S, key, k))
HoldsCounts(S, key, K, row, f) ==
  IsFiniteSet(S) /\ Files(S, key, K, row) /\ \A k \in K : row[k][f] = Cardinality(Filed(S, key, k))
HoldsSums(S, g, key, K, row, f) ==
  Summable(g, S) /\ Files(S, key, K, row) /\ \A k \in K : row[k][f] = SumOf(g, Filed(S, key, k))

\* Such a table adds up to all of it.
LEMMA PairTable ==
  ASSUME RowsInv, NEW S, NEW key, NEW K, NEW row, NEW f, HoldsPairs(S, key, K, row, f)
  PROVE  FieldTotal(f, TableOf(row, K)) = PairAmount(S) /\ \A k \in K : row[k][f] \in Int
  <1>1. Summable(PairIn, S) /\ PairAmount(S) = SumOf(PairIn, S)
    BY MoneySums DEF HoldsPairs
  <1>2. Files(S, key, K, row) /\ \A k \in K : row[k][f] = SumOf(PairIn, Filed(S, key, k))
    <2>1. \A k \in K : Filed(S, key, k) \in SUBSET PaidVisits
      BY DEF Filed, HoldsPairs
    <2>2. QED
      BY <2>1, MoneySums DEF HoldsPairs
  <1>3. FieldTotal(f, TableOf(row, K)) = SumOf(PairIn, S) /\ \A k \in K : row[k][f] \in Int
    BY <1>1, <1>2, TableSum
  <1>4. QED
    BY <1>1, <1>3

\* A table of payments under the keys they are filed by makes up their amount.
LEMMA AmountTable ==
  ASSUME RowsInv, NEW S, NEW key, NEW K, NEW row, NEW f, HoldsPayments(S, key, K, row, f)
  PROVE  FieldTotal(f, TableOf(row, K)) = Amount(S) /\ \A k \in K : row[k][f] \in Int
  <1>1. Summable(PaidIn, S) /\ Amount(S) = SumOf(PaidIn, S)
    BY MoneySums DEF HoldsPayments
  <1>2. Files(S, key, K, row) /\ \A k \in K : row[k][f] = SumOf(PaidIn, Filed(S, key, k))
    <2>1. \A k \in K : Filed(S, key, k) \in SUBSET payments
      BY DEF Filed, HoldsPayments
    <2>2. QED
      BY <2>1, MoneySums DEF HoldsPayments
  <1>3. FieldTotal(f, TableOf(row, K)) = SumOf(PaidIn, S) /\ \A k \in K : row[k][f] \in Int
    BY <1>1, <1>2, TableSum
  <1>4. QED
    BY <1>1, <1>3

\* A table of counts under the keys of what is counted makes up the whole count.
LEMMA CountTable ==
  ASSUME NEW S, NEW key, NEW K, NEW row, NEW f, HoldsCounts(S, key, K, row, f)
  PROVE  FieldTotal(f, TableOf(row, K)) = Cardinality(S) /\ \A k \in K : row[k][f] \in Int
  <1>1. Summable(Ones(S), S) /\ Cardinality(S) = SumOf(Ones(S), S)
    BY CountSums DEF HoldsCounts
  <1>2. Files(S, key, K, row) /\ \A k \in K : row[k][f] = SumOf(Ones(S), Filed(S, key, k))
    <2>1. \A k \in K : Filed(S, key, k) \in SUBSET S
      BY DEF Filed
    <2>2. QED
      BY <2>1, CountSums DEF HoldsCounts
  <1>3. FieldTotal(f, TableOf(row, K)) = SumOf(Ones(S), S) /\ \A k \in K : row[k][f] \in Int
    BY <1>1, <1>2, TableSum
  <1>4. QED
    BY <1>1, <1>3

\* A table of sums of any function makes up the sum of the function.
LEMMA SumTable ==
  ASSUME NEW S, NEW g, NEW key, NEW K, NEW row, NEW f, HoldsSums(S, g, key, K, row, f)
  PROVE  FieldTotal(f, TableOf(row, K)) = SumOf(g, S) /\ \A k \in K : row[k][f] \in Int
  BY TableSum DEF HoldsSums

-----------------------------------------------------------------------------
(* The daily chart, the years and the services.                            *)

\* The rows of a question lie in its period, in the calendar.
LEMMA RowsInPeriod ==
  ASSUME RowsInv, HistoryInv, TypedInv, NEW q
  PROVE  /\ CompletedVisits(q) \subseteq visits /\ IsFiniteSet(CompletedVisits(q))
         /\ PaidServices(q) \subseteq PaidVisits /\ IsFiniteSet(PaidServices(q))
         /\ GoodsPayments(q) \subseteq payments /\ TopUpPayments(q) \subseteq payments
         /\ \A v \in CompletedVisits(q) : v.day \in Days /\ v.day \in Int /\ Within(v.day, q)
         /\ \A x \in PaidServices(q) : /\ x[2] \in payments /\ x[3] \in visits
                                       /\ x[2].day \in Days /\ x[2].day \in Int /\ Within(x[2].day, q)
         /\ \A p \in GoodsPayments(q) \cup TopUpPayments(q) :
              p \in payments /\ p.day \in Days /\ p.day \in Int /\ Within(p.day, q)
  <1>1. /\ CompletedVisits(q) \subseteq visits /\ PaidServices(q) \subseteq PaidVisits
        /\ GoodsPayments(q) \subseteq payments /\ TopUpPayments(q) \subseteq payments
    BY RowsOfFigures
  <1>2. IsFiniteSet(CompletedVisits(q)) /\ IsFiniteSet(PaidServices(q))
    BY <1>1, PaidVisitsAre, FS_Subset DEF RowsInv
  <1>3. \A d \in Days : d \in Int
    BY DaysFinite
  <1>4. \A p \in payments : p.day \in Days
    BY DEF TypedInv
  <1>5. \A v \in CompletedVisits(q) : v.day \in Days /\ v.day \in Int /\ Within(v.day, q)
    <2>1. \A v \in CompletedVisits(q) : v \in visits /\ Within(v.day, q)
      BY <1>1 DEF CompletedVisits
    <2>2. \A v \in visits : v.day \in Days
      BY DEF HistoryInv
    <2>3. QED
      BY <1>3, <2>1, <2>2
  <1>6. \A x \in PaidServices(q) : /\ x[2] \in payments /\ x[3] \in visits
                                   /\ x[2].day \in Days /\ x[2].day \in Int /\ Within(x[2].day, q)
    <2>1. \A x \in PaidServices(q) : x[2] \in payments /\ x[3] \in visits /\ Within(x[2].day, q)
      BY PaidVisitsAre DEF PaidServices
    <2>2. QED
      BY <1>3, <1>4, <2>1
  <1>7. \A p \in GoodsPayments(q) \cup TopUpPayments(q) :
          p \in payments /\ p.day \in Days /\ p.day \in Int /\ Within(p.day, q)
    <2>1. \A p \in GoodsPayments(q) \cup TopUpPayments(q) : p \in payments /\ Within(p.day, q)
      BY DEF GoodsPayments, TopUpPayments, DirectPayments
    <2>2. QED
      BY <1>3, <1>4, <2>1
  <1>8. QED
    BY <1>1, <1>2, <1>5, <1>6, <1>7

\* What the chart shows of a day.
DailyRow(r, d) ==
  [day |-> d,
   appointments |-> Cardinality({v \in CompletedVisits(r) : v.day = d}),
   service |-> PairAmount({x \in PaidServices(r) : x[2].day = d}),
   goods |-> Amount({p \in GoodsPayments(r) : p.day = d}),
   topup |-> Amount({p \in TopUpPayments(r) : p.day = d})]
DailyRows(q) == [d \in q.from..q.to |-> DailyRow(Resolved(q), d)]

\* The chart adds up to the check.
LEMMA DailyAddsUp ==
  ASSUME RowsInv, HistoryInv, TypedInv, NEW q \in AQuestion, NEW r, r = Resolved(q),
         NEW row, row = DailyRows(q)
  PROVE  /\ Daily(q) = TableOf(row, q.from..q.to) /\ IsFiniteSet(q.from..q.to)
         /\ \A d \in q.from..q.to : /\ row[d].day = d /\ row[d].appointments \in Int /\ row[d].service \in Int
                                    /\ row[d].goods \in Int /\ row[d].topup \in Int
         /\ \A d \in q.from..q.to, e \in q.from..q.to : row[d] = row[e] => d = e
         /\ FieldTotal("service", Daily(q)) = PairAmount(PaidServices(r))
         /\ FieldTotal("goods", Daily(q)) = Amount(GoodsPayments(r))
         /\ FieldTotal("topup", Daily(q)) = Amount(TopUpPayments(r))
         /\ FieldTotal("appointments", Daily(q)) = Cardinality(CompletedVisits(r))
  <1> DEFINE K == q.from..q.to
             C == CompletedVisits(r)
             S == PaidServices(r)
             G == GoodsPayments(r)
             U == TopUpPayments(r)
             kC == [v \in C |-> v.day]
             kS == [x \in S |-> x[2].day]
             kG == [p \in G |-> p.day]
             kU == [p \in U |-> p.day]
  <1>1. row = [d \in K |-> DailyRow(r, d)]
    BY DEF DailyRows
  <1>2. r.from = q.from /\ r.to = q.to /\ q.from \in Int /\ q.to \in Int
    BY ResolvedIs DEF AQuestion
  <1>3. IsFiniteSet(K)
    BY <1>2, FS_Interval
  <1>4. Daily(q) = TableOf(row, K)
    <2>1. Daily(q) = {DailyRow(Resolved(q), d) : d \in K}
      BY DEF Daily, DailyRow
    <2>2. \A d \in K : row[d] = DailyRow(Resolved(q), d)
      BY <1>1
    <2> HIDE DEF K
    <2>3. {DailyRow(Resolved(q), d) : d \in K} = {row[d] : d \in K}
      BY <2>2
    <2>4. QED
      BY <2>1, <2>3 DEF TableOf
  <1>5. \A d \in K : /\ row[d] = DailyRow(r, d)
                     /\ row[d].day = d
                     /\ row[d].appointments = Cardinality({v \in C : v.day = d})
                     /\ row[d].service = PairAmount({x \in S : x[2].day = d})
                     /\ row[d].goods = Amount({p \in G : p.day = d})
                     /\ row[d].topup = Amount({p \in U : p.day = d})
    BY <1>1 DEF DailyRow
  <1>6. \A d \in K : /\ Filed(C, kC, d) = {v \in C : v.day = d}
                     /\ Filed(S, kS, d) = {x \in S : x[2].day = d}
                     /\ Filed(G, kG, d) = {p \in G : p.day = d}
                     /\ Filed(U, kU, d) = {p \in U : p.day = d}
    BY DEF Filed
  <1>7. /\ \A v \in C : kC[v] \in Int /\ Within(kC[v], r)
        /\ \A x \in S : kS[x] \in Int /\ Within(kS[x], r)
        /\ \A p \in G : kG[p] \in Int /\ Within(kG[p], r)
        /\ \A p \in U : kU[p] \in Int /\ Within(kU[p], r)
        /\ C \subseteq visits /\ S \subseteq PaidVisits /\ G \subseteq payments /\ U \subseteq payments
        /\ IsFiniteSet(C)
    BY RowsInPeriod
  <1> HIDE DEF K, C, S, G, U, kC, kS, kG, kU
  <1>8. \A d \in K, e \in K : row[d] = row[e] => d = e
    BY <1>5
  <1>9. \A d \in Int : Within(d, r) => d \in K
    BY <1>2 DEF Within, K
  <1>10. /\ Files(C, kC, K, row) /\ Files(S, kS, K, row) /\ Files(G, kG, K, row) /\ Files(U, kU, K, row)
    BY <1>3, <1>7, <1>8, <1>9 DEF Files
  <1>11. /\ HoldsCounts(C, kC, K, row, "appointments") /\ HoldsPairs(S, kS, K, row, "service")
         /\ HoldsPayments(G, kG, K, row, "goods") /\ HoldsPayments(U, kU, K, row, "topup")
    BY <1>5, <1>6, <1>7, <1>10 DEF HoldsCounts, HoldsPairs, HoldsPayments
  <1>12. FieldTotal("appointments", TableOf(row, K)) = Cardinality(C) /\ \A d \in K : row[d]["appointments"] \in Int
    BY <1>11, CountTable
  <1>13. FieldTotal("service", TableOf(row, K)) = PairAmount(S) /\ \A d \in K : row[d]["service"] \in Int
    BY <1>11, PairTable
  <1>14. FieldTotal("goods", TableOf(row, K)) = Amount(G) /\ \A d \in K : row[d]["goods"] \in Int
    BY <1>11, AmountTable
  <1>15. FieldTotal("topup", TableOf(row, K)) = Amount(U) /\ \A d \in K : row[d]["topup"] \in Int
    BY <1>11, AmountTable
  <1>16. \A d \in K : /\ row[d].day = d /\ row[d].appointments \in Int /\ row[d].service \in Int
                      /\ row[d].goods \in Int /\ row[d].topup \in Int
    BY <1>5, <1>12, <1>13, <1>14, <1>15
  <1>17. QED
    BY <1>3, <1>4, <1>8, <1>12, <1>13, <1>14, <1>15, <1>16 DEF K, C, S, G, U

\* The rows of a year.
PaidInYear(r, n) == {x \in PaidServices(r) : YearOf(MonthOf[x[2].day]) = n}
TopUpsInYear(r, n) == {p \in TopUpPayments(r) : YearOf(MonthOf[p.day]) = n}
FirstOfYear(r, n) == {v \in FirstVisits(r) : YearOf(MonthOf[v.day]) = n}

\* The money and the first visits of a year, which add up its months, are those of its rows.
LEMMA YearOfMonths ==
  ASSUME RowsInv, HistoryInv, TypedInv, NEW r, NEW n
  PROVE  /\ YearService(FactsIn(r, n)) = PairAmount(PaidInYear(r, n))
         /\ YearTopUps(FactsIn(r, n)) = Amount(TopUpsInYear(r, n))
         /\ YearFirst(FactsIn(r, n)) = Cardinality(FirstOfYear(r, n))
  <1> DEFINE K == {m \in Months : YearOf(m) = n}
             row == [m \in Months |-> FactsOfMonth(r, m)]
             S == PaidInYear(r, n)
             U == TopUpsInYear(r, n)
             F == FirstOfYear(r, n)
             kS == [x \in S |-> MonthOf[x[2].day]]
             kU == [p \in U |-> MonthOf[p.day]]
             kF == [v \in F |-> MonthOf[v.day]]
  <1>1. IsFiniteSet(K)
    BY MonthsFinite, FS_Subset
  <1>2. \A m \in K : /\ row[m].month = m
                     /\ row[m].service = PairAmount(PaidInMonth(r, m))
                     /\ row[m].topup = Amount(TopUpsInMonth(r, m))
                     /\ row[m].first = FirstInMonth(r, m)
    BY DEF FactsOfMonth
  <1>3. TableOf(row, K) = FactsIn(r, n)
    <2>1. FactsIn(r, n) = {f \in {FactsOfMonth(r, m) : m \in Months} : YearOf(f.month) = n}
      BY FactsAre DEF FactsIn
    <2>2. \A m \in Months : FactsOfMonth(r, m).month = m
      BY DEF FactsOfMonth
    <2>3. \A f : f \in FactsIn(r, n) <=> \E m \in Months : f = FactsOfMonth(r, m) /\ YearOf(m) = n
      BY <2>1, <2>2
    <2>4. \A f : f \in TableOf(row, K) <=> \E m \in Months : f = FactsOfMonth(r, m) /\ YearOf(m) = n
      BY DEF TableOf
    <2>5. TableOf(row, K) \subseteq FactsIn(r, n) /\ FactsIn(r, n) \subseteq TableOf(row, K)
      BY <2>3, <2>4
    <2>6. QED
      BY <2>5
  <1>4. FirstVisits(r) \subseteq CompletedVisits(r) /\ IsFiniteSet(FirstVisits(r))
    BY RowsInPeriod, FS_Subset DEF FirstVisits
  <1>5. /\ S \subseteq PaidVisits /\ U \subseteq payments /\ IsFiniteSet(F)
        /\ \A x \in S : x[2].day \in Days /\ YearOf(MonthOf[x[2].day]) = n
        /\ \A p \in U : p.day \in Days /\ YearOf(MonthOf[p.day]) = n
        /\ \A v \in F : v.day \in Days /\ YearOf(MonthOf[v.day]) = n
    <2>1. IsFiniteSet(F)
      BY <1>4, FS_Subset DEF FirstOfYear
    <2>2. \A v \in F : v.day \in Days /\ YearOf(MonthOf[v.day]) = n
      BY <1>4, RowsInPeriod DEF FirstOfYear
    <2>3. S \subseteq PaidVisits /\ \A x \in S : x[2].day \in Days /\ YearOf(MonthOf[x[2].day]) = n
      BY RowsInPeriod DEF PaidInYear
    <2>4. U \subseteq payments /\ \A p \in U : p.day \in Days /\ YearOf(MonthOf[p.day]) = n
      BY RowsInPeriod DEF TopUpsInYear
    <2>5. QED
      BY <2>1, <2>2, <2>3, <2>4
  <1>6. \A m \in K : /\ Filed(S, kS, m) = PaidInMonth(r, m)
                     /\ Filed(U, kU, m) = TopUpsInMonth(r, m)
                     /\ Cardinality(Filed(F, kF, m)) = FirstInMonth(r, m)
    <2>1. ASSUME NEW m \in K
          PROVE  Filed(S, kS, m) = PaidInMonth(r, m)
      BY DEF Filed, PaidInMonth, PaidInYear
    <2>2. ASSUME NEW m \in K
          PROVE  Filed(U, kU, m) = TopUpsInMonth(r, m)
      BY DEF Filed, TopUpsInMonth, TopUpsInYear
    <2>3. ASSUME NEW m \in K
          PROVE  Cardinality(Filed(F, kF, m)) = FirstInMonth(r, m)
      <3>1. Filed(F, kF, m) = {v \in FirstVisits(r) : MonthOf[v.day] = m}
        BY DEF Filed, FirstOfYear
      <3>2. QED
        BY <3>1 DEF FirstInMonth
    <2>4. QED
      BY <2>1, <2>2, <2>3
  <1>7. /\ \A x \in S : kS[x] \in K
        /\ \A p \in U : kU[p] \in K
        /\ \A v \in F : kF[v] \in K
    BY <1>5 DEF Months
  <1>8. /\ YearService(FactsIn(r, n)) = FieldTotal("service", FactsIn(r, n))
        /\ YearTopUps(FactsIn(r, n)) = FieldTotal("topup", FactsIn(r, n))
        /\ YearFirst(FactsIn(r, n)) = FieldTotal("first", FactsIn(r, n))
    BY DEF YearService, YearTopUps, YearFirst, FieldTotal
  <1> HIDE DEF K, row, S, U, F, kS, kU, kF
  <1>9. /\ HoldsPairs(S, kS, K, row, "service") /\ HoldsPayments(U, kU, K, row, "topup")
        /\ HoldsCounts(F, kF, K, row, "first")
    <2>1. \A i \in K, j \in K : row[i] = row[j] => i = j
      BY <1>2
    <2>2. Files(S, kS, K, row) /\ Files(U, kU, K, row) /\ Files(F, kF, K, row)
      BY <1>1, <1>7, <2>1 DEF Files
    <2>3. QED
      BY <1>2, <1>5, <1>6, <2>2 DEF HoldsPairs, HoldsPayments, HoldsCounts
  <1>10. FieldTotal("service", TableOf(row, K)) = PairAmount(S)
    BY <1>9, PairTable
  <1>11. FieldTotal("topup", TableOf(row, K)) = Amount(U)
    BY <1>9, AmountTable
  <1>12. FieldTotal("first", TableOf(row, K)) = Cardinality(F)
    BY <1>9, CountTable
  <1>13. QED
    BY <1>3, <1>8, <1>10, <1>11, <1>12 DEF S, U, F

\* The years add up to the check, and their first visits to all of them.
LEMMA YearsAddUp ==
  ASSUME RowsInv, HistoryInv, TypedInv, NEW r
  PROVE  /\ FieldTotal("service", YearFacts(r)) = PairAmount(PaidServices(r))
         /\ FieldTotal("topup", YearFacts(r)) = Amount(TopUpPayments(r))
         /\ FieldTotal("appointments", YearFacts(r)) = Cardinality(CompletedVisits(r))
         /\ FieldTotal("first", YearFacts(r)) = Cardinality(FirstVisits(r))
  <1> DEFINE K == Years
             row == [n \in K |-> FactsOfYear(r, n)]
             C == CompletedVisits(r)
             S == PaidServices(r)
             U == TopUpPayments(r)
             F == FirstVisits(r)
             kC == [v \in C |-> YearOf(MonthOf[v.day])]
             kS == [x \in S |-> YearOf(MonthOf[x[2].day])]
             kU == [p \in U |-> YearOf(MonthOf[p.day])]
             kF == [v \in F |-> YearOf(MonthOf[v.day])]
  <1>1. IsFiniteSet(K)
    <2>1. K = {[m \in Months |-> YearOf(m)][k] : k \in Months}
      BY DEF Years
    <2>2. QED
      BY <2>1, MonthsFinite, ImageFinite
  <1>2. \A n \in K : /\ row[n].year = n
                     /\ row[n].service = PairAmount(PaidInYear(r, n))
                     /\ row[n].topup = Amount(TopUpsInYear(r, n))
                     /\ row[n].appointments = Cardinality(SeenIn(r, n))
                     /\ row[n].first = Cardinality(FirstOfYear(r, n))
    BY YearOfMonths DEF FactsOfYear
  <1>3. TableOf(row, K) = YearFacts(r)
    BY DEF TableOf, YearFacts, FactsOfYear, FactsIn, SeenIn, YearFirst, YearService, YearGoods, YearTopUps
  <1>4. /\ S \subseteq PaidVisits /\ U \subseteq payments /\ IsFiniteSet(F) /\ IsFiniteSet(C)
        /\ \A x \in S : x[2].day \in Days
        /\ \A p \in U : p.day \in Days
        /\ \A v \in C : v.day \in Days
        /\ F \subseteq C
    BY RowsInPeriod, FS_Subset DEF FirstVisits
  <1>5. /\ \A n \in K : Filed(C, kC, n) = SeenIn(r, n)
        /\ \A n \in K : Filed(S, kS, n) = PaidInYear(r, n)
        /\ \A n \in K : Filed(U, kU, n) = TopUpsInYear(r, n)
        /\ \A n \in K : Filed(F, kF, n) = FirstOfYear(r, n)
    BY DEF Filed, SeenIn, PaidInYear, TopUpsInYear, FirstOfYear
  <1>6. /\ \A v \in C : kC[v] \in K
        /\ \A x \in S : kS[x] \in K
        /\ \A p \in U : kU[p] \in K
        /\ \A v \in F : kF[v] \in K
    <2>1. \A d \in Days : YearOf(MonthOf[d]) \in Years
      BY DEF Years, Months
    <2>2. QED
      BY <1>4, <2>1
  <1> HIDE DEF K, row, C, S, U, F, kC, kS, kU, kF
  <1>7. /\ HoldsPairs(S, kS, K, row, "service") /\ HoldsPayments(U, kU, K, row, "topup")
        /\ HoldsCounts(C, kC, K, row, "appointments") /\ HoldsCounts(F, kF, K, row, "first")
    <2>1. \A i \in K, j \in K : row[i] = row[j] => i = j
      BY <1>2
    <2>2. Files(S, kS, K, row) /\ Files(U, kU, K, row) /\ Files(C, kC, K, row) /\ Files(F, kF, K, row)
      BY <1>1, <1>6, <2>1 DEF Files
    <2>3. QED
      BY <1>2, <1>4, <1>5, <2>2 DEF HoldsPairs, HoldsPayments, HoldsCounts
  <1>8. FieldTotal("service", TableOf(row, K)) = PairAmount(S)
    BY <1>7, PairTable
  <1>9. FieldTotal("topup", TableOf(row, K)) = Amount(U)
    BY <1>7, AmountTable
  <1>10. FieldTotal("first", TableOf(row, K)) = Cardinality(F)
    BY <1>7, CountTable
  <1>11. FieldTotal("appointments", TableOf(row, K)) = Cardinality(C)
    BY <1>7, CountTable
  <1>12. QED
    BY <1>3, <1>8, <1>9, <1>10, <1>11 DEF C, S, U, F

-----------------------------------------------------------------------------
(* What the rows say.                                                      *)

\* A visit says what an answer said, or what it said before there were ids.
Says(v, r) == v.co = r.co /\ v.staff = r.staff /\ v.client = r.client /\ v.att = r.att /\ v.lines = r.lines

\* Every visit says so; a movement of goods has its id, alone in its branch.
AnswersInv ==
  /\ \A v \in visits : \E r \in Records \cup LegacyVisits : Says(v, r)
  /\ \A g \in sales : g.ext # Null /\ g.qty \in Int
  /\ \A g \in sales, h \in sales : g.co = h.co /\ g.ext = h.ext => g = h

\* Every step keeps it so.
LEMMA AnswersStep ==
  ASSUME RowsInv, AnswersInv, RNext
  PROVE  AnswersInv'
  <1>1. ASSUME NEW r \in Records, MirrorRecord(r) PROVE AnswersInv'
    <2> DEFINE old == Known(visits, r.co, r.ext)
               id == IF old = {} THEN NewId[<<r.co, r.ext>>] ELSE ById(old).id
               new == [id |-> id, ext |-> r.ext, co |-> r.co, staff |-> r.staff, client |-> r.client, by |-> r.by,
                       day |-> r.day, at |-> r.at, made |-> r.made, att |-> r.att, lines |-> r.lines]
    <2>1. visits' = (visits \ old) \cup {new} /\ sales' = sales
      BY <1>1 DEF MirrorRecord
    <2>2. Says(new, r)
      BY DEF Says
    <2> HIDE DEF new, old
    <2>3. \A v \in visits' : \E s \in Records \cup LegacyVisits : Says(v, s)
      BY <2>1, <2>2 DEF AnswersInv
    <2>4. QED
      BY <2>1, <2>3 DEF AnswersInv
  <1>2. ASSUME visits' \subseteq visits, sales' = sales PROVE AnswersInv'
    BY <1>2 DEF AnswersInv
  <1>3. ASSUME NEW v \in visits, PurgeVisit(v) PROVE AnswersInv'
    BY <1>2, <1>3 DEF PurgeVisit
  <1>4. ASSUME NEW g \in Moves, MirrorMove(g) PROVE AnswersInv'
    <2> DEFINE old == Known(sales, g.co, g.ext)
               id == IF old # {} THEN ById(old).id
                     ELSE IF g.ext \in {h.id : h \in sales} THEN FreeId(sales) ELSE g.ext
               new == [id |-> id, ext |-> g.ext, co |-> g.co, day |-> g.day, master |-> g.master, sale |-> g.sale,
                       qty |-> g.qty, good |-> g.good, cosmetics |-> g.cosmetics]
    <2>1. sales' = (sales \ old) \cup {new} /\ visits' = visits
      BY <1>4 DEF MirrorMove
    <2>2. new.co = g.co /\ new.ext = g.ext /\ new.qty = g.qty
      OBVIOUS
    <2>3. g.ext # Null /\ g.qty \in Int
      BY RowsAssumption
    <2>4. \A h \in sales \ old : ~(h.co = g.co /\ h.ext = g.ext)
      <3> DEFINE mapped == {h \in sales : h.co = g.co /\ h.ext = g.ext}
      <3>1. mapped # {} => old = mapped
        BY DEF Known
      <3>2. QED
        BY <3>1
    <2> HIDE DEF new, old
    <2>5. \A h \in sales' : h.ext # Null /\ h.qty \in Int
      BY <2>1, <2>2, <2>3 DEF AnswersInv
    <2>6. \A h \in sales', k \in sales' : h.co = k.co /\ h.ext = k.ext => h = k
      BY <2>1, <2>2, <2>4 DEF AnswersInv
    <2>7. QED
      BY <2>1, <2>5, <2>6 DEF AnswersInv
  <1>5. ASSUME NEW c \in Typed, SaveYandexPay(c), UNCHANGED fvars PROVE AnswersInv'
    BY <1>2, <1>5 DEF fvars
  <1>6. ASSUME NEW batch \in LabelChanges, SaveLabels(batch, Branches) PROVE AnswersInv'
    BY <1>2, <1>6 DEF SaveLabels, mvars
  <1>7. QED
    BY <1>1, <1>2, <1>3, <1>4, <1>5, <1>6
    DEF RNext, FNext, MirrorTransfer, MarkCovered, SetReportingWindow, Tick

\* Whatever is mirrored and purged, they say so.
LEMMA AnswersInvariant == RSpec => [](RowsInv /\ AnswersInv)
  <1>1. RInit => AnswersInv
    <2> SUFFICES ASSUME RInit PROVE AnswersInv
      OBVIOUS
    <2>1. visits = LegacyVisits /\ sales = {}
      BY DEF RInit, FInit, MirrorInit
    <2>2. \A v \in LegacyVisits : Says(v, v)
      BY DEF Says
    <2>3. QED
      BY <2>1, <2>2 DEF AnswersInv
  <1>2. RowsInv /\ AnswersInv /\ [RNext]_rvars => AnswersInv'
    <2>1. CASE UNCHANGED rvars
      BY <2>1 DEF rvars, AnswersInv
    <2>2. QED
      BY <2>1, AnswersStep
  <1>3. QED
    BY <1>1, <1>2, RowsInvariant, PTL DEF RSpec

\* What a visit may say.
LEMMA VisitsAre ==
  ASSUME AnswersInv
  PROVE  /\ \A v \in visits : /\ v.staff \in Staff \cup {Null} /\ v.client \in Nat /\ v.att \in Int
                              /\ IsFiniteSet(v.lines) /\ v.lines \subseteq [service : Nat, qty : Int]
                              /\ \A l \in v.lines : l.service \in Services
         /\ \A u \in visits, v \in visits : u.client = v.client /\ u.client # Null => u.co = v.co
  <1>1. ASSUME NEW v \in visits
        PROVE  /\ v.staff \in Staff \cup {Null} /\ v.client \in Nat /\ v.att \in Int
               /\ IsFiniteSet(v.lines) /\ v.lines \subseteq [service : Nat, qty : Int]
               /\ \A l \in v.lines : l.service \in Services
    <2>1. PICK r \in Records \cup LegacyVisits : Says(v, r)
      BY DEF AnswersInv
    <2>2. /\ r.staff \in Staff \cup {Null} /\ r.client \in Nat /\ r.att \in Int
          /\ IsFiniteSet(r.lines) /\ r.lines \subseteq [service : Nat, qty : Int]
      BY RowsAssumption
    <2>3. \A l \in r.lines : l.service \in Services
      BY DEF Services
    <2>4. QED
      BY <2>1, <2>2, <2>3 DEF Says
  <1>2. ASSUME NEW u \in visits, NEW v \in visits, u.client = v.client, u.client # Null
        PROVE  u.co = v.co
    <2>1. PICK r \in Records \cup LegacyVisits : Says(u, r)
      BY DEF AnswersInv
    <2>2. PICK s \in Records \cup LegacyVisits : Says(v, s)
      BY DEF AnswersInv
    <2>3. r.client = s.client /\ r.client # Null => r.co = s.co
      BY RowsAssumption
    <2>4. QED
      BY <1>2, <2>1, <2>2, <2>3 DEF Says
  <1>3. QED
    BY <1>1, <1>2

-----------------------------------------------------------------------------
(* Services: what the lines of visits sold, and what was paid for them.    *)

\* The lines of visits, those about some services, and what each line sold.
LinesOf(vs) == UNION {{v} \X v.lines : v \in vs}
LinesAbout(vs, S) == {x \in LinesOf(vs) : x[2].service \in S}
LinesIn(v, S) == {l \in v.lines : l.service \in S}
SoldIn == [x \in LinesOf(visits) |-> x[2].qty]

\* Quantities, as sums.
LEMMA QtySums ==
  ASSUME NEW vs, NEW S, NEW g, \A v \in vs : g[v] = LineQty(v, S)
  PROVE  Qty(vs, S) = SumOf(g, vs)
  <1> DEFINE P(h) == h = [s \in SUBSET vs |-> IF s = {} THEN 0 ELSE LineQty(OneOf(s), S) + h[s \ {OneOf(s)}]]
  <1>1. Qty(vs, S) = (CHOOSE h : P(h))[vs]
    BY DEF Qty, Total, MapThenSumSet, MapThenFoldSet, OneOf
  <1>2. \A h : P(h) <=> Adds(h, g, vs)
    <2>1. \A s \in SUBSET vs : s # {} => g[OneOf(s)] = LineQty(OneOf(s), S)
      BY SomeIn
    <2>2. QED
      BY <2>1 DEF Adds
  <1>3. (CHOOSE h : P(h)) = (CHOOSE h : Adds(h, g, vs))
    BY <1>2
  <1>4. QED
    BY <1>1, <1>3, SumIs

\* The lines are finitely many.
LEMMA LinesFinite ==
  ASSUME RowsInv, AnswersInv, NEW vs \in SUBSET visits
  PROVE  /\ LinesOf(vs) \subseteq LinesOf(visits) /\ Summable(SoldIn, LinesOf(vs))
         /\ \A x \in LinesOf(vs) : x[1] \in vs /\ x[2] \in x[1].lines /\ x[2].service \in Services
                                    /\ x = <<x[1], x[2]>>
  <1> DEFINE f == [v \in vs |-> {v} \X v.lines]
  <1>1. \A v \in vs : IsFiniteSet({v} \X v.lines)
    <2>1. ASSUME NEW v \in vs PROVE IsFiniteSet({v} \X v.lines)
      <3>1. IsFiniteSet(v.lines) /\ IsFiniteSet({v})
        BY VisitsAre, FS_Singleton
      <3>2. QED
        BY <3>1, FS_Product
    <2>2. QED
      BY <2>1
  <1>2. IsFiniteSet({f[v] : v \in vs})
    <2>1. IsFiniteSet(vs)
      BY FS_Subset DEF RowsInv
    <2> HIDE DEF f
    <2>2. QED
      BY <2>1, ImageFinite
  <1>3. {f[v] : v \in vs} = {{v} \X v.lines : v \in vs}
    OBVIOUS
  <1>4. IsFiniteSet(LinesOf(vs))
    <2>1. \A T \in {{v} \X v.lines : v \in vs} : IsFiniteSet(T)
      BY <1>1
    <2>2. QED
      BY <1>2, <1>3, <2>1, FS_UNION DEF LinesOf
  <1>5. \A x \in LinesOf(vs) : x[1] \in vs /\ x[2] \in x[1].lines /\ x = <<x[1], x[2]>>
    BY DEF LinesOf
  <1>6. \A x \in LinesOf(visits) : x[2].qty \in Int
    <2>1. \A x \in LinesOf(visits) : x[1] \in visits /\ x[2] \in x[1].lines
      BY DEF LinesOf
    <2>2. QED
      BY <2>1, VisitsAre
  <1>7. LinesOf(vs) \subseteq LinesOf(visits)
    BY DEF LinesOf
  <1>8. \A x \in LinesOf(vs) : SoldIn[x] \in Int
    BY <1>6, <1>7 DEF SoldIn
  <1>9. \A x \in LinesOf(vs) : x[2].service \in Services
    BY <1>5, VisitsAre
  <1>10. QED
    BY <1>4, <1>5, <1>7, <1>8, <1>9 DEF Summable

\* What a visit sold is the sum of its lines.
LEMMA LineQtyIs ==
  ASSUME RowsInv, AnswersInv, NEW v \in visits, NEW S
  PROVE  LineQty(v, S) = SumOf(SoldIn, {x \in LinesAbout({v}, S) : x[1] = v})
  <1> DEFINE L == LinesIn(v, S)
             w == [l \in L |-> l.qty]
             row == [l \in L |-> <<v, l>>]
             X == {row[l] : l \in L}
  <1>1. IsFiniteSet(L) /\ \A l \in L : l.qty \in Int
    BY VisitsAre, FS_Subset DEF LinesIn
  <1>2. \A l \in L : w[l] = l.qty /\ w[l] \in Int
    BY <1>1
  <1>3. LineQty(v, S) = FieldTotal("qty", L)
    BY DEF LineQty, FieldTotal, LinesIn
  <1>4. \A l \in L : SoldIn[row[l]] = w[l]
    BY DEF SoldIn, LinesOf, LinesIn
  <1>5. \A i \in L, j \in L : row[i] = row[j] => i = j
    OBVIOUS
  <1>6. X = {x \in LinesAbout({v}, S) : x[1] = v}
    <2>1. \A x : x \in LinesOf({v}) <=> \E l \in v.lines : x = <<v, l>>
      BY DEF LinesOf
    <2>2. \A x : x \in X <=> \E l \in v.lines : x = <<v, l>> /\ l.service \in S
      BY DEF LinesIn
    <2>3. \A x : x \in LinesAbout({v}, S) /\ x[1] = v <=> x \in LinesOf({v}) /\ x[2].service \in S /\ x[1] = v
      BY DEF LinesAbout
    <2>4. \A x : (x \in LinesAbout({v}, S) /\ x[1] = v) <=> \E l \in v.lines : x = <<v, l>> /\ l.service \in S
      <3>1. ASSUME NEW x, x \in LinesAbout({v}, S), x[1] = v
            PROVE  \E l \in v.lines : x = <<v, l>> /\ l.service \in S
        <4>1. PICK l \in v.lines : x = <<v, l>>
          BY <2>1, <2>3, <3>1
        <4>2. x[2] = l /\ x[2].service \in S
          BY <2>3, <3>1, <4>1
        <4>3. QED
          BY <4>1, <4>2
      <3>2. ASSUME NEW l \in v.lines, l.service \in S PROVE <<v, l>> \in LinesAbout({v}, S)
        <4>1. <<v, l>> \in LinesOf({v}) /\ <<v, l>>[2] = l
          BY <2>1
        <4>2. QED
          BY <3>2, <4>1 DEF LinesAbout
      <3>3. \A l : <<v, l>>[1] = v
        OBVIOUS
      <3>4. ASSUME NEW x, NEW l \in v.lines, x = <<v, l>>, l.service \in S
            PROVE  x \in LinesAbout({v}, S) /\ x[1] = v
        BY <3>2, <3>3, <3>4
      <3>5. QED
        BY <3>1, <3>4
    <2>5. \A x : x \in {y \in LinesAbout({v}, S) : y[1] = v} <=> x \in LinesAbout({v}, S) /\ x[1] = v
      OBVIOUS
    <2> HIDE DEF X
    <2>6. \A x : x \in X <=> x \in {y \in LinesAbout({v}, S) : y[1] = v}
      BY <2>2, <2>4, <2>5
    <2>7. X \subseteq {y \in LinesAbout({v}, S) : y[1] = v} /\ {y \in LinesAbout({v}, S) : y[1] = v} \subseteq X
      BY <2>6
    <2>8. QED
      BY <2>7
  <1>7. X = {row[l] : l \in L}
    OBVIOUS
  <1> HIDE DEF L, w, row, X
  <1>8. SumOf(SoldIn, X) = SumOf(w, L)
    BY <1>1, <1>2, <1>4, <1>5, <1>7, SumOfRows
  <1>9. FieldTotal("qty", L) = SumOf(w, L)
    BY <1>2, FieldTotalIs
  <1>10. QED
    BY <1>3, <1>6, <1>8, <1>9

\* What visits sold is the sum of their lines.
LEMMA QtyIs ==
  ASSUME RowsInv, AnswersInv, NEW vs \in SUBSET visits, NEW S
  PROVE  Qty(vs, S) = SumOf(SoldIn, LinesAbout(vs, S)) /\ Qty(vs, S) \in Int
  <1> DEFINE X == LinesAbout(vs, S)
             part == [v \in vs |-> {x \in LinesAbout({v}, S) : x[1] = v}]
             g == [v \in vs |-> LineQty(v, S)]
  <1>1. Summable(SoldIn, X)
    BY LinesFinite, FS_Subset DEF LinesAbout, Summable
  <1>2. \A v \in vs : g[v] = LineQty(v, S)
    OBVIOUS
  <1>3. \A v \in vs : part[v] \subseteq X /\ g[v] = SumOf(SoldIn, part[v])
    <2>1. \A v \in vs : part[v] \subseteq X
      BY DEF LinesAbout, LinesOf
    <2>2. QED
      BY <2>1, LineQtyIs
  <1>4. \A u \in vs, v \in vs : u # v => part[u] \cap part[v] = {}
    OBVIOUS
  <1>5. \A x \in X : \E v \in vs : x \in part[v]
    BY DEF LinesAbout, LinesOf
  <1>6. IsFiniteSet(vs)
    BY FS_Subset DEF RowsInv
  <1> HIDE DEF X, part, g
  <1>7. Qty(vs, S) = SumOf(g, vs)
    BY <1>2, QtySums
  <1>8. SumOf(SoldIn, X) = SumOf(g, vs)
    BY <1>1, <1>3, <1>4, <1>5, <1>6, SumParts
  <1>9. SumOf(SoldIn, X) \in Int
    BY <1>1, SumStep
  <1>10. QED
    BY <1>7, <1>8, <1>9 DEF X

\* The rows of the list of services, all of them, with or without masters.
MasterOf(v, byStaff) == IF byStaff THEN v.staff ELSE Null
SoldBy(r, byStaff, k) == {v \in CompletedVisits(r) : MasterOf(v, byStaff) = k[1]}
PaidTo(r, byStaff, k) == {x \in PaidServices(r) : MasterOf(x[3], byStaff) = k[1] /\ x[2].item = k[2]}
ServiceRow(r, byStaff, k) ==
  [master |-> k[1], service |-> k[2], sold |-> Qty(SoldBy(r, byStaff, k), {k[2]}),
   revenue |-> PairAmount(PaidTo(r, byStaff, k))]
CountedFor(v, byStaff) == {<<MasterOf(v, byStaff), l.service>> : l \in v.lines}
ServiceKeys(r, byStaff) ==
  (UNION {CountedFor(v, byStaff) : v \in CompletedVisits(r)})
  \cup {<<MasterOf(x[3], byStaff), x[2].item>> : x \in PaidServices(r)}
AllShown(k, vs) == Total(LAMBDA v : LineQty(v, {s \in {k} : ~FALSE \/ Extra(v.co, s)}), vs)

\* Where everything is shown, nothing is left out.
LEMMA AllShownIs ==
  ASSUME NEW k, NEW vs
  PROVE  AllShown(k, vs) = Qty(vs, {k})
  <1> DEFINE g == [v \in vs |-> LineQty(v, {k})]
             shown(v) == LineQty(v, {t \in {k} : ~FALSE \/ Extra(v.co, t)})
             P(h) == h = [s \in SUBSET vs |-> IF s = {} THEN 0 ELSE shown(OneOf(s)) + h[s \ {OneOf(s)}]]
  <1>1. AllShown(k, vs) = (CHOOSE h : P(h))[vs]
    BY DEF AllShown, Total, MapThenSumSet, MapThenFoldSet, OneOf
  <1>2. \A v : shown(v) = LineQty(v, {k})
    <2>1. \A v : {t \in {k} : ~FALSE \/ Extra(v.co, t)} = {k}
      OBVIOUS
    <2>2. QED
      BY <2>1
  <1> HIDE DEF shown
  <1>3. \A h : P(h) <=> Adds(h, g, vs)
    <2>1. \A s \in SUBSET vs : s # {} => g[OneOf(s)] = LineQty(OneOf(s), {k})
      BY SomeIn
    <2>2. QED
      BY <1>2, <2>1 DEF Adds
  <1>4. (CHOOSE h : P(h)) = (CHOOSE h : Adds(h, g, vs))
    BY <1>3
  <1>5. \A v \in vs : g[v] = LineQty(v, {k})
    OBVIOUS
  <1>6. Qty(vs, {k}) = SumOf(g, vs)
    BY <1>5, QtySums
  <1>7. QED
    BY <1>1, <1>4, <1>6, SumIs

\* The services are a table with a row for every service done or paid for, by master or not.
LEMMA TopServicesAre ==
  ASSUME NEW q, NEW byStaff \in BOOLEAN, NEW r, r = Resolved(q),
         NEW row, row = [k \in ServiceKeys(r, byStaff) |-> ServiceRow(r, byStaff, k)]
  PROVE  TopServices(q, byStaff, FALSE) = TableOf(row, ServiceKeys(r, byStaff))
  <1> DEFINE counted ==
               UNION {{<<MasterOf(v, byStaff), l.service>> : l \in {k \in v.lines : ~FALSE \/ Extra(v.co, k.service)}}
                      : v \in CompletedVisits(r)}
             paidFor == {<<MasterOf(x[3], byStaff), x[2].item>> : x \in PaidServices(r)}
             K == ServiceKeys(r, byStaff)
             shown(k) == [master |-> k[1], service |-> k[2],
                          sold |-> AllShown(k[2], {v \in CompletedVisits(r) : MasterOf(v, byStaff) = k[1]}),
                          revenue |-> PairAmount({x \in PaidServices(r) :
                                                     MasterOf(x[3], byStaff) = k[1] /\ x[2].item = k[2]})]
  <1>1. TopServices(q, byStaff, FALSE) = {shown(k) : k \in counted \cup paidFor}
    BY DEF TopServices, AllShown, MasterOf
  <1>2. \A v : {k \in v.lines : ~FALSE \/ Extra(v.co, k.service)} = v.lines
    OBVIOUS
  <1>3. counted \cup paidFor = K
    BY <1>2 DEF ServiceKeys, CountedFor
  <1>4. \A k \in K : shown(k) = row[k]
    BY AllShownIs DEF ServiceRow, SoldBy, PaidTo
  <1> HIDE DEF counted, paidFor, K, shown
  <1>5. {shown(k) : k \in K} = {row[k] : k \in K}
    BY <1>4
  <1>6. QED
    BY <1>1, <1>3, <1>5 DEF TableOf, K

\* The keys are finitely many pairs, and every row and every line has its own.
LEMMA KeysOfServices ==
  ASSUME RowsInv, HistoryInv, TypedInv, AnswersInv, NEW r, NEW byStaff \in BOOLEAN
  PROVE  /\ IsFiniteSet(ServiceKeys(r, byStaff))
         /\ \A k \in ServiceKeys(r, byStaff) : k = <<k[1], k[2]>>
         /\ \A x \in PaidServices(r) : <<MasterOf(x[3], byStaff), x[2].item>> \in ServiceKeys(r, byStaff)
         /\ \A x \in LinesOf(CompletedVisits(r)) :
              <<MasterOf(x[1], byStaff), x[2].service>> \in ServiceKeys(r, byStaff)
  <1> DEFINE C == CompletedVisits(r)
             S == PaidServices(r)
             f == [v \in C |-> CountedFor(v, byStaff)]
             p == [x \in S |-> <<MasterOf(x[3], byStaff), x[2].item>>]
  <1>1. IsFiniteSet(C) /\ IsFiniteSet(S) /\ C \subseteq visits
    BY RowsInPeriod
  <1>2. \A v \in C : IsFiniteSet(f[v])
    <2>1. ASSUME NEW v \in C PROVE IsFiniteSet(f[v])
      <3> DEFINE w == [l \in v.lines |-> <<MasterOf(v, byStaff), l.service>>]
      <3>1. f[v] = {w[l] : l \in v.lines}
        BY DEF CountedFor
      <3>2. IsFiniteSet(v.lines)
        BY <1>1, VisitsAre
      <3> HIDE DEF w
      <3>3. IsFiniteSet({w[l] : l \in v.lines})
        BY <3>2, ImageFinite
      <3>4. QED
        BY <3>1, <3>3
    <2>2. QED
      BY <2>1
  <1>3. ServiceKeys(r, byStaff) = (UNION {f[v] : v \in C}) \cup {p[x] : x \in S}
    BY DEF ServiceKeys
  <1>4. \A k \in ServiceKeys(r, byStaff) : k = <<k[1], k[2]>>
    <2>1. \A k \in ServiceKeys(r, byStaff) : \E a, b : k = <<a, b>>
      BY DEF ServiceKeys, CountedFor
    <2>2. \A a, b : <<a, b>>[1] = a /\ <<a, b>>[2] = b
      OBVIOUS
    <2>3. QED
      BY <2>1, <2>2
  <1>5. \A x \in S : <<MasterOf(x[3], byStaff), x[2].item>> \in ServiceKeys(r, byStaff)
    BY DEF ServiceKeys
  <1>6. \A x \in LinesOf(C) : <<MasterOf(x[1], byStaff), x[2].service>> \in ServiceKeys(r, byStaff)
    <2>1. ASSUME NEW x \in LinesOf(C) PROVE <<MasterOf(x[1], byStaff), x[2].service>> \in ServiceKeys(r, byStaff)
      <3>1. x[1] \in C /\ x[2] \in x[1].lines
        BY <1>1, LinesFinite
      <3>2. <<MasterOf(x[1], byStaff), x[2].service>> \in CountedFor(x[1], byStaff)
        BY <3>1 DEF CountedFor
      <3>3. QED
        BY <3>1, <3>2 DEF ServiceKeys
    <2>2. QED
      BY <2>1
  <1> HIDE DEF C, S, f, p
  <1>7. IsFiniteSet({f[v] : v \in C}) /\ IsFiniteSet({p[x] : x \in S})
    BY <1>1, ImageFinite
  <1>8. IsFiniteSet(UNION {f[v] : v \in C})
    <2>1. \A T \in {f[v] : v \in C} : IsFiniteSet(T)
      BY <1>2
    <2>2. QED
      BY <1>7, <2>1, FS_UNION
  <1>9. IsFiniteSet(ServiceKeys(r, byStaff))
    <2> DEFINE U == UNION {f[v] : v \in C}
               W == {p[x] : x \in S}
    <2>1. IsFiniteSet(U) /\ IsFiniteSet(W) /\ ServiceKeys(r, byStaff) = U \cup W
      BY <1>3, <1>7, <1>8
    <2> HIDE DEF U, W
    <2>2. IsFiniteSet(U \cup W)
      BY <2>1, FS_Union
    <2>3. QED
      BY <2>1, <2>2
  <1>10. QED
    BY <1>4, <1>5, <1>6, <1>9 DEF C, S

\* Services add up to the check, by what was paid for them; and what is sold of some to their lines.
LEMMA ServicesAddUp ==
  ASSUME RowsInv, HistoryInv, TypedInv, AnswersInv, NEW q, NEW byStaff \in BOOLEAN, NEW r, r = Resolved(q)
  PROVE  /\ FieldTotal("revenue", TopServices(q, byStaff, FALSE)) = PairAmount(PaidServices(r))
         /\ \A A : FieldTotal("sold", {s \in TopServices(q, byStaff, FALSE) : s.service \in A})
                   = Qty(CompletedVisits(r), A)
         /\ FieldTotal("sold", TopServices(q, byStaff, FALSE)) = Qty(CompletedVisits(r), Services)
  <1> DEFINE K == ServiceKeys(r, byStaff)
             C == CompletedVisits(r)
             S == PaidServices(r)
             row == [k \in K |-> ServiceRow(r, byStaff, k)]
             kS == [x \in S |-> <<MasterOf(x[3], byStaff), x[2].item>>]
             T == TopServices(q, byStaff, FALSE)
  <1>1. T = TableOf(row, K)
    BY TopServicesAre
  <1>2. C \in SUBSET visits /\ S \in SUBSET PaidVisits
    BY RowsInPeriod
  <1>3. \A k \in K : /\ row[k].master = k[1] /\ row[k].service = k[2]
                     /\ row[k].sold = Qty(SoldBy(r, byStaff, k), {k[2]})
                     /\ row[k].revenue = PairAmount(PaidTo(r, byStaff, k))
    BY DEF ServiceRow
  <1> HIDE DEF row
  <1>4. IsFiniteSet(K) /\ \A k \in K : k = <<k[1], k[2]>>
    BY KeysOfServices
  <1>5. \A i \in K, j \in K : row[i] = row[j] => i = j
    <2>1. ASSUME NEW i \in K, NEW j \in K, row[i] = row[j] PROVE i = j
      <3>1. i[1] = j[1] /\ i[2] = j[2]
        <4>1. row[i].master = row[j].master /\ row[i].service = row[j].service
          BY <2>1
        <4>2. QED
          BY <1>3, <4>1
      <3>2. i = <<i[1], i[2]>> /\ j = <<j[1], j[2]>>
        BY <1>4
      <3>3. QED
        BY <3>1, <3>2
    <2>2. QED
      BY <2>1
  <1>6. \A k \in K : Filed(S, kS, k) = PaidTo(r, byStaff, k)
    <2>1. ASSUME NEW k \in K PROVE Filed(S, kS, k) = PaidTo(r, byStaff, k)
      <3>1. \A x \in S : kS[x] = k <=> MasterOf(x[3], byStaff) = k[1] /\ x[2].item = k[2]
        BY <1>4
      <3>2. QED
        BY <3>1 DEF Filed, PaidTo
    <2>2. QED
      BY <2>1
  <1>7. \A x \in S : kS[x] \in K
    BY KeysOfServices
  <1>8. \A A : {s \in T : s.service \in A} = TableOf(row, {k \in K : k[2] \in A})
    <2>1. \A s : s \in T <=> \E k \in K : s = row[k]
      BY <1>1 DEF TableOf
    <2>2. \A k \in K : row[k].service = k[2]
      BY <1>3
    <2> HIDE DEF K, row, T
    <2>3. ASSUME NEW A PROVE {s \in T : s.service \in A} = TableOf(row, {k \in K : k[2] \in A})
      <3>1. \A s : s \in TableOf(row, {k \in K : k[2] \in A}) <=> \E k \in K : s = row[k] /\ k[2] \in A
        BY DEF TableOf
      <3>2. \A s : s \in {t \in T : t.service \in A} <=> s \in TableOf(row, {k \in K : k[2] \in A})
        BY <2>1, <2>2, <3>1
      <3>3. /\ {t \in T : t.service \in A} \subseteq TableOf(row, {k \in K : k[2] \in A})
            /\ TableOf(row, {k \in K : k[2] \in A}) \subseteq {t \in T : t.service \in A}
        BY <3>2
      <3>4. QED
        BY <3>3
    <2>4. QED
      BY <2>3
  <1> HIDE DEF K, C, S, row, kS, T
  <1>9. FieldTotal("revenue", T) = PairAmount(S)
    <2>1. HoldsPairs(S, kS, K, row, "revenue")
      BY <1>2, <1>3, <1>4, <1>5, <1>6, <1>7 DEF HoldsPairs, Files
    <2>2. QED
      BY <1>1, <2>1, PairTable
  <1>10. ASSUME NEW A PROVE FieldTotal("sold", {s \in T : s.service \in A}) = Qty(C, A)
    <2> DEFINE L == LinesAbout(C, A)
               KA == {k \in K : k[2] \in A}
               kL == [x \in L |-> <<MasterOf(x[1], byStaff), x[2].service>>]
    <2>1. Summable(SoldIn, L)
      BY <1>2, LinesFinite, FS_Subset DEF LinesAbout, Summable
    <2>2. IsFiniteSet(KA) /\ \A i \in KA, j \in KA : row[i] = row[j] => i = j
      BY <1>4, <1>5, FS_Subset
    <2>3. \A x \in L : kL[x] \in KA
      <3>1. \A x \in L : x \in LinesOf(C) /\ x[2].service \in A
        BY DEF LinesAbout
      <3>2. \A x \in L : kL[x] \in K
        BY <3>1, KeysOfServices DEF K, C
      <3>3. \A x \in L : kL[x][2] = x[2].service
        OBVIOUS
      <3>4. QED
        BY <3>1, <3>2, <3>3
    <2>4. ASSUME NEW k \in KA PROVE row[k].sold = SumOf(SoldIn, Filed(L, kL, k))
      <3>1. SoldBy(r, byStaff, k) \in SUBSET visits
        BY <1>2 DEF SoldBy, C
      <3>2. LinesAbout(SoldBy(r, byStaff, k), {k[2]}) = Filed(L, kL, k)
        <4>1. \A x : x \in Filed(L, kL, k) <=> x \in LinesOf(C) /\ x[2].service \in A
                                              /\ <<MasterOf(x[1], byStaff), x[2].service>> = k
          BY DEF Filed, LinesAbout
        <4>2. \A x : x \in LinesOf(SoldBy(r, byStaff, k)) <=> x \in LinesOf(C) /\ MasterOf(x[1], byStaff) = k[1]
          BY DEF LinesOf, SoldBy, C
        <4>3. \A x : x \in LinesAbout(SoldBy(r, byStaff, k), {k[2]})
                     <=> x \in LinesOf(C) /\ MasterOf(x[1], byStaff) = k[1] /\ x[2].service = k[2]
          BY <4>2 DEF LinesAbout
        <4>4. k = <<k[1], k[2]>> /\ k[2] \in A
          BY <1>4
        <4>5. \A x : x \in LinesAbout(SoldBy(r, byStaff, k), {k[2]}) <=> x \in Filed(L, kL, k)
          <5>1. ASSUME NEW x
                PROVE  <<MasterOf(x[1], byStaff), x[2].service>> = k
                       <=> MasterOf(x[1], byStaff) = k[1] /\ x[2].service = k[2]
            BY <4>4
          <5>2. QED
            BY <4>1, <4>3, <4>4, <5>1
        <4>6. /\ LinesAbout(SoldBy(r, byStaff, k), {k[2]}) \subseteq Filed(L, kL, k)
              /\ Filed(L, kL, k) \subseteq LinesAbout(SoldBy(r, byStaff, k), {k[2]})
          BY <4>5
        <4>7. QED
          BY <4>6
      <3>3. QED
        BY <1>3, <3>1, <3>2, QtyIs
    <2> HIDE DEF L, KA, kL
    <2>5. HoldsSums(L, SoldIn, kL, KA, row, "sold")
      BY <2>1, <2>2, <2>3, <2>4 DEF HoldsSums, Files
    <2>6. FieldTotal("sold", TableOf(row, KA)) = SumOf(SoldIn, L)
      BY <2>5, SumTable
    <2>7. QED
      BY <1>2, <1>8, <2>6, QtyIs DEF L, KA
  <1>11. Qty(C, Services) = FieldTotal("sold", T)
    <2>1. \A k \in K : k[2] \in {j[2] : j \in K}
      OBVIOUS
    <2> DEFINE A == {j[2] : j \in K} \cup Services
    <2>2. {s \in T : s.service \in A} = T
      <3>1. \A s \in T : \E k \in K : s = row[k]
        BY <1>1 DEF TableOf
      <3>2. \A k \in K : row[k].service \in A
        BY <1>3, <2>1
      <3>3. \A s \in T : s.service \in A
        BY <3>1, <3>2
      <3>4. QED
        BY <3>3
    <2>3. LinesAbout(C, A) = LinesAbout(C, Services)
      <3>1. \A x \in LinesOf(C) : x[2].service \in Services
        BY <1>2, LinesFinite
      <3>2. QED
        BY <3>1 DEF LinesAbout
    <2> HIDE DEF A
    <2>4. Qty(C, A) = Qty(C, Services)
      BY <1>2, <2>3, QtyIs
    <2>5. QED
      BY <1>10, <2>2, <2>4
  <1>12. QED
    BY <1>9, <1>10, <1>11 DEF C, S, T

\* The revenue of extra services is that of each master, and of nobody's visits.
LEMMA ExtraAddsUp ==
  ASSUME RowsInv, AnswersInv, NEW r
  PROVE  PairAmount(ExtraPaid(PaidServices(r)))
         = PairAmount({x \in ExtraPaid(PaidServices(r)) : x[3].staff = Null})
           + SumOf(ExtraRevenueByStaff(r), Staff)
  <1> DEFINE X == ExtraPaid(PaidServices(r))
             N == {x \in X : x[3].staff = Null}
             part == [s \in Staff |-> {x \in X : x[3].staff = s}]
             e == ExtraRevenueByStaff(r)
  <1>1. SumOf(ExtraRevenueByStaff(r), Staff) = SumOf(e, Staff)
    OBVIOUS
  <1>2. X \in SUBSET PaidVisits
    BY DEF ExtraPaid, PaidServices
  <1>3. \A s \in Staff : e[s] = PairAmount(part[s])
    BY DEF ExtraRevenueByStaff
  <1>4. \A x \in X : x[3].staff \in Staff \cup {Null}
    BY <1>2, PaidVisitsAre, VisitsAre
  <1>5. N \subseteq X /\ \A s \in Staff : part[s] \subseteq X /\ part[s] \cap N = {}
    BY MirrorAssumption
  <1>6. \A s \in Staff, t \in Staff : s # t => part[s] \cap part[t] = {}
    OBVIOUS
  <1>7. \A x \in X \ N : \E s \in Staff : x \in part[s]
    BY <1>4
  <1>8. \A s \in Staff : part[s] \subseteq X \ N
    BY <1>5
  <1> HIDE DEF X, N, part, e
  <1>9. Summable(PairIn, X) /\ PairAmount(X) = SumOf(PairIn, X) /\ PairAmount(N) = SumOf(PairIn, N)
    BY <1>2, <1>5, MoneySums
  <1>10. \A s \in Staff : e[s] = SumOf(PairIn, part[s])
    BY <1>2, <1>3, <1>5, MoneySums
  <1>11. Summable(PairIn, X \ N)
    BY <1>9, FS_Subset DEF Summable
  <1>12. SumOf(PairIn, X \ N) = SumOf(e, Staff)
    BY <1>6, <1>7, <1>8, <1>10, <1>11, MirrorAssumption, SumParts
  <1>13. SumOf(PairIn, X) = SumOf(PairIn, N) + SumOf(PairIn, X \ N)
    BY <1>5, <1>9, SumSplit
  <1>14. QED
    BY <1>1, <1>9, <1>12, <1>13 DEF X, N

-----------------------------------------------------------------------------
(* Goods.                                                                  *)

\* The sale of a payment, and its row in the list of goods.
SalesOf(p) == {g \in sales : SaleOf(p, g)}
GoodsRow(p) ==
  LET g == CHOOSE h \in SalesOf(p) : TRUE
  IN  [payment |-> p, sale |-> IF SalesOf(p) = {} THEN Null ELSE g.id,
       good |-> IF SalesOf(p) = {} THEN p.item ELSE g.good, master |-> Attributed(p)]

\* What the rows of goods brought in.
GoodsTotal(S) == Total(LAMBDA x : x.payment.amount, S)

\* It is the sum of the function that takes the payment's amount.
LEMMA GoodsTotalIs ==
  ASSUME NEW S, NEW g, \A x \in S : g[x] = x.payment.amount
  PROVE  GoodsTotal(S) = SumOf(g, S)
  <1> DEFINE P(h) == h = [s \in SUBSET S |-> IF s = {} THEN 0 ELSE OneOf(s).payment.amount + h[s \ {OneOf(s)}]]
  <1>1. GoodsTotal(S) = (CHOOSE h : P(h))[S]
    BY DEF GoodsTotal, Total, MapThenSumSet, MapThenFoldSet, OneOf
  <1>2. \A h : P(h) <=> Adds(h, g, S)
    <2>1. \A s \in SUBSET S : s # {} => g[OneOf(s)] = OneOf(s).payment.amount
      BY SomeIn
    <2>2. QED
      BY <2>1 DEF Adds
  <1>3. (CHOOSE h : P(h)) = (CHOOSE h : Adds(h, g, S))
    BY <1>2
  <1>4. QED
    BY <1>1, <1>3, SumIs

\* A payment has one sale at most, and so one row.
LEMMA GoodsRowsAre ==
  ASSUME AnswersInv, NEW r, NEW row, row = [p \in GoodsPayments(r) |-> GoodsRow(p)]
  PROVE  /\ PaidGoodsRows(r) = TableOf(row, GoodsPayments(r))
         /\ \A p \in GoodsPayments(r) : row[p].payment = p
  <1> DEFINE G == GoodsPayments(r)
             shown(p, id, good) == [payment |-> p, sale |-> id, good |-> good, master |-> Attributed(p)]
             rows(p) == IF SalesOf(p) = {} THEN {shown(p, Null, p.item)}
                        ELSE {shown(p, g.id, g.good) : g \in SalesOf(p)}
  <1>1. PaidGoodsRows(r) = UNION {rows(p) : p \in G}
    BY DEF PaidGoodsRows, SalesOf
  <1>2. \A p : \A g \in SalesOf(p), h \in SalesOf(p) : g = h
    BY DEF SalesOf, SaleOf, AnswersInv
  <1>3. ASSUME NEW p \in G PROVE rows(p) = {GoodsRow(p)}
    <2>1. CASE SalesOf(p) = {}
      BY <2>1 DEF GoodsRow
    <2>2. CASE SalesOf(p) # {}
      <3> DEFINE g == CHOOSE h \in SalesOf(p) : TRUE
      <3>1. g \in SalesOf(p)
        BY <2>2
      <3>2. SalesOf(p) = {g}
        BY <1>2, <3>1
      <3>3. GoodsRow(p) = shown(p, g.id, g.good)
        BY <2>2 DEF GoodsRow
      <3> HIDE DEF g, shown
      <3>4. QED
        BY <2>2, <3>2, <3>3
    <2>3. QED
      BY <2>1, <2>2
  <1> HIDE DEF rows
  <1>4. UNION {rows(p) : p \in G} = {row[p] : p \in G}
    <2>1. \A p \in G : rows(p) = {row[p]}
      BY <1>3
    <2>2. QED
      BY <2>1
  <1>5. \A p \in G : row[p].payment = p
    BY DEF GoodsRow
  <1>6. QED
    BY <1>1, <1>4, <1>5 DEF TableOf

\* What the rows brought in, and what a movement of goods moved.
RowIn(S) == [x \in S |-> x.payment.amount]
SizeOf(g) == IF g.qty < 0 THEN -g.qty ELSE g.qty
Sizes == [g \in sales |-> SizeOf(g)]
SizeTotal(S) == Total(SizeOf, S)

\* It is the sum of the function that takes the size.
LEMMA SizeTotalIs ==
  ASSUME NEW S, NEW g, \A x \in S : g[x] = SizeOf(x)
  PROVE  SizeTotal(S) = SumOf(g, S)
  <1> DEFINE P(h) == h = [s \in SUBSET S |-> IF s = {} THEN 0 ELSE SizeOf(OneOf(s)) + h[s \ {OneOf(s)}]]
  <1>1. SizeTotal(S) = (CHOOSE h : P(h))[S]
    BY DEF SizeTotal, Total, MapThenSumSet, MapThenFoldSet, OneOf
  <1>2. \A h : P(h) <=> Adds(h, g, S)
    <2>1. \A s \in SUBSET S : s # {} => g[OneOf(s)] = SizeOf(OneOf(s))
      BY SomeIn
    <2>2. QED
      BY <2>1 DEF Adds
  <1>3. (CHOOSE h : P(h)) = (CHOOSE h : Adds(h, g, S))
    BY <1>2
  <1>4. QED
    BY <1>1, <1>3, SumIs

\* The rows of goods are as many as the payments, and bring in what these do.
LEMMA GoodsAddUp ==
  ASSUME RowsInv, AnswersInv, NEW r
  PROVE  /\ Summable(RowIn(PaidGoodsRows(r)), PaidGoodsRows(r))
         /\ \A S \in SUBSET PaidGoodsRows(r) : GoodsTotal(S) = SumOf(RowIn(PaidGoodsRows(r)), S)
         /\ GoodsTotal(PaidGoodsRows(r)) = Amount(GoodsPayments(r))
  <1> DEFINE G == GoodsPayments(r)
             row == [p \in G |-> GoodsRow(p)]
             R == PaidGoodsRows(r)
             g == RowIn(R)
  <1>1. R = TableOf(row, G) /\ \A p \in G : row[p].payment = p
    BY GoodsRowsAre
  <1>2. G \in SUBSET payments /\ IsFiniteSet(G)
    BY RowsOfFigures, FS_Subset DEF RowsInv
  <1> HIDE DEF row, G
  <1>3. \A x \in R : x.payment \in G
    BY <1>1 DEF TableOf
  <1>4. \A x \in R : g[x] = x.payment.amount /\ g[x] \in Int
    BY <1>2, <1>3 DEF RowIn, RowsInv
  <1>5. IsFiniteSet(R)
    BY <1>1, <1>2, ImageFinite DEF TableOf
  <1>6. \A p \in G : g[row[p]] = PaidIn[p] /\ PaidIn[p] \in Int
    <2>1. \A p \in G : row[p] \in R
      BY <1>1 DEF TableOf
    <2>2. QED
      BY <1>1, <1>2, <1>4, <2>1 DEF PaidIn
  <1> HIDE DEF R, g
  <1>7. \A i \in G, j \in G : row[i] = row[j] => i = j
    BY <1>1
  <1>8. SumOf(g, R) = SumOf(PaidIn, G)
    <2>1. R = {row[p] : p \in G}
      BY <1>1 DEF TableOf
    <2>2. QED
      BY <1>2, <1>6, <1>7, <2>1, SumOfRows
  <1>9. \A S \in SUBSET R : GoodsTotal(S) = SumOf(g, S)
    BY <1>4, GoodsTotalIs
  <1>10. Amount(G) = SumOf(PaidIn, G)
    BY <1>2, MoneySums
  <1>11. QED
    BY <1>4, <1>5, <1>8, <1>9, <1>10 DEF G, R, g, Summable

\* Sellers and goods slice the same rows: they add up to them, and goods also to what was moved.
LEMMA SellersAddUp ==
  ASSUME RowsInv, AnswersInv, NEW r
  PROVE  FieldTotal("revenue", SellerRows(r)) = Amount(GoodsPayments(r))
  <1> DEFINE R == PaidGoodsRows(r)
             g == RowIn(R)
             key == [x \in R |-> <<x.payment.co, x.master>>]
             K == {key[x] : x \in R}
             row == [k \in K |-> [seller |-> k, count |-> Cardinality(Filed(R, key, k)),
                                  revenue |-> GoodsTotal(Filed(R, key, k))]]
  <1>1. SellerRows(r) = TableOf(row, K)
    <2>1. \A k : Filed(R, key, k) = {x \in R : <<x.payment.co, x.master>> = k}
      BY DEF Filed
    <2> DEFINE shown(k) == [seller |-> k, count |-> Cardinality({x \in R : <<x.payment.co, x.master>> = k}),
                            revenue |-> GoodsTotal({x \in R : <<x.payment.co, x.master>> = k})]
    <2>2. K = {<<x.payment.co, x.master>> : x \in R}
      OBVIOUS
    <2>3. SellerRows(r) = {shown(k) : k \in {<<x.payment.co, x.master>> : x \in R}}
      BY DEF SellerRows, GoodsTotal
    <2>4. \A k \in K : row[k] = shown(k)
      BY <2>1
    <2> HIDE DEF row, K, key, shown
    <2>5. {row[k] : k \in K} = {shown(k) : k \in K}
      BY <2>4
    <2>6. QED
      BY <2>2, <2>3, <2>5 DEF TableOf
  <1>2. /\ Summable(g, R) /\ GoodsTotal(R) = Amount(GoodsPayments(r))
        /\ \A S \in SUBSET R : GoodsTotal(S) = SumOf(g, S)
    BY GoodsAddUp
  <1>3. \A k \in K : row[k].seller = k /\ row[k].revenue = GoodsTotal(Filed(R, key, k))
    OBVIOUS
  <1>4. \A k \in K : Filed(R, key, k) \in SUBSET R
    BY DEF Filed
  <1>5. \A x \in R : key[x] \in K
    OBVIOUS
  <1> HIDE DEF R, g, row, key
  <1>6. IsFiniteSet(K)
    BY <1>2, ImageFinite DEF Summable
  <1> HIDE DEF K
  <1>7. HoldsSums(R, g, key, K, row, "revenue")
    BY <1>2, <1>3, <1>4, <1>5, <1>6 DEF HoldsSums, Files
  <1>8. FieldTotal("revenue", TableOf(row, K)) = SumOf(g, R)
    BY <1>7, SumTable
  <1>9. QED
    BY <1>1, <1>2, <1>8

\* The goods of the merged table make up what was paid for goods and the units the stock moved.
LEMMA MergedAddUp ==
  ASSUME RowsInv, AnswersInv, NEW r
  PROVE  /\ FieldTotal("revenue", MergedGoods(r)) = Amount(GoodsPayments(r))
         /\ FieldTotal("units", MergedGoods(r)) = RevenueBlock(r).goods
  <1> DEFINE R == PaidGoodsRows(r)
             M == SoldGoods(r)
             g == RowIn(R)
             kR == [x \in R |-> x.good]
             kM == [x \in M |-> x.good]
             K == {kM[x] : x \in M} \cup {kR[x] : x \in R}
             row == [k \in K |-> [good |-> k, units |-> SizeTotal(Filed(M, kM, k)),
                                  revenue |-> GoodsTotal(Filed(R, kR, k))]]
  <1>1. MergedGoods(r) = TableOf(row, K)
    <2>1. \A k : Filed(R, kR, k) = {x \in R : x.good = k} /\ Filed(M, kM, k) = {x \in M : x.good = k}
      BY DEF Filed
    <2> DEFINE shown(k) == [good |-> k, units |-> SizeTotal({x \in M : x.good = k}),
                            revenue |-> GoodsTotal({x \in R : x.good = k})]
    <2>2. K = {x.good : x \in M} \cup {x.good : x \in R}
      OBVIOUS
    <2>3. MergedGoods(r) = {shown(k) : k \in {x.good : x \in M} \cup {x.good : x \in R}}
      BY DEF MergedGoods, GoodsTotal, SizeTotal, SizeOf
    <2>4. \A k \in K : row[k] = shown(k)
      BY <2>1
    <2> HIDE DEF row, K, kR, kM, shown
    <2>5. {row[k] : k \in K} = {shown(k) : k \in K}
      BY <2>4
    <2>6. QED
      BY <2>2, <2>3, <2>5 DEF TableOf
  <1>2. /\ Summable(g, R) /\ GoodsTotal(R) = Amount(GoodsPayments(r))
        /\ \A S \in SUBSET R : GoodsTotal(S) = SumOf(g, S)
    BY GoodsAddUp
  <1>3. M \in SUBSET sales /\ IsFiniteSet(M)
    BY FS_Subset DEF SoldGoods, RowsInv
  <1>4. \A x \in sales : Sizes[x] = SizeOf(x) /\ Sizes[x] \in Int
    BY DEF Sizes, SizeOf, AnswersInv
  <1>5. Summable(Sizes, M) /\ \A S \in SUBSET M : SizeTotal(S) = SumOf(Sizes, S)
    <2>1. ASSUME NEW S \in SUBSET M PROVE SizeTotal(S) = SumOf(Sizes, S)
      <3>1. \A x \in S : Sizes[x] = SizeOf(x)
        BY <1>3, <1>4
      <3>2. QED
        BY <3>1, SizeTotalIs
    <2>2. QED
      BY <1>3, <1>4, <2>1 DEF Summable
  <1>6. RevenueBlock(r).goods = SizeTotal(M)
    BY DEF RevenueBlock, SizeTotal, SizeOf
  <1>7. \A k \in K : /\ row[k].good = k /\ row[k].revenue = GoodsTotal(Filed(R, kR, k))
                     /\ row[k].units = SizeTotal(Filed(M, kM, k))
    OBVIOUS
  <1>8. \A k \in K : Filed(R, kR, k) \in SUBSET R /\ Filed(M, kM, k) \in SUBSET M
    BY DEF Filed
  <1>9. (\A x \in R : kR[x] \in K) /\ (\A x \in M : kM[x] \in K)
    OBVIOUS
  <1> HIDE DEF R, M, g, row, kR, kM
  <1>10. IsFiniteSet(K)
    <2>1. IsFiniteSet({kM[x] : x \in M}) /\ IsFiniteSet({kR[x] : x \in R})
      BY <1>2, <1>3, ImageFinite DEF Summable
    <2>2. QED
      BY <2>1, FS_Union
  <1> HIDE DEF K
  <1>11. HoldsSums(R, g, kR, K, row, "revenue")
    BY <1>2, <1>7, <1>8, <1>9, <1>10 DEF HoldsSums, Files
  <1>12. HoldsSums(M, Sizes, kM, K, row, "units")
    BY <1>5, <1>7, <1>8, <1>9, <1>10 DEF HoldsSums, Files
  <1>13. FieldTotal("revenue", TableOf(row, K)) = SumOf(g, R)
    BY <1>11, SumTable
  <1>14. FieldTotal("units", TableOf(row, K)) = SumOf(Sizes, M)
    BY <1>12, SumTable
  <1>15. SizeTotal(M) = SumOf(Sizes, M)
    BY <1>5
  <1>16. QED
    BY <1>1, <1>2, <1>6, <1>13, <1>14, <1>15

\* Units of cosmetics, less what came back, are at most all units that moved.
LEMMA CosmeticsAmong ==
  ASSUME RowsInv, AnswersInv, NEW r
  PROVE  CosmoQty(r) <= RevenueBlock(r).goods
  <1> DEFINE M == SoldGoods(r)
             C == Cosmetics(r)
             out == [x \in C |-> -x.qty]
             minus(x) == -x.qty
             P(h) == h = [s \in SUBSET C |-> IF s = {} THEN 0 ELSE minus(OneOf(s)) + h[s \ {OneOf(s)}]]
  <1>1. C \subseteq M /\ M \in SUBSET sales /\ IsFiniteSet(M) /\ IsFiniteSet(C)
    BY FS_Subset DEF Cosmetics, SoldGoods, RowsInv
  <1>2. \A x \in sales : Sizes[x] = SizeOf(x) /\ Sizes[x] \in Nat /\ x.qty \in Int /\ -x.qty <= Sizes[x]
    BY DEF Sizes, SizeOf, AnswersInv
  <1>3. CosmoQty(r) = (CHOOSE h : P(h))[C]
    BY DEF CosmoQty, Total, MapThenSumSet, MapThenFoldSet, OneOf
  <1>4. \A h : P(h) <=> Adds(h, out, C)
    <2>1. \A s \in SUBSET C : s # {} => out[OneOf(s)] = minus(OneOf(s))
      BY SomeIn
    <2> HIDE DEF out, minus
    <2>2. QED
      BY <2>1 DEF Adds
  <1>5. (CHOOSE h : P(h)) = (CHOOSE h : Adds(h, out, C))
    BY <1>4
  <1>6. CosmoQty(r) = SumOf(out, C)
    BY <1>3, <1>5, SumIs
  <1>7. Summable(out, C) /\ Summable(Sizes, C) /\ \A x \in C : out[x] <= Sizes[x]
    BY <1>1, <1>2 DEF Summable
  <1>8. Summable(Sizes, M) /\ (\A x \in M : Sizes[x] >= 0 /\ Sizes[x] = SizeOf(x))
    BY <1>1, <1>2 DEF Summable
  <1>9. RevenueBlock(r).goods = SizeTotal(M)
    BY DEF RevenueBlock, SizeTotal, SizeOf
  <1> HIDE DEF M, C, out
  <1>10. SumOf(out, C) <= SumOf(Sizes, C)
    BY <1>7, SumAtMost
  <1>11. SumOf(Sizes, C) <= SumOf(Sizes, M)
    BY <1>1, <1>8, SumGrows
  <1>12. SizeTotal(M) = SumOf(Sizes, M)
    BY <1>8, SizeTotalIs
  <1>13. SumOf(out, C) \in Int /\ SumOf(Sizes, C) \in Int /\ SumOf(Sizes, M) \in Int
    BY <1>7, <1>8, SumStep
  <1>14. QED
    BY <1>6, <1>9, <1>10, <1>11, <1>12, <1>13

-----------------------------------------------------------------------------
(* Accounts, and the cards of the summary.                                 *)

\* For everybody the split by account makes up the revenue of the check.
LEMMA AccountsAddUp ==
  ASSUME RowsInv, TypedInv, NEW q \in AQuestion, Everybody(q), NEW r, r = Resolved(q)
  PROVE  AverageCheck(r).revenue = Total(LAMBDA k : k.amount, RevenueByAccount(r))
  <1> DEFINE A == CompanyIds(q) \X Months \X Names
             amt == [k \in A |-> Earned(r, k)]
  <1>1. Columns(r) \subseteq CompanyIds(q) /\ MonthsIn(r) \subseteq Months
    BY ColumnsAre
  <1>2. IsFiniteSet(A)
    BY ResolvedIs, MonthsFinite, NamesFinite, TriplesFinite
  <1>3. /\ \A x \in PaidServices(r) : Key(x[2]) \in A
        /\ \A p \in GoodsPayments(r) : Key(p) \in A
        /\ \A p \in TopUpPayments(r) : Key(p) \in A
    BY <1>1, PaidKeys
  <1>4. \A k \in A : amt[k] = Earned(r, k)
    OBVIOUS
  <1>5. AverageCheck(r).revenue = SumOf(amt, A) /\ Summable(amt, A)
    <2> HIDE DEF A, amt
    <2>1. QED
      BY <1>2, <1>3, <1>4, RevenueOfAccounts
  <1>6. Amount({x \in RevenueByAccount(r) : x.key \in A}) = SumOf(amt, A)
    <2> HIDE DEF amt
    <2>1. QED
      BY <1>4, <1>5, AccountsHold
  <1>7. {x \in RevenueByAccount(r) : x.key \in A} = RevenueByAccount(r)
    BY AccountsAre
  <1>8. Amount(RevenueByAccount(r)) = Total(LAMBDA k : k.amount, RevenueByAccount(r))
    BY DEF Amount
  <1>9. QED
    BY <1>5, <1>6, <1>7, <1>8

\* The questions are questions, about branches that are in their scope.
LEMMA ScopeIs ==
  ASSUME NEW q \in Questions, NEW r, r = Resolved(q)
  PROVE  /\ q \in AQuestion /\ CompanyIds(r) = CompanyIds(q)
         /\ \A b : InScope(r, b) <=> b \in CompanyIds(r)
  <1>1. q \in AQuestion
    BY QuestionsAssumption DEF AQuestion
  <1>2. CompanyIds(r) = CompanyIds(q) /\ \A c : InScope(r, c) <=> (q.co = Null \/ c = q.co) /\ c \in CompanyIds(q)
    BY <1>1, ResolvedIs, SameScope
  <1>3. ASSUME NEW b \in CompanyIds(q) PROVE q.co = Null \/ b = q.co
    <2>1. CASE q.sel.kind = "group"
      BY <2>1 DEF CompanyIds, InScope
    <2>2. CASE q.sel.kind = "one"
      <3>1. b \in {WorksAt[s] : s \in q.sel.ids \cap Staff}
        BY <2>2 DEF CompanyIds
      <3>2. q.co # Null => \A s \in q.sel.ids : WorksAt[s] = q.co
        BY <2>2, QuestionsAssumption
      <3>3. QED
        BY <3>1, <3>2
    <2>3. CASE q.sel.kind = "all"
      <3>1. q.co # Null => CompanyIds(q) \subseteq {q.co}
        BY <2>3 DEF CompanyIds
      <3>2. QED
        BY <3>1
    <2>4. q.sel.kind \in {"all", "one", "group"}
      BY <1>1 DEF AQuestion
    <2>5. QED
      BY <2>1, <2>2, <2>3, <2>4
  <1>4. QED
    BY <1>1, <1>2, <1>3

\* The cards about clients, counted for themselves, are those of the summary.
LEMMA MixIsSummary ==
  ASSUME NEW q \in Questions, NEW r, r = Resolved(q)
  PROVE  /\ ClientMix(q, "month").current
            = [visits |-> AverageCheck(r).appointments, clients |-> AverageCheck(r).clients,
               recency |-> ClientRecency(r)]
         /\ ClientMix(q, "month").previous.visits
            = AverageCheck(At(r, PreviousPeriod(q, "month"))).appointments
  <1>1. q \in AQuestion
    BY ScopeIs
  <1>2. At(r, Period(q.from, q.to)) = r
    <2>1. r = [from |-> q.from, to |-> q.to, co |-> q.co, limited |-> TRUE, allowed |-> CompanyIds(q), sel |-> q.sel]
      BY <1>1 DEF Resolved, AQuestion
    <2>2. r.from = q.from /\ r.to = q.to /\ Period(q.from, q.to).from = q.from /\ Period(q.from, q.to).to = q.to
      BY <2>1 DEF Period
    <2>3. r = [x \in DOMAIN r |-> r[x]]
      BY <2>1
    <2>4. [r EXCEPT !.from = r.from, !.to = r.to] = r
      BY <2>3
    <2>5. QED
      BY <2>2, <2>4 DEF At
  <1>3. \A x : /\ AverageCheck(x).appointments = Cardinality(CompletedVisits(x))
               /\ AverageCheck(x).clients = Cardinality(Clients(CompletedVisits(x)))
    BY DEF AverageCheck, Check
  <1>4. ClientMix(q, "month").current
        = [visits |-> Cardinality(CompletedVisits(r)), clients |-> Cardinality(Clients(CompletedVisits(r))),
           recency |-> ClientRecency(r)]
    BY <1>2 DEF ClientMix
  <1>5. ClientMix(q, "month").previous.visits = Cardinality(CompletedVisits(At(r, PreviousPeriod(q, "month"))))
    BY DEF ClientMix
  <1>6. QED
    BY <1>3, <1>4, <1>5

\* The counts of the appointment cards.
CountsOf(vs) ==
  [total |-> Cardinality(vs), cancelled |-> Cardinality({v \in vs : v.att \in {Cancelled}}),
   completed |-> Cardinality({v \in vs : v.att \in {Completed}}),
   incomplete |-> Cardinality({v \in vs : v.att \notin {Completed, Cancelled}})]

\* The counts of finitely many visits are numbers, and the three kinds make all of them.
LEMMA CountsAre ==
  ASSUME NEW vs, IsFiniteSet(vs)
  PROVE  /\ CountsOf(vs).total = Cardinality(vs) /\ CountsOf(vs).total \in Nat
         /\ CountsOf(vs).cancelled = Cardinality({v \in vs : v.att = Cancelled})
         /\ CountsOf(vs).completed = Cardinality({v \in vs : v.att = Completed})
         /\ \A f \in {"cancelled", "completed", "incomplete"} : CountsOf(vs)[f] \in Nat
         /\ CountsOf(vs).cancelled + CountsOf(vs).completed + CountsOf(vs).incomplete = CountsOf(vs).total
  <1> DEFINE A == {v \in vs : v.att \in {Cancelled}}
             B == {v \in vs : v.att \in {Completed}}
             C == {v \in vs : v.att \notin {Completed, Cancelled}}
  <1>1. /\ CountsOf(vs).total = Cardinality(vs) /\ CountsOf(vs).cancelled = Cardinality(A)
        /\ CountsOf(vs).completed = Cardinality(B) /\ CountsOf(vs).incomplete = Cardinality(C)
    BY DEF CountsOf
  <1>2. A = {v \in vs : v.att = Cancelled} /\ B = {v \in vs : v.att = Completed}
    OBVIOUS
  <1>3. IsFiniteSet(A) /\ IsFiniteSet(B) /\ IsFiniteSet(C)
    BY FS_Subset
  <1>4. A \cap B = {} /\ (A \cup B) \cap C = {} /\ (A \cup B) \cup C = vs
    BY DEF Cancelled, Completed
  <1> HIDE DEF A, B, C
  <1>5. Cardinality(vs) = Cardinality(A) + Cardinality(B) + Cardinality(C)
    <2> DEFINE D == A \cup B
    <2>1. IsFiniteSet(D) /\ Cardinality(D) = Cardinality(A) + Cardinality(B) - Cardinality({})
      <3>1. /\ IsFiniteSet(A \cup B)
            /\ Cardinality(A \cup B) = Cardinality(A) + Cardinality(B) - Cardinality(A \cap B)
        BY <1>3, FS_Union
      <3>2. A \cap B = {}
        BY <1>4
      <3>3. QED
        BY <3>1, <3>2
    <2>2. Cardinality(vs) = Cardinality(D) + Cardinality(C) - Cardinality({})
      <3>1. D \cap C = {} /\ D \cup C = vs
        BY <1>4
      <3> HIDE DEF D
      <3>2. Cardinality(D \cup C) = Cardinality(D) + Cardinality(C) - Cardinality(D \cap C)
        BY <1>3, <2>1, FS_Union
      <3>3. QED
        BY <3>1, <3>2
    <2>3. Cardinality({}) = 0
      BY FS_EmptySet
    <2>4. Cardinality(A) \in Nat /\ Cardinality(B) \in Nat /\ Cardinality(C) \in Nat
      BY <1>3, FS_CardinalityType
    <2>5. QED
      BY <2>1, <2>2, <2>3, <2>4
  <1>6. Cardinality(A) \in Nat /\ Cardinality(B) \in Nat /\ Cardinality(C) \in Nat /\ Cardinality(vs) \in Nat
    BY <1>3, FS_CardinalityType
  <1>7. QED
    BY <1>1, <1>2, <1>5, <1>6

\* Whatever the period, the cards count the rows booked in it.
LEMMA CardsAre ==
  ASSUME RowsInv, NEW q \in Questions, NEW r, r = Resolved(q)
  PROVE  /\ AppointmentsBreakdown(r, <<>>).status # "unavailable" =>
              /\ AppointmentsBreakdown(r, <<>>).counts = CountsOf(Booked(r))
              /\ AppointmentsBreakdown(r, <<>>).shares = Shares(CountsOf(Booked(r)))
         /\ CompletedVisits(r) = {v \in Booked(r) : v.att = Completed}
         /\ Booked(r) \subseteq visits /\ IsFiniteSet(Booked(r))
  <1>1. \A b : InScope(r, b) <=> b \in CompanyIds(r)
    BY ScopeIs
  <1>2. Booked(r) \subseteq visits /\ IsFiniteSet(Booked(r))
    BY FS_Subset DEF Booked, RowsInv
  <1>3. CompletedVisits(r) = {v \in Booked(r) : v.att = Completed}
    BY DEF CompletedVisits, History, Booked
  <1> DEFINE seen == {v \in visits : /\ v.co \in CompanyIds(r) /\ Within(v.day, r) /\ Business(v.staff)
                                     /\ Reported(v.co, v.day) /\ Happened(v) /\ Chosen(r, v.staff)}
  <1>4. seen = Booked(r)
    BY <1>1 DEF Booked
  <1>5. ASSUME NEW reason PROVE LocalBreakdown(r, CompanyIds(r), reason) = ReadyBreakdown(CountsOf(Booked(r)), reason)
    <2>1. LocalBreakdown(r, CompanyIds(r), reason) = ReadyBreakdown(CountsOf(seen), reason)
      BY DEF LocalBreakdown, CountsOf
    <2>2. QED
      BY <1>4, <2>1
  <1>6. \E reason : AppointmentsBreakdown(r, <<>>) = LocalBreakdown(r, CompanyIds(r), reason)
    BY DEF AppointmentsBreakdown
  <1>7. PICK reason : AppointmentsBreakdown(r, <<>>) = ReadyBreakdown(CountsOf(Booked(r)), reason)
    BY <1>5, <1>6
  <1>8. ReadyBreakdown(CountsOf(Booked(r)), reason).status # "unavailable" =>
          /\ ReadyBreakdown(CountsOf(Booked(r)), reason).counts = CountsOf(Booked(r))
          /\ ReadyBreakdown(CountsOf(Booked(r)), reason).shares = Shares(CountsOf(Booked(r)))
    BY DEF ReadyBreakdown
  <1>9. QED
    BY <1>2, <1>3, <1>7, <1>8

\* A sum of three, and a count among three.
LEMMA SumOfThree ==
  ASSUME NEW g, \A i \in 1..3 : g[i] \in Int
  PROVE  SumOf(g, 1..3) = g[1] + g[2] + g[3] /\ Summable(g, 1..3)
  <1>1. IsFiniteSet(1..3) /\ 1..3 = {1, 2, 3}
    <2>1. IsFiniteSet(1..3)
      <3>1. 1 \in Int /\ 3 \in Int
        OBVIOUS
      <3>2. QED
        BY <3>1, FS_Interval
    <2>2. 1..3 = {1, 2, 3}
      OBVIOUS
    <2>3. QED
      BY <2>1, <2>2
  <1>2. Summable(g, 1..3)
    BY <1>1 DEF Summable
  <1>3. Summable(g, {1, 2}) /\ Summable(g, {1})
    <2>1. {1, 2} \subseteq 1..3 /\ {1} \subseteq 1..3
      OBVIOUS
    <2>2. IsFiniteSet({1, 2}) /\ IsFiniteSet({1})
      BY <1>1, <2>1, FS_Subset
    <2>3. QED
      BY <2>1, <2>2 DEF Summable
  <1>4. SumOf(g, 1..3) = g[3] + SumOf(g, {1, 2})
    <2>1. (1..3) \ {3} = {1, 2} /\ 3 \in 1..3
      BY <1>1
    <2>2. SumOf(g, 1..3) = g[3] + SumOf(g, (1..3) \ {3})
      BY <1>2, <2>1, SumRemove
    <2>3. QED
      BY <2>1, <2>2
  <1>5. SumOf(g, {1, 2}) = g[2] + SumOf(g, {1})
    <2>1. {1, 2} \ {2} = {1} /\ 2 \in {1, 2}
      OBVIOUS
    <2>2. SumOf(g, {1, 2}) = g[2] + SumOf(g, {1, 2} \ {2})
      BY <1>3, <2>1, SumRemove
    <2>3. QED
      BY <2>1, <2>2
  <1>6. SumOf(g, {1}) = g[1]
    BY SumOfOne
  <1>7. QED
    BY <1>2, <1>4, <1>5, <1>6

\* A set of numbers of shares has one member for each of the three it holds.
LEMMA CountOfThree ==
  ASSUME NEW A \in SUBSET (1..3)
  PROVE  Cardinality(A) = (IF 1 \in A THEN 1 ELSE 0) + (IF 2 \in A THEN 1 ELSE 0) + (IF 3 \in A THEN 1 ELSE 0)
  <1> DEFINE B(k) == A \cap {k}
             D == B(1) \cup B(2)
  <1>1. \A k \in 1..3 : Cardinality(B(k)) = (IF k \in A THEN 1 ELSE 0) /\ IsFiniteSet(B(k))
    <2>1. ASSUME NEW k \in 1..3 PROVE Cardinality(B(k)) = (IF k \in A THEN 1 ELSE 0) /\ IsFiniteSet(B(k))
      <3>1. CASE k \in A
        <4>1. B(k) = {k}
          BY <3>1
        <4>2. QED
          BY <3>1, <4>1, FS_Singleton
      <3>2. CASE k \notin A
        <4>1. B(k) = {}
          BY <3>2
        <4>2. QED
          BY <3>2, <4>1, FS_EmptySet
      <3>3. QED
        BY <3>1, <3>2
    <2>2. QED
      BY <2>1
  <1>2. B(1) \cap B(2) = {} /\ D \cap B(3) = {} /\ D \cup B(3) = A /\ Cardinality({}) = 0
    <2>1. B(1) \cap B(2) = {} /\ D \cap B(3) = {}
      OBVIOUS
    <2>2. \A x \in A : x = 1 \/ x = 2 \/ x = 3
      OBVIOUS
    <2>3. A \subseteq D \cup B(3)
      BY <2>2
    <2>4. D \cup B(3) \subseteq A
      OBVIOUS
    <2>5. QED
      BY <2>1, <2>3, <2>4, FS_EmptySet
  <1> HIDE DEF B
  <1>3. IsFiniteSet(D) /\ Cardinality(D) = Cardinality(B(1)) + Cardinality(B(2)) - Cardinality({})
    <2>1. IsFiniteSet(B(1)) /\ IsFiniteSet(B(2))
      BY <1>1
    <2>2. /\ IsFiniteSet(B(1) \cup B(2))
          /\ Cardinality(B(1) \cup B(2)) = Cardinality(B(1)) + Cardinality(B(2)) - Cardinality(B(1) \cap B(2))
      BY <2>1, FS_Union
    <2>3. QED
      BY <1>2, <2>2
  <1> HIDE DEF D
  <1>4. Cardinality(A) = Cardinality(D) + Cardinality(B(3)) - Cardinality({})
    <2>1. IsFiniteSet(B(3))
      BY <1>1
    <2>2. Cardinality(D \cup B(3)) = Cardinality(D) + Cardinality(B(3)) - Cardinality(D \cap B(3))
      BY <1>3, <2>1, FS_Union
    <2>3. QED
      BY <1>2, <2>2
  <1>5. /\ Cardinality(B(1)) = (IF 1 \in A THEN 1 ELSE 0)
        /\ Cardinality(B(2)) = (IF 2 \in A THEN 1 ELSE 0)
        /\ Cardinality(B(3)) = (IF 3 \in A THEN 1 ELSE 0)
    BY <1>1
  <1>6. QED
    BY <1>2, <1>3, <1>4, <1>5

\* Whole parts and remainders of three numbers that make a hundred times t: fewer than three wholes are missing.
LEMMA Remainders ==
  ASSUME NEW t \in Nat \ {0}, NEW x \in Nat, NEW y \in Nat, NEW z \in Nat, x + y + z = 100 * t
  PROVE  /\ 100 - ((x \div t) + (y \div t) + (z \div t)) \in 0..2
         /\ x \div t \in Int /\ y \div t \in Int /\ z \div t \in Int
         /\ x % t \in Nat /\ y % t \in Nat /\ z % t \in Nat
  <1> DEFINE left == 100 - ((x \div t) + (y \div t) + (z \div t))
  <1>1. /\ x \div t \in Int /\ y \div t \in Int /\ z \div t \in Int
        /\ x % t \in Nat /\ y % t \in Nat /\ z % t \in Nat
        /\ x % t < t /\ y % t < t /\ z % t < t
    OBVIOUS
  <1>2. t * left = (x % t) + (y % t) + (z % t)
    OBVIOUS
  <1>3. left \in Int /\ 0 <= t * left /\ t * left < t * 3
    BY <1>1, <1>2
  <1>4. 0 <= left
    BY <1>3
  <1>5. left < 3
    BY <1>3
  <1>6. QED
    BY <1>1, <1>3, <1>4, <1>5

\* The shares of a total that its parts make are whole percents that make a hundred.
LEMMA SharesMakeHundred ==
  ASSUME NEW c, c.cancelled \in Nat, c.completed \in Nat, c.incomplete \in Nat,
         c.cancelled + c.completed + c.incomplete = c.total, c.total > 0
  PROVE  SumOf(Shares(c), 1..3) = 100
  <1> DEFINE t == c.total
             n == <<c.cancelled, c.completed, c.incomplete>>
             q == [i \in 1..3 |-> (100 * n[i]) \div t]
             m == [i \in 1..3 |-> (100 * n[i]) % t]
             before(i, j) == m[i] > m[j] \/ (m[i] = m[j] /\ i < j)
             ahead(i) == {j \in 1..3 : before(j, i)}
             left == 100 - SumOf(q, 1..3)
             s == [i \in 1..3 |-> q[i] + IF Cardinality(ahead(i)) < left THEN 1 ELSE 0]
  <1>1. t \in Nat \ {0} /\ n[1] \in Nat /\ n[2] \in Nat /\ n[3] \in Nat /\ n[1] + n[2] + n[3] = t
    OBVIOUS
  <1>2. /\ Fields[1] = "cancelled" /\ Fields[2] = "completed" /\ Fields[3] = "incomplete"
        /\ \A i \in 1..3 : c[Fields[i]] = n[i]
    BY DEF Fields
  <1>3. MapThenSumSet(LAMBDA i : (100 * c[Fields[i]]) \div t, 1..3) = SumOf(q, 1..3)
    <2> DEFINE part(i) == (100 * c[Fields[i]]) \div t
               P(h) == h = [a \in SUBSET (1..3) |-> IF a = {} THEN 0 ELSE part(OneOf(a)) + h[a \ {OneOf(a)}]]
    <2>1. MapThenSumSet(LAMBDA i : (100 * c[Fields[i]]) \div t, 1..3) = (CHOOSE h : P(h))[1..3]
      BY DEF MapThenSumSet, MapThenFoldSet, OneOf
    <2>2. \A i \in 1..3 : part(i) = q[i]
      BY <1>2
    <2> HIDE DEF part, q
    <2>3. \A h : P(h) <=> Adds(h, q, 1..3)
      <3>1. \A a \in SUBSET (1..3) : a # {} => q[OneOf(a)] = part(OneOf(a))
        BY <2>2, SomeIn
      <3>2. QED
        BY <3>1 DEF Adds
    <2>4. (CHOOSE h : P(h)) = (CHOOSE h : Adds(h, q, 1..3))
      BY <2>3
    <2>5. QED
      BY <2>1, <2>4, SumIs
  <1>4. Shares(c) = s
    <2>1. \A i \in 1..3, j \in 1..3 :
            before(j, i) <=> \/ (100 * c[Fields[j]]) % t > (100 * c[Fields[i]]) % t
                             \/ (100 * c[Fields[j]]) % t = (100 * c[Fields[i]]) % t /\ j < i
      BY <1>2
    <2>2. \A i \in 1..3 : ahead(i) = {j \in 1..3 : \/ (100 * c[Fields[j]]) % t > (100 * c[Fields[i]]) % t
                                                   \/ (100 * c[Fields[j]]) % t = (100 * c[Fields[i]]) % t /\ j < i}
      BY <2>1
    <2>3. \A i \in 1..3 : (100 * c[Fields[i]]) \div t = q[i]
      BY <1>2
    <2>4. Shares(c) = [i \in 1..3 |-> IF t = 0 THEN 0 ELSE (100 * c[Fields[i]]) \div t
             + IF Cardinality({j \in 1..3 : \/ (100 * c[Fields[j]]) % t > (100 * c[Fields[i]]) % t
                                            \/ (100 * c[Fields[j]]) % t = (100 * c[Fields[i]]) % t /\ j < i})
                  < 100 - MapThenSumSet(LAMBDA k : (100 * c[Fields[k]]) \div t, 1..3) THEN 1 ELSE 0]
      BY DEF Shares
    <2> HIDE DEF ahead, q
    <2>5. QED
      BY <1>1, <1>3, <2>2, <2>3, <2>4
  <1>5. \A i \in 1..3 : q[i] = (100 * n[i]) \div t /\ m[i] = (100 * n[i]) % t
    OBVIOUS
  <1>6. /\ 100 * n[1] \in Nat /\ 100 * n[2] \in Nat /\ 100 * n[3] \in Nat
        /\ 100 * n[1] + 100 * n[2] + 100 * n[3] = 100 * t
    BY <1>1
  <1>7. /\ q[1] \in Int /\ q[2] \in Int /\ q[3] \in Int /\ m[1] \in Nat /\ m[2] \in Nat /\ m[3] \in Nat
        /\ 100 - (q[1] + q[2] + q[3]) \in 0..2
    <2> DEFINE x == 100 * n[1]
               y == 100 * n[2]
               z == 100 * n[3]
    <2>1. /\ q[1] = x \div t /\ q[2] = y \div t /\ q[3] = z \div t
          /\ m[1] = x % t /\ m[2] = y % t /\ m[3] = z % t
      BY <1>5
    <2>2. x \in Nat /\ y \in Nat /\ z \in Nat /\ x + y + z = 100 * t
      BY <1>6
    <2> HIDE DEF x, y, z, q, m
    <2>3. /\ 100 - ((x \div t) + (y \div t) + (z \div t)) \in 0..2
          /\ x \div t \in Int /\ y \div t \in Int /\ z \div t \in Int
          /\ x % t \in Nat /\ y % t \in Nat /\ z % t \in Nat
      BY <1>1, <2>2, Remainders
    <2>4. QED
      BY <2>1, <2>3
  <1> HIDE DEF n, t, q, m
  <1>8. SumOf(q, 1..3) = q[1] + q[2] + q[3]
    <2>1. \A i \in 1..3 : q[i] \in Int
      BY <1>7
    <2>2. QED
      BY <2>1, SumOfThree
  <1>9. left \in 0..2
    BY <1>7, <1>8
  <1>10. \A i \in 1..3 : Cardinality(ahead(i)) = (IF before(1, i) THEN 1 ELSE 0) + (IF before(2, i) THEN 1 ELSE 0)
                                                + (IF before(3, i) THEN 1 ELSE 0)
    <2>1. ASSUME NEW i \in 1..3
          PROVE  Cardinality(ahead(i)) = (IF before(1, i) THEN 1 ELSE 0) + (IF before(2, i) THEN 1 ELSE 0)
                                         + (IF before(3, i) THEN 1 ELSE 0)
      <3>1. ahead(i) \in SUBSET (1..3)
        OBVIOUS
      <3>2. /\ 1 \in ahead(i) <=> before(1, i)
            /\ 2 \in ahead(i) <=> before(2, i)
            /\ 3 \in ahead(i) <=> before(3, i)
        OBVIOUS
      <3> HIDE DEF ahead, before
      <3>3. QED
        BY <3>1, <3>2, CountOfThree
    <2>2. QED
      BY <2>1
  <1>11. /\ Cardinality(ahead(1)) = (IF before(2, 1) THEN 1 ELSE 0) + (IF before(3, 1) THEN 1 ELSE 0)
         /\ Cardinality(ahead(2)) = (IF before(1, 2) THEN 1 ELSE 0) + (IF before(3, 2) THEN 1 ELSE 0)
         /\ Cardinality(ahead(3)) = (IF before(1, 3) THEN 1 ELSE 0) + (IF before(2, 3) THEN 1 ELSE 0)
    BY <1>7, <1>10
  <1>12. \A i \in 1..3 : s[i] = q[i] + IF Cardinality(ahead(i)) < left THEN 1 ELSE 0
    OBVIOUS
  <1> HIDE DEF ahead, left, s
  <1>13. s[1] + s[2] + s[3] = q[1] + q[2] + q[3] + left /\ s[1] \in Int /\ s[2] \in Int /\ s[3] \in Int
    <2>1. /\ s[1] = q[1] + IF Cardinality(ahead(1)) < left THEN 1 ELSE 0
          /\ s[2] = q[2] + IF Cardinality(ahead(2)) < left THEN 1 ELSE 0
          /\ s[3] = q[3] + IF Cardinality(ahead(3)) < left THEN 1 ELSE 0
      BY <1>12
    <2>2. /\ Cardinality(ahead(1)) = (IF m[2] > m[1] THEN 1 ELSE 0) + (IF m[3] > m[1] THEN 1 ELSE 0)
          /\ Cardinality(ahead(2)) = (IF m[1] >= m[2] THEN 1 ELSE 0) + (IF m[3] > m[2] THEN 1 ELSE 0)
          /\ Cardinality(ahead(3)) = (IF m[1] >= m[3] THEN 1 ELSE 0) + (IF m[2] >= m[3] THEN 1 ELSE 0)
      BY <1>7, <1>11
    <2>3. s[1] \in Int /\ s[2] \in Int /\ s[3] \in Int
      BY <1>7, <2>1
    <2>4. CASE left = 0
      BY <1>7, <2>1, <2>2, <2>3, <2>4
    <2>5. CASE left = 1
      BY <1>7, <2>1, <2>2, <2>3, <2>5
    <2>6. CASE left = 2
      BY <1>7, <2>1, <2>2, <2>3, <2>6
    <2>7. left = 0 \/ left = 1 \/ left = 2
      BY <1>9
    <2>8. QED
      BY <2>3, <2>4, <2>5, <2>6, <2>7
  <1>14. SumOf(s, 1..3) = s[1] + s[2] + s[3]
    <2>1. \A i \in 1..3 : s[i] \in Int
      BY <1>13
    <2>2. QED
      BY <2>1, SumOfThree
  <1>15. q[1] + q[2] + q[3] + left = 100
    BY <1>7, <1>8 DEF left
  <1>16. SumOf(Shares(c), 1..3) = SumOf(s, 1..3)
    BY <1>4
  <1>17. QED
    BY <1>13, <1>14, <1>15, <1>16

-----------------------------------------------------------------------------
(* How often and since when clients came.                                  *)

\* A finite set in three parts, or two, has as many members as its parts.
InParts(S, A, B, C) ==
  IsFiniteSet(S) /\ S = A \cup B \cup C /\ A \cap B = {} /\ A \cap C = {} /\ B \cap C = {}

\* The count of a set is the count of its three parts.
LEMMA PartsCount ==
  ASSUME NEW S, NEW A, NEW B, NEW C, InParts(S, A, B, C)
  PROVE  /\ Cardinality(S) = Cardinality(A) + Cardinality(B) + Cardinality(C)
         /\ Cardinality(A) \in Nat /\ Cardinality(B) \in Nat /\ Cardinality(C) \in Nat
         /\ IsFiniteSet(A) /\ IsFiniteSet(B) /\ IsFiniteSet(C)
  <1> DEFINE D == A \cup B
  <1>1. /\ A \subseteq S /\ B \subseteq S /\ C \subseteq S
        /\ D \cup C = S /\ D \cap C = {} /\ A \cap B = {} /\ IsFiniteSet(S)
    BY DEF InParts
  <1>2. IsFiniteSet(A) /\ IsFiniteSet(B) /\ IsFiniteSet(C)
    BY <1>1, FS_Subset
  <1>3. IsFiniteSet(A \cup B) /\ Cardinality(A \cup B) = Cardinality(A) + Cardinality(B) - Cardinality(A \cap B)
    BY <1>2, FS_Union
  <1>4. IsFiniteSet(D) /\ Cardinality(D) = Cardinality(A) + Cardinality(B) - Cardinality({})
    BY <1>1, <1>3
  <1> HIDE DEF D
  <1>5. Cardinality(D \cup C) = Cardinality(D) + Cardinality(C) - Cardinality(D \cap C)
    BY <1>2, <1>4, FS_Union
  <1>6. Cardinality(S) = Cardinality(D) + Cardinality(C) - Cardinality({})
    BY <1>1, <1>5
  <1>7. Cardinality(A) \in Nat /\ Cardinality(B) \in Nat /\ Cardinality(C) \in Nat
    BY <1>2, FS_CardinalityType
  <1>8. QED
    BY <1>2, <1>4, <1>6, <1>7, FS_EmptySet

\* The count of a set is the count of its two halves.
LEMMA HalvesCount ==
  ASSUME NEW S, NEW A, NEW B, InParts(S, A, B, {})
  PROVE  /\ Cardinality(S) = Cardinality(A) + Cardinality(B)
         /\ Cardinality(A) \in Nat /\ Cardinality(B) \in Nat
  <1>1. IsFiniteSet({}) /\ Cardinality({}) = 0
    BY FS_EmptySet
  <1>2. /\ Cardinality(S) = Cardinality(A) + Cardinality(B) + Cardinality({})
        /\ Cardinality(A) \in Nat /\ Cardinality(B) \in Nat
    BY PartsCount
  <1>3. QED
    BY <1>1, <1>2

\* The clients of the period, by the number of their visits and by the day of the first.
Here(r) == Clients(CompletedVisits(r))
Past(r) == {v \in History(r) : v.day <= r.to}
Came(r, c) == Cardinality(VisitsOf(Past(r), c))

\* Clients, their visits and all visits before are finitely many, and who is here came in the period.
LEMMA HereIs ==
  ASSUME RowsInv, HistoryInv, NEW r, r.from \in Int, r.to \in Int
  PROVE  /\ IsFiniteSet(Here(r)) /\ IsFiniteSet(CompletedVisits(r)) /\ IsFiniteSet(Past(r))
         /\ \A c : Came(r, c) \in Nat /\ IsFiniteSet(VisitsOf(Past(r), c))
         /\ CompletedVisits(r) \subseteq Past(r)
         /\ \A c \in Here(r) : \E v \in VisitsOf(Past(r), c) : v.day >= r.from /\ v \in CompletedVisits(r)
  <1>1. /\ IsFiniteSet(CompletedVisits(r)) /\ IsFiniteSet(Past(r))
        /\ CompletedVisits(r) \subseteq visits /\ \A v \in visits : v.day \in Int
    <2>1. CompletedVisits(r) \subseteq visits /\ Past(r) \subseteq visits
      BY DEF CompletedVisits, History, Past
    <2>2. \A v \in visits : v.day \in Int
      <3>1. \A v \in visits : v.day \in Days
        BY DEF HistoryInv
      <3>2. \A d \in Days : d \in Int
        BY DaysFinite
      <3>3. QED
        BY <3>1, <3>2
    <2>3. QED
      BY <2>1, <2>2, FS_Subset DEF RowsInv
  <1>2. IsFiniteSet(Here(r))
    <2> DEFINE S == CompletedVisits(r)
               T == {v.client : v \in S}
    <2>1. IsFiniteSet(T)
      <3> HIDE DEF S
      <3> DEFINE f == [v \in S |-> v.client]
      <3>1. IsFiniteSet(S)
        BY <1>1 DEF S
      <3>2. IsFiniteSet({f[v] : v \in S})
        <4> HIDE DEF f
        <4>1. QED
          BY <3>1, ImageFinite
      <3>3. {f[v] : v \in S} = {v.client : v \in S}
        OBVIOUS
      <3>4. QED
        BY <3>2, <3>3
    <2>2. Here(r) \subseteq T
      BY DEF Here, Clients
    <2>3. QED
      BY <2>1, <2>2, FS_Subset
  <1>3. \A c : Came(r, c) \in Nat /\ IsFiniteSet(VisitsOf(Past(r), c))
    <2>1. \A c : VisitsOf(Past(r), c) \subseteq Past(r)
      BY DEF VisitsOf
    <2>2. \A c : IsFiniteSet(VisitsOf(Past(r), c))
      BY <1>1, <2>1, FS_Subset
    <2>3. QED
      BY <2>2, FS_CardinalityType DEF Came
  <1>4. CompletedVisits(r) \subseteq Past(r)
    BY DEF CompletedVisits, Past, Within
  <1>5. ASSUME NEW c \in Here(r)
        PROVE  \E v \in VisitsOf(Past(r), c) : v.day >= r.from /\ v \in CompletedVisits(r)
    <2>1. PICK v \in CompletedVisits(r) : v.client = c
      BY DEF Here, Clients
    <2>2. v.day >= r.from
      BY <1>1 DEF CompletedVisits, Within
    <2>3. QED
      BY <1>4, <2>1, <2>2 DEF VisitsOf
  <1>6. QED
    BY <1>1, <1>2, <1>3, <1>4, <1>5

\* The buckets of the frequency and the halves of the recency make the clients of the check, and who
\* came before the period came more than once.
LEMMA ClientsAddUp ==
  ASSUME RowsInv, HistoryInv, NEW r, r.from \in Int, r.to \in Int
  PROVE  /\ VisitFrequency(r).total = AverageCheck(r).clients /\ ClientRecency(r).total = AverageCheck(r).clients
         /\ VisitFrequency(r).one + VisitFrequency(r).few + VisitFrequency(r).many = AverageCheck(r).clients
         /\ ClientRecency(r).new + ClientRecency(r).repeat = AverageCheck(r).clients
         /\ ClientRecency(r).repeat <= VisitFrequency(r).few + VisitFrequency(r).many
         /\ VisitFrequency(r).one = Cardinality({c \in Here(r) : Came(r, c) <= OneVisit})
         /\ VisitFrequency(r).few = Cardinality({c \in Here(r) : OneVisit < Came(r, c) /\ Came(r, c) <= FewVisits})
         /\ VisitFrequency(r).many = Cardinality({c \in Here(r) : Came(r, c) > FewVisits})
  <1> DEFINE H == Here(r)
             one == {c \in H : Came(r, c) <= OneVisit}
             few == {c \in H : OneVisit < Came(r, c) /\ Came(r, c) <= FewVisits}
             many == {c \in H : Came(r, c) > FewVisits}
             first(c) == FirstVisit(History(r), c)
             new == {c \in H : first(c) >= r.from}
             again == {c \in H : first(c) < r.from}
  <1>1. /\ VisitFrequency(r).total = Cardinality(H) /\ VisitFrequency(r).one = Cardinality(one)
        /\ VisitFrequency(r).few = Cardinality(few) /\ VisitFrequency(r).many = Cardinality(many)
        /\ ClientRecency(r).total = Cardinality(H) /\ ClientRecency(r).new = Cardinality(new)
        /\ ClientRecency(r).repeat = Cardinality(again) /\ AverageCheck(r).clients = Cardinality(H)
    BY DEF VisitFrequency, ClientRecency, AverageCheck, Check, Here, Came, Past
  <1>2. IsFiniteSet(H) /\ \A c : Came(r, c) \in Nat
    BY HereIs
  <1>3. Cardinality(H) = Cardinality(one) + Cardinality(few) + Cardinality(many) /\ Cardinality(few) \in Nat
        /\ Cardinality(many) \in Nat /\ IsFiniteSet(few) /\ IsFiniteSet(many)
    <2>1. InParts(H, one, few, many)
      BY <1>2, BucketsAssumption DEF InParts
    <2> HIDE DEF H, one, few, many
    <2>2. QED
      BY <2>1, PartsCount
  <1>4. ASSUME NEW c \in H
        PROVE  first(c) \in Int /\ (first(c) < r.from => Came(r, c) > 1)
    <2> DEFINE mine == VisitsOf(History(r), c)
               days == {v.day : v \in mine}
    <2>1. PICK v \in VisitsOf(Past(r), c) : v.day >= r.from /\ v \in CompletedVisits(r)
      BY HereIs
    <2>2. v \in mine /\ mine \subseteq visits
      BY <2>1 DEF VisitsOf, Past, History
    <2>3. days # {} /\ days \subseteq Days
      BY <2>2 DEF HistoryInv
    <2>4. IsFiniteSet(days) /\ days \subseteq Nat
      BY <2>3, DaysFinite, FS_Subset
    <2>5. Min(days) \in days /\ \A d \in days : Min(days) <= d
      <3> HIDE DEF days
      <3>1. QED
        BY <2>3, <2>4, EndsOf
    <2>6. first(c) = Min(days)
      BY DEF FirstVisit
    <2>7. ASSUME first(c) < r.from PROVE Came(r, c) > 1
      <3>1. PICK u \in mine : u.day = first(c)
        BY <2>5, <2>6
      <3>2. u.day < r.from /\ u.day \in Int /\ v.day \in Int /\ u.day # v.day
        BY <2>1, <2>2, <2>4, <2>7, <3>1
      <3>3. v.day <= r.to /\ u.day <= v.day
        <4>1. u.day <= v.day
          BY <2>2, <2>5, <2>6, <3>1
        <4>2. v.day <= r.to
          BY <2>1 DEF VisitsOf, Past
        <4>3. QED
          BY <4>1, <4>2
      <3>4. u \in VisitsOf(Past(r), c) /\ u # v
        <4>1. u \in VisitsOf(Past(r), c)
          <5>1. u.day <= r.to
            BY <3>2, <3>3
          <5>2. u \in History(r) /\ u.client = c
            BY <3>1 DEF VisitsOf
          <5>3. QED
            BY <5>1, <5>2 DEF VisitsOf, Past
        <4>2. QED
          BY <3>2, <4>1
      <3>5. {u, v} \subseteq VisitsOf(Past(r), c) /\ IsFiniteSet(VisitsOf(Past(r), c))
        BY <2>1, <3>4, HereIs
      <3>6. Cardinality({u, v}) <= Came(r, c)
        BY <3>5, FS_Subset DEF Came
      <3>7. Cardinality({u, v}) = 2
        <4>1. IsFiniteSet({v}) /\ Cardinality({v}) = 1
          BY FS_Singleton
        <4>2. Cardinality({v} \cup {u}) = 2
          <5>1. u \notin {v}
            BY <3>4
          <5> DEFINE only == {v}
          <5>2. IsFiniteSet(only) /\ u \notin only /\ Cardinality(only) = 1
            BY <4>1, <5>1
          <5> HIDE DEF only
          <5>3. Cardinality(only \cup {u}) = Cardinality(only) + 1
            BY <5>2, FS_AddElement
          <5>4. QED
            BY <5>2, <5>3 DEF only
        <4>3. {v} \cup {u} = {u, v}
          OBVIOUS
        <4>4. QED
          BY <4>2, <4>3
      <3>8. QED
        BY <1>2, <3>6, <3>7
    <2>8. QED
      BY <2>4, <2>5, <2>6, <2>7
  <1>5. Cardinality(H) = Cardinality(new) + Cardinality(again)
    <2>1. InParts(H, new, again, {})
      <3> HIDE DEF first
      <3>1. QED
        BY <1>2, <1>4 DEF InParts
    <2> HIDE DEF H, new, again
    <2>2. QED
      BY <2>1, HalvesCount
  <1>6. Cardinality(again) <= Cardinality(few) + Cardinality(many)
    <2>1. again \subseteq few \cup many
      <3> HIDE DEF first
      <3>1. QED
        BY <1>2, <1>4, BucketsAssumption
    <2>2. few \cap many = {}
      BY <1>2, BucketsAssumption
    <2> HIDE DEF H, few, many, again
    <2>3. /\ IsFiniteSet(few \cup many)
          /\ Cardinality(few \cup many) = Cardinality(few) + Cardinality(many) - Cardinality(few \cap many)
      BY <1>3, FS_Union
    <2>4. Cardinality(again) <= Cardinality(few \cup many)
      BY <2>1, <2>3, FS_Subset
    <2>5. Cardinality(few \cup many) = Cardinality(few) + Cardinality(many)
      <3>1. Cardinality(few \cap many) = 0
        BY <2>2, FS_EmptySet
      <3>2. Cardinality(few) \in Nat /\ Cardinality(many) \in Nat
        BY <1>3
      <3>3. QED
        BY <2>3, <3>1, <3>2
    <2>6. QED
      BY <2>4, <2>5
  <1> HIDE DEF H, one, few, many, new, again
  <1>7. /\ one = {c \in Here(r) : Came(r, c) <= OneVisit}
        /\ few = {c \in Here(r) : OneVisit < Came(r, c) /\ Came(r, c) <= FewVisits}
        /\ many = {c \in Here(r) : Came(r, c) > FewVisits}
    BY DEF H, one, few, many
  <1>8. QED
    BY <1>1, <1>3, <1>5, <1>6, <1>7

-----------------------------------------------------------------------------
(* The pages of one question.                                              *)

\* What the pages of one question hold.
PageOf(page, q, r) ==
  /\ page.everybody = Everybody(q)
  /\ page.summary.current.check = AverageCheck(r) /\ page.summary.current.block = RevenueBlock(r)
  /\ page.summary.previous.check = AverageCheck(At(r, PreviousPeriod(q, "month")))
  /\ page.summary.frequency = VisitFrequency(r) /\ page.summary.recency = ClientRecency(r)
  /\ page.summary.appointments = AppointmentsBreakdown(r, <<>>)
  /\ page.mix = ClientMix(q, "month") /\ page.daily = Daily(q) /\ page.years = YearFacts(r)
  /\ page.first = Cardinality(FirstVisits(r))
  /\ page.services = TopServices(q, FALSE, FALSE) /\ page.masters = TopServices(q, TRUE, FALSE)
  /\ page.extra = ExtraRevenueByStaff(r)
  /\ page.nobodys = PairAmount({x \in ExtraPaid(PaidServices(r)) : x[3].staff = Null})
  /\ page.groups = GroupCounts(r) /\ page.goods = PaidGoodsRows(r)
  /\ page.accounts = RevenueByAccount(r) /\ page.cosmetics = CosmoQty(r)

\* The pages of a question do hold it.
LEMMA PageIs ==
  ASSUME NEW q, NEW r, NEW page, page = Pages(q, r), r = Resolved(q)
  PROVE  PageOf(page, q, r)
  <1>1. /\ page.everybody = Everybody(q) /\ page.summary = Summary(q, "month", <<>>)
        /\ page.mix = ClientMix(q, "month") /\ page.daily = Daily(q) /\ page.years = YearFacts(r)
        /\ page.first = Cardinality(FirstVisits(r))
        /\ page.services = TopServices(q, FALSE, FALSE) /\ page.masters = TopServices(q, TRUE, FALSE)
        /\ page.extra = ExtraRevenueByStaff(r)
        /\ page.nobodys = PairAmount({x \in ExtraPaid(PaidServices(r)) : x[3].staff = Null})
        /\ page.groups = GroupCounts(r) /\ page.goods = PaidGoodsRows(r)
        /\ page.accounts = RevenueByAccount(r) /\ page.cosmetics = CosmoQty(r)
    BY DEF Pages
  <1>2. Summary(q, "month", <<>>) = Compared(PeriodSummary(r), PeriodSummary(At(r, PreviousPeriod(q, "month"))),
               VisitFrequency(r), ClientRecency(r), AppointmentsBreakdown(r, <<>>))
    BY DEF Summary
  <1>3. /\ page.summary.current = PeriodSummary(r)
        /\ page.summary.previous = PeriodSummary(At(r, PreviousPeriod(q, "month")))
        /\ page.summary.frequency = VisitFrequency(r) /\ page.summary.recency = ClientRecency(r)
        /\ page.summary.appointments = AppointmentsBreakdown(r, <<>>)
    BY <1>1, <1>2 DEF Compared
  <1>4. \A x : PeriodSummary(x).check = AverageCheck(x) /\ PeriodSummary(x).block = RevenueBlock(x)
    BY DEF PeriodSummary, Cards
  <1>5. QED
    BY <1>1, <1>3, <1>4 DEF PageOf

\* The pages of a question tell one story.
LEMMA PageAgrees ==
  ASSUME RowsInv, HistoryInv, TypedInv, AnswersInv, NEW q \in Questions, NEW r, r = Resolved(q),
         NEW page, page = Pages(q, r)
  PROVE  OneStory(page)
  <1> DEFINE check == page.summary.current.check
             block == page.summary.current.block
             frequency == page.summary.frequency
             recency == page.summary.recency
             cards == page.summary.appointments
  <1>1. q \in AQuestion /\ r.from \in Int /\ r.to \in Int
    <2>1. q \in AQuestion
      BY ScopeIs
    <2>2. QED
      BY <2>1, ResolvedIs DEF AQuestion
  <1>2. /\ page.everybody = Everybody(q) /\ check = AverageCheck(r) /\ block = RevenueBlock(r)
        /\ page.summary.previous.check = AverageCheck(At(r, PreviousPeriod(q, "month")))
        /\ frequency = VisitFrequency(r) /\ recency = ClientRecency(r) /\ cards = AppointmentsBreakdown(r, <<>>)
        /\ page.mix = ClientMix(q, "month") /\ page.daily = Daily(q) /\ page.years = YearFacts(r)
        /\ page.first = Cardinality(FirstVisits(r))
        /\ page.services = TopServices(q, FALSE, FALSE) /\ page.masters = TopServices(q, TRUE, FALSE)
        /\ page.extra = ExtraRevenueByStaff(r)
        /\ page.nobodys = PairAmount({x \in ExtraPaid(PaidServices(r)) : x[3].staff = Null})
        /\ page.groups = GroupCounts(r) /\ page.goods = PaidGoodsRows(r)
        /\ page.accounts = RevenueByAccount(r) /\ page.cosmetics = CosmoQty(r)
    <2>1. PageOf(page, q, r)
      BY PageIs
    <2>2. QED
      BY <2>1 DEF PageOf
  <1>3. /\ check.service = PairAmount(PaidServices(r)) /\ check.goods = Amount(GoodsPayments(r))
        /\ check.topup = Amount(TopUpPayments(r)) /\ check.appointments = Cardinality(CompletedVisits(r))
    BY <1>2, CheckIs
  <1> HIDE DEF check, block, frequency, recency, cards
  <1>4. /\ check.service = Total(LAMBDA d : d.service, page.daily)
        /\ check.goods = Total(LAMBDA d : d.goods, page.daily)
        /\ check.appointments = Total(LAMBDA d : d.appointments, page.daily)
    <2>1. /\ FieldTotal("service", Daily(q)) = PairAmount(PaidServices(r))
          /\ FieldTotal("goods", Daily(q)) = Amount(GoodsPayments(r))
          /\ FieldTotal("appointments", Daily(q)) = Cardinality(CompletedVisits(r))
      BY <1>1, DailyAddsUp
    <2>2. /\ FieldTotal("service", page.daily) = check.service
          /\ FieldTotal("goods", page.daily) = check.goods
          /\ FieldTotal("appointments", page.daily) = check.appointments
      BY <1>2, <1>3, <2>1
    <2>3. QED
      BY <2>2 DEF FieldTotal
  <1>5. /\ check.service = Total(LAMBDA y : y.service, page.years)
        /\ check.topup = Total(LAMBDA y : y.topup, page.years)
        /\ check.appointments = Total(LAMBDA y : y.appointments, page.years)
        /\ page.first = Total(LAMBDA y : y.first, page.years)
    <2>1. /\ FieldTotal("service", page.years) = check.service
          /\ FieldTotal("topup", page.years) = check.topup
          /\ FieldTotal("appointments", page.years) = check.appointments
          /\ FieldTotal("first", page.years) = page.first
      BY <1>2, <1>3, YearsAddUp
    <2>2. QED
      BY <2>1 DEF FieldTotal
  <1>6. /\ check.service = Total(LAMBDA s : s.revenue, page.services)
        /\ check.service = Total(LAMBDA s : s.revenue, page.masters)
        /\ block.services = Total(LAMBDA s : s.sold, page.services)
    <2>1. /\ FieldTotal("revenue", TopServices(q, FALSE, FALSE)) = PairAmount(PaidServices(r))
          /\ FieldTotal("revenue", TopServices(q, TRUE, FALSE)) = PairAmount(PaidServices(r))
          /\ FieldTotal("sold", TopServices(q, FALSE, FALSE)) = Qty(CompletedVisits(r), Services)
      BY ServicesAddUp
    <2>2. block.services = Qty(CompletedVisits(r), Services)
      <3>1. RevenueBlock(r).services = Qty(CompletedVisits(r), Services)
        BY DEF RevenueBlock
      <3>2. QED
        BY <1>2, <3>1
    <2>3. /\ FieldTotal("revenue", page.services) = check.service
          /\ FieldTotal("revenue", page.masters) = check.service
          /\ FieldTotal("sold", page.services) = block.services
      BY <1>2, <1>3, <2>1, <2>2
    <2>4. QED
      BY <2>3 DEF FieldTotal
  <1>7. block.extraRevenue = page.nobodys + Total(LAMBDA s : page.extra[s], Staff)
    <2>1. RevenueBlock(r).extraRevenue = PairAmount(ExtraPaid(PaidServices(r)))
      BY DEF RevenueBlock
    <2>2. PairAmount(ExtraPaid(PaidServices(r)))
          = PairAmount({x \in ExtraPaid(PaidServices(r)) : x[3].staff = Null}) + SumOf(ExtraRevenueByStaff(r), Staff)
      BY ExtraAddsUp
    <2>3. block.extraRevenue = page.nobodys + SumOf(page.extra, Staff)
      BY <1>2, <2>1, <2>2
    <2>4. QED
      BY <2>3 DEF SumOf, Total
  <1>8. \A g \in DOMAIN Groups :
          page.groups[g] = Total(LAMBDA s : s.sold, {s \in page.services : s.service \in Groups[g]})
    <2>1. ASSUME NEW g \in DOMAIN Groups
          PROVE  page.groups[g] = Total(LAMBDA s : s.sold, {s \in page.services : s.service \in Groups[g]})
      <3>1. page.groups[g] = Qty(CompletedVisits(r), Groups[g])
        BY <1>2 DEF GroupCounts
      <3>2. \A A : FieldTotal("sold", {s \in TopServices(q, FALSE, FALSE) : s.service \in A})
                  = Qty(CompletedVisits(r), A)
        BY ServicesAddUp
      <3>3. FieldTotal("sold", {s \in page.services : s.service \in Groups[g]}) = page.groups[g]
        BY <1>2, <3>1, <3>2
      <3>4. QED
        BY <3>3 DEF FieldTotal
    <2>2. QED
      BY <2>1
  <1>9. check.goods = Total(LAMBDA row : row.payment.amount, page.goods)
    <2>1. GoodsTotal(page.goods) = check.goods
      BY <1>2, <1>3, GoodsAddUp
    <2>2. QED
      BY <2>1 DEF GoodsTotal
  <1>10. page.everybody => check.revenue = Total(LAMBDA k : k.amount, page.accounts)
    <2>1. Everybody(q) => AverageCheck(r).revenue = Amount(RevenueByAccount(r))
      BY <1>1, AccountsAddUp DEF Amount
    <2>2. page.everybody => check.revenue = Amount(page.accounts)
      BY <1>2, <2>1
    <2>3. QED
      BY <2>2 DEF Amount
  <1>11. page.cosmetics <= block.goods
    BY <1>2, CosmeticsAmong
  <1>12. /\ page.mix.current = [visits |-> check.appointments, clients |-> check.clients, recency |-> recency]
         /\ page.mix.previous.visits = page.summary.previous.check.appointments
    BY <1>2, MixIsSummary
  <1>13. cards.status # "unavailable" =>
           /\ cards.counts.completed = check.appointments
           /\ cards.counts.total > 0 => Total(LAMBDA i : cards.shares[i], 1..3) = 100
    <2> DEFINE c == CountsOf(Booked(r))
    <2>1. ASSUME cards.status # "unavailable"
          PROVE  cards.counts = c /\ cards.shares = Shares(c)
      BY <1>2, <2>1, CardsAre
    <2>2. /\ CompletedVisits(r) = {v \in Booked(r) : v.att = Completed}
          /\ IsFiniteSet(Booked(r))
      BY CardsAre
    <2>3. /\ c.total \in Nat /\ c.cancelled \in Nat /\ c.completed \in Nat /\ c.incomplete \in Nat
          /\ c.cancelled + c.completed + c.incomplete = c.total
          /\ c.completed = Cardinality({v \in Booked(r) : v.att = Completed})
      BY <2>2, CountsAre
    <2> HIDE DEF c
    <2>4. c.completed = check.appointments
      BY <1>3, <2>2, <2>3
    <2>5. c.total > 0 => SumOf(Shares(c), 1..3) = 100
      BY <2>3, SharesMakeHundred
    <2>6. cards.status # "unavailable" =>
            /\ cards.counts.completed = check.appointments
            /\ cards.counts.total > 0 => SumOf(cards.shares, 1..3) = 100
      BY <2>1, <2>4, <2>5
    <2>7. QED
      BY <2>6 DEF SumOf, Total
  <1>14. /\ frequency.total = check.clients /\ recency.total = check.clients
         /\ frequency.one + frequency.few + frequency.many = check.clients
         /\ recency.new + recency.repeat = check.clients
         /\ recency.repeat <= frequency.few + frequency.many
    BY <1>1, <1>2, ClientsAddUp
  <1>15. QED
    BY <1>4, <1>5, <1>6, <1>7, <1>8, <1>9, <1>10, <1>11, <1>12, <1>13, <1>14
       DEF check, block, frequency, recency, cards, OneStory

-----------------------------------------------------------------------------
(* The rows of the reports.                                                *)

\* A function that tells its arguments apart has as many values as arguments.
TellsApart(f, S) == \A x \in S, y \in S : f[x] = f[y] => x = y

\* Where a function tells all members of a set apart it has as many values as the set has members.
LEMMA AsManyValues ==
  ASSUME NEW S, IsFiniteSet(S), NEW f, TellsApart(f, S)
  PROVE  Cardinality({f[x] : x \in S}) = Cardinality(S) /\ IsFiniteSet({f[x] : x \in S})
  <1> DEFINE T == {f[x] : x \in S}
             g == [x \in S |-> f[x]]
  <1>1. g \in [S -> T] /\ DOMAIN g = S /\ \A x \in S : g[x] = f[x]
    OBVIOUS
  <1>2. \A t \in T : \E x \in S : g[x] = t
    OBVIOUS
  <1> HIDE DEF T, g
  <1>3. g \in Injection(S, T)
    BY <1>1 DEF Injection, IsInjective, TellsApart
  <1>4. g \in Surjection(S, T)
    BY <1>1, <1>2 DEF Surjection
  <1>5. ExistsBijection(S, T)
    BY <1>3, <1>4 DEF ExistsBijection, Bijection
  <1>6. Cardinality(T) = Cardinality(S) /\ IsFiniteSet(T)
    BY <1>5, FS_Bijection
  <1>7. QED
    BY <1>6 DEF T

\* The visits of a scope are finitely many, and each has a day in the period.
LEMMA BookedIs ==
  ASSUME RowsInv, HistoryInv, AnswersInv, NEW r
  PROVE  /\ Booked(r) \subseteq visits /\ IsFiniteSet(Booked(r))
         /\ \A v \in Booked(r) : /\ v.day \in Int /\ v.day \in Days /\ Within(v.day, r)
                                 /\ v.staff \in Staff \cup {Null} /\ v.at \in Nat
         /\ CompletedVisits(r) = {v \in Booked(r) : v.att = Completed}
  <1>1. Booked(r) \subseteq visits /\ IsFiniteSet(Booked(r))
    BY FS_Subset DEF Booked, RowsInv
  <1>2. \A v \in visits : v.day \in Days /\ v.at \in Nat
    BY DEF HistoryInv
  <1>3. \A d \in Days : d \in Int
    BY DaysFinite
  <1>4. \A v \in visits : v.staff \in Staff \cup {Null}
    BY VisitsAre
  <1>5. \A v \in Booked(r) : Within(v.day, r)
    BY DEF Booked
  <1>6. CompletedVisits(r) = {v \in Booked(r) : v.att = Completed}
    BY DEF CompletedVisits, History, Booked
  <1>7. QED
    BY <1>1, <1>2, <1>3, <1>4, <1>5, <1>6

\* The row of a client in the list of clients.
ClientRow(r, c) ==
  [client |-> c, visits |-> Cardinality(VisitsOf(CompletedVisits(r), c)), lifetime |-> Came(r, c),
   revenue |-> PairAmount({x \in PaidServices(r) : x[3].client = c})]
ClientKeys(r) == {v.client : v \in CompletedVisits(r)} \cup {x[3].client : x \in PaidServices(r)}

\* The list of clients adds up to the visits of the period and to what was paid for them.
LEMMA ClientRowsAddUp ==
  ASSUME RowsInv, HistoryInv, TypedInv, NEW r, NEW row, row = [c \in ClientKeys(r) |-> ClientRow(r, c)]
  PROVE  /\ ClientRows(r) = TableOf(row, ClientKeys(r)) /\ IsFiniteSet(ClientKeys(r))
         /\ TellsApart(row, ClientKeys(r))
         /\ \A c \in ClientKeys(r) : row[c].client = c /\ row[c].revenue \in Int
         /\ FieldTotal("revenue", ClientRows(r)) = PairAmount(PaidServices(r))
         /\ FieldTotal("visits", ClientRows(r)) = Cardinality(CompletedVisits(r))
  <1> DEFINE C == CompletedVisits(r)
             S == PaidServices(r)
             K == ClientKeys(r)
             kC == [v \in C |-> v.client]
             kS == [x \in S |-> x[3].client]
  <1>1. ClientRows(r) = TableOf(row, K)
    BY DEF ClientRows, ClientRow, ClientKeys, TableOf, Came, Past
  <1>2. IsFiniteSet(C) /\ IsFiniteSet(S) /\ S \in SUBSET PaidVisits
    BY RowsInPeriod
  <1>3. K = {kC[v] : v \in C} \cup {kS[x] : x \in S}
    BY DEF ClientKeys
  <1>4. \A c \in K : /\ row[c].client = c
                     /\ row[c].visits = Cardinality(VisitsOf(C, c))
                     /\ row[c].revenue = PairAmount({x \in S : x[3].client = c})
    BY DEF ClientRow
  <1>5. \A c \in K : VisitsOf(C, c) = Filed(C, kC, c) /\ {x \in S : x[3].client = c} = Filed(S, kS, c)
    BY DEF VisitsOf, Filed
  <1> HIDE DEF C, S, K, kC, kS
  <1>6. IsFiniteSet(K)
    <2>1. IsFiniteSet({kC[v] : v \in C}) /\ IsFiniteSet({kS[x] : x \in S})
      BY <1>2, ImageFinite
    <2>2. QED
      BY <1>3, <2>1, FS_Union
  <1>7. TellsApart(row, K)
    BY <1>4 DEF TellsApart
  <1>8. Files(C, kC, K, row) /\ Files(S, kS, K, row)
    BY <1>3, <1>6, <1>7 DEF Files, TellsApart
  <1>9. HoldsCounts(C, kC, K, row, "visits") /\ HoldsPairs(S, kS, K, row, "revenue")
    BY <1>2, <1>4, <1>5, <1>8 DEF HoldsCounts, HoldsPairs
  <1>10. FieldTotal("visits", TableOf(row, K)) = Cardinality(C)
    BY <1>9, CountTable
  <1>11. FieldTotal("revenue", TableOf(row, K)) = PairAmount(S) /\ \A c \in K : row[c]["revenue"] \in Int
    BY <1>9, PairTable
  <1>12. QED
    BY <1>1, <1>4, <1>6, <1>7, <1>10, <1>11 DEF K, C, S

\* The rows of the report on visit frequencies are as many as the clients of the card.
LEMMA FrequencyRowsAre ==
  ASSUME RowsInv, HistoryInv, TypedInv, AnswersInv, NEW r, r.from \in Int, r.to \in Int
  PROVE  /\ Cardinality(FrequencyRows(r).one) = VisitFrequency(r).one
         /\ Cardinality(FrequencyRows(r).few) = VisitFrequency(r).few
         /\ Cardinality(FrequencyRows(r).many) = VisitFrequency(r).many
  <1> DEFINE K == ClientKeys(r)
             row == [c \in K |-> ClientRow(r, c)]
             H == Here(r)
             rows == {x \in ClientRows(r) : x.client # Null}
  <1>1. /\ ClientRows(r) = TableOf(row, K) /\ IsFiniteSet(K) /\ TellsApart(row, K)
        /\ \A c \in K : row[c].client = c
    <2> HIDE DEF row, K
    <2>1. row = [c \in ClientKeys(r) |-> ClientRow(r, c)] /\ K = ClientKeys(r)
      BY DEF row, K
    <2>2. QED
      BY <2>1, ClientRowsAddUp
  <1>2. \A c \in K : /\ row[c].visits = Cardinality(VisitsOf(CompletedVisits(r), c))
                     /\ row[c].lifetime = Came(r, c)
    BY DEF ClientRow
  <1>3. \A c : c \in H <=> c \in K /\ c # Null /\ VisitsOf(CompletedVisits(r), c) # {}
    BY DEF Here, Clients, VisitsOf, ClientKeys
  <1>4. \A c : /\ Cardinality(VisitsOf(CompletedVisits(r), c)) \in Nat
               /\ VisitsOf(CompletedVisits(r), c) # {} <=> Cardinality(VisitsOf(CompletedVisits(r), c)) > 0
    <2>1. ASSUME NEW c
          PROVE  /\ Cardinality(VisitsOf(CompletedVisits(r), c)) \in Nat
                 /\ VisitsOf(CompletedVisits(r), c) # {} <=> Cardinality(VisitsOf(CompletedVisits(r), c)) > 0
      <3> DEFINE vs == VisitsOf(CompletedVisits(r), c)
      <3>1. IsFiniteSet(vs)
        <4>1. vs \subseteq CompletedVisits(r)
          BY DEF VisitsOf
        <4>2. IsFiniteSet(CompletedVisits(r))
          BY HereIs
        <4>3. QED
          BY <4>1, <4>2, FS_Subset
      <3> HIDE DEF vs
      <3>2. Cardinality(vs) \in Nat
        BY <3>1, FS_CardinalityType
      <3>3. Cardinality(vs) = 0 <=> vs = {}
        BY <3>1, FS_EmptySet
      <3>4. Cardinality(vs) \in Nat /\ (vs # {} <=> Cardinality(vs) > 0)
        BY <3>2, <3>3
      <3>5. QED
        BY <3>4 DEF vs
    <2>2. QED
      BY <2>1
  <1>5. \A c \in K : c # Null /\ row[c].visits > 0 <=> c \in H
    BY <1>2, <1>3, <1>4
  <1>6. IsFiniteSet(H) /\ H \subseteq K
    BY <1>3, HereIs
  <1> HIDE DEF K, row, H
  <1>7. \A x : x \in rows <=> \E c \in K : c # Null /\ x = row[c]
    BY <1>1 DEF TableOf
  <1>8. ASSUME NEW P, P \in SUBSET H
        PROVE  Cardinality({row[c] : c \in P}) = Cardinality(P)
    <2>1. IsFiniteSet(P) /\ TellsApart(row, P)
      BY <1>1, <1>6, <1>8, FS_Subset DEF TellsApart
    <2>2. QED
      BY <2>1, AsManyValues
  <1> DEFINE one == {c \in H : Came(r, c) <= OneVisit}
             few == {c \in H : OneVisit < Came(r, c) /\ Came(r, c) <= FewVisits}
             many == {c \in H : Came(r, c) > FewVisits}
  <1>9. /\ FrequencyRows(r).one = {x \in rows : x.visits > 0 /\ x.lifetime <= OneVisit}
        /\ FrequencyRows(r).few = {x \in rows : x.visits > 0 /\ OneVisit < x.lifetime /\ x.lifetime <= FewVisits}
        /\ FrequencyRows(r).many = {x \in rows : x.visits > 0 /\ x.lifetime > FewVisits}
    BY DEF FrequencyRows
  <1> HIDE DEF rows
  <1>10. FrequencyRows(r).one = {row[c] : c \in one}
    BY <1>2, <1>5, <1>6, <1>7, <1>9
  <1>11. FrequencyRows(r).few = {row[c] : c \in few}
    BY <1>2, <1>5, <1>6, <1>7, <1>9
  <1>12. FrequencyRows(r).many = {row[c] : c \in many}
    BY <1>2, <1>5, <1>6, <1>7, <1>9
  <1>13. /\ VisitFrequency(r).one = Cardinality(one) /\ VisitFrequency(r).few = Cardinality(few)
         /\ VisitFrequency(r).many = Cardinality(many)
    BY ClientsAddUp DEF H
  <1>14. one \in SUBSET H /\ few \in SUBSET H /\ many \in SUBSET H
    OBVIOUS
  <1> HIDE DEF one, few, many
  <1>15. QED
    BY <1>8, <1>10, <1>11, <1>12, <1>13, <1>14

\* The tenth of the clients who paid most, the next four tenths and the rest are all of them, each once.
LEMMA ParetoIsAll ==
  ASSUME RowsInv, HistoryInv, TypedInv, AnswersInv, NEW r, NEW rows, rows = {x \in ClientRows(r) : x.client # Null}
  PROVE  /\ UNION {Pareto(r)[i] : i \in 1..3} = rows
         /\ Cardinality(rows) = Cardinality(Pareto(r)[1]) + Cardinality(Pareto(r)[2]) + Cardinality(Pareto(r)[3])
         /\ \A i \in 1..3 : Cardinality(Pareto(r)[i]) \in Int
  <1> DEFINE n == Cardinality(rows)
             richer(a, b) == a.revenue > b.revenue \/ (a.revenue = b.revenue /\ a.client > b.client)
             place(x) == Cardinality({y \in rows : richer(y, x)}) + 1
             top == Max({1, (n + 9) \div 10})
             middle == Max({0, (n * 5 + 9) \div 10 - top})
             part(low, high) == {x \in rows : low < place(x) /\ place(x) <= high}
  <1>1. Pareto(r) = <<part(0, top), part(top, top + middle), part(top + middle, n)>>
    BY DEF Pareto
  <1>2. IsFiniteSet(rows) /\ \A x \in rows : x.revenue \in Int /\ x.client \in Int
    <2> DEFINE K == ClientKeys(r)
               row == [c \in K |-> ClientRow(r, c)]
    <2>1. /\ ClientRows(r) = {row[c] : c \in K} /\ IsFiniteSet(K) /\ TellsApart(row, K)
          /\ \A c \in K : row[c].client = c /\ row[c].revenue \in Int
      <3> HIDE DEF row, K
      <3>1. row = [c \in ClientKeys(r) |-> ClientRow(r, c)] /\ K = ClientKeys(r)
        BY DEF row, K
      <3>2. QED
        BY <3>1, ClientRowsAddUp DEF TableOf
    <2>2. \A c \in K : c \in Int
      <3>1. CompletedVisits(r) \subseteq visits /\ \A x \in PaidServices(r) : x[3] \in visits
        BY RowsInPeriod
      <3>2. \A v \in visits : v.client \in Nat
        BY VisitsAre
      <3>3. QED
        BY <3>1, <3>2 DEF ClientKeys
    <2> HIDE DEF row, K
    <2>3. IsFiniteSet(ClientRows(r))
      BY <2>1, AsManyValues
    <2>4. rows \subseteq ClientRows(r)
      OBVIOUS
    <2>5. \A x \in rows : x.revenue \in Int /\ x.client \in Int
      BY <2>1, <2>4, <2>2
    <2>6. QED
      BY <2>3, <2>4, <2>5, FS_Subset
  <1>3. n \in Nat
    BY <1>2, FS_CardinalityType
  <1>4. \A x \in rows : place(x) \in 1..n
    <2>1. ASSUME NEW x \in rows PROVE place(x) \in 1..n
      <3> DEFINE ahead == {y \in rows : richer(y, x)}
      <3>1. ahead \subseteq rows /\ x \notin ahead /\ x \in rows
        <4>1. ~richer(x, x)
          BY <1>2
        <4>2. QED
          BY <4>1
      <3>2. place(x) = Cardinality(ahead) + 1
        OBVIOUS
      <3> HIDE DEF ahead, place, richer
      <3>3. IsFiniteSet(ahead) /\ Cardinality(ahead) <= n /\ (Cardinality(ahead) = n => ahead = rows)
        BY <1>2, <3>1, FS_Subset
      <3>4. Cardinality(ahead) \in Nat
        BY <3>3, FS_CardinalityType
      <3>5. Cardinality(ahead) # n
        BY <3>1, <3>3
      <3>6. QED
        BY <1>3, <3>2, <3>3, <3>4, <3>5
    <2>2. QED
      BY <2>1
  <1>5. top \in Nat /\ middle \in Nat
    <2> DEFINE a == (n + 9) \div 10
               b == (n * 5 + 9) \div 10
    <2>1. a \in Int /\ b \in Int
      BY <1>3
    <2> HIDE DEF n, a, b
    <2>2. Max({1, a}) \in Int /\ Max({1, a}) >= 1
      BY <2>1, OfTwo
    <2>3. top = Max({1, a}) /\ middle = Max({0, b - top})
      BY DEF a, b
    <2> HIDE DEF top, middle
    <2>4. b - top \in Int
      BY <2>1, <2>2, <2>3
    <2>5. Max({0, b - top}) \in Int /\ Max({0, b - top}) >= 0
      BY <2>4, OfTwo
    <2>6. QED
      BY <2>2, <2>3, <2>5
  <1> DEFINE A == part(0, top)
             B == part(top, top + middle)
             C == part(top + middle, n)
  <1> HIDE DEF n, richer, place, top, middle
  <1>6. InParts(rows, A, B, C)
    BY <1>2, <1>3, <1>4, <1>5 DEF InParts
  <1>7. Pareto(r)[1] = A /\ Pareto(r)[2] = B /\ Pareto(r)[3] = C
    BY <1>1
  <1> HIDE DEF A, B, C
  <1>8. UNION {Pareto(r)[i] : i \in 1..3} = rows
    <2>1. rows = A \cup B \cup C
      BY <1>6 DEF InParts
    <2>2. 1 \in 1..3 /\ 2 \in 1..3 /\ 3 \in 1..3
      OBVIOUS
    <2>3. \A x : (x \in A \cup B \cup C) <=> \E i \in 1..3 : x \in Pareto(r)[i]
      BY <1>7, <2>2
    <2>4. QED
      BY <2>1, <2>3
  <1>9. /\ Cardinality(rows) = Cardinality(A) + Cardinality(B) + Cardinality(C)
        /\ Cardinality(A) \in Nat /\ Cardinality(B) \in Nat /\ Cardinality(C) \in Nat
    BY <1>6, PartsCount
  <1>10. QED
    BY <1>7, <1>8, <1>9

\* The periods of a report are finitely many, and each day of the question is in one of them.
LEMMA PeriodsAre ==
  ASSUME NEW r, r.from \in Int, r.to \in Int, NEW g
  PROVE  /\ IsFiniteSet(PeriodStarts(r, g))
         /\ \A d \in r.from..r.to : PeriodKey(d, g) \in PeriodStarts(r, g)
  <1> DEFINE K == r.from..r.to
             f == [d \in K |-> PeriodKey(d, g)]
  <1>1. PeriodStarts(r, g) = {f[d] : d \in K}
    BY DEF PeriodStarts
  <1>2. IsFiniteSet(K)
    BY FS_Interval
  <1>3. \A d \in K : PeriodKey(d, g) = f[d]
    OBVIOUS
  <1> HIDE DEF K, f
  <1>4. IsFiniteSet({f[d] : d \in K})
    BY <1>2, ImageFinite
  <1>5. QED
    BY <1>1, <1>3, <1>4 DEF K

\* Whatever is paid on the days of a period.
DayMoney(S) == Total(LAMBDA d : d.service + d.goods + d.topup, S)

\* It is the sum of the function that takes a day's money.
LEMMA DayMoneyIs ==
  ASSUME NEW S, NEW g, \A x \in S : g[x] = x.service + x.goods + x.topup
  PROVE  DayMoney(S) = SumOf(g, S)
  <1> DEFINE P(h) == h = [s \in SUBSET S |-> IF s = {} THEN 0
                          ELSE (OneOf(s).service + OneOf(s).goods + OneOf(s).topup) + h[s \ {OneOf(s)}]]
  <1>1. DayMoney(S) = (CHOOSE h : P(h))[S]
    BY DEF DayMoney, Total, MapThenSumSet, MapThenFoldSet, OneOf
  <1>2. \A h : P(h) <=> Adds(h, g, S)
    <2>1. \A s \in SUBSET S : s # {} => g[OneOf(s)] = OneOf(s).service + OneOf(s).goods + OneOf(s).topup
      BY SomeIn
    <2>2. QED
      BY <2>1 DEF Adds
  <1>3. (CHOOSE h : P(h)) = (CHOOSE h : Adds(h, g, S))
    BY <1>2
  <1>4. QED
    BY <1>1, <1>3, SumIs

\* The periods of the financial overview make up its revenue, by day, by week and by month.
LEMMA FinancesAddUp ==
  ASSUME RowsInv, HistoryInv, TypedInv, NEW q \in AQuestion, NEW r, r = Resolved(q), NEW g
  PROVE  FieldTotal("revenue", FinancialOverview(q, g)) = AverageCheck(r).revenue
  <1> DEFINE D == Daily(q)
             day == DailyRows(q)
             s == [x \in D |-> x.service]
             o == [x \in D |-> x.goods]
             u == [x \in D |-> x.topup]
             so == [x \in D |-> x.service + x.goods]
             w == [x \in D |-> x.service + x.goods + x.topup]
             key == [x \in D |-> PeriodKey(x.day, g)]
             K == PeriodStarts(q, g)
             n(k) == FieldTotal("appointments", Filed(D, key, k))
             row == [k \in K |-> [period |-> k, revenue |-> DayMoney(Filed(D, key, k)), appointments |-> n(k)]]
  <1>1. FinancialOverview(q, g) = TableOf(row, K)
    <2> DEFINE shown(k) == [period |-> k, revenue |-> DayMoney({d \in D : PeriodKey(d.day, g) = k}),
                            appointments |-> FieldTotal("appointments", {d \in D : PeriodKey(d.day, g) = k})]
    <2>1. FinancialOverview(q, g) = {shown(k) : k \in K}
      BY DEF FinancialOverview, DayMoney, FieldTotal
    <2>2. \A k : Filed(D, key, k) = {d \in D : PeriodKey(d.day, g) = k}
      BY DEF Filed
    <2>3. \A k \in K : row[k] = shown(k)
      BY <2>2
    <2> HIDE DEF row, shown, K
    <2>4. {row[k] : k \in K} = {shown(k) : k \in K}
      BY <2>3
    <2>5. QED
      BY <2>1, <2>4 DEF TableOf
  <1>2. q.from \in Int /\ q.to \in Int
    BY DEF AQuestion
  <1>3. /\ D = TableOf(day, q.from..q.to) /\ IsFiniteSet(q.from..q.to)
        /\ \A d \in q.from..q.to : /\ day[d].day = d /\ day[d].service \in Int
                                   /\ day[d].goods \in Int /\ day[d].topup \in Int
        /\ \A d \in q.from..q.to, e \in q.from..q.to : day[d] = day[e] => d = e
        /\ FieldTotal("service", D) = PairAmount(PaidServices(r))
        /\ FieldTotal("goods", D) = Amount(GoodsPayments(r))
        /\ FieldTotal("topup", D) = Amount(TopUpPayments(r))
    <2> HIDE DEF day
    <2>1. day = DailyRows(q)
      BY DEF day
    <2>2. QED
      BY <2>1, DailyAddsUp
  <1>4. \A k \in K : row[k].period = k /\ row[k].revenue = DayMoney(Filed(D, key, k))
    OBVIOUS
  <1>5. /\ \A x \in D : s[x] = x.service /\ o[x] = x.goods /\ u[x] = x.topup /\ so[x] = s[x] + o[x]
        /\ \A x \in D : w[x] = x.service + x.goods + x.topup /\ w[x] = so[x] + u[x] /\ key[x] = PeriodKey(x.day, g)
    OBVIOUS
  <1> HIDE DEF D, day, s, o, u, so, w, key, row
  <1>6. \A x \in D : x.day \in q.from..q.to /\ x.service \in Int /\ x.goods \in Int /\ x.topup \in Int
    BY <1>3 DEF TableOf
  <1>7. IsFiniteSet(D)
    <2>1. D = {day[d] : d \in q.from..q.to}
      BY <1>3 DEF TableOf
    <2> DEFINE N == q.from..q.to
    <2>2. D = {day[d] : d \in N} /\ IsFiniteSet(N)
      BY <1>3, <2>1
    <2> HIDE DEF N
    <2>3. QED
      BY <2>2, ImageFinite
  <1>8. Summable(s, D) /\ Summable(o, D) /\ Summable(u, D) /\ Summable(so, D) /\ Summable(w, D)
    <2>1. \A x \in D : s[x] \in Int /\ o[x] \in Int /\ u[x] \in Int
      BY <1>5, <1>6
    <2>2. \A x \in D : so[x] \in Int
      BY <1>5, <2>1
    <2>3. \A x \in D : w[x] \in Int
      BY <1>5, <2>1, <2>2
    <2>4. QED
      BY <1>7, <2>1, <2>2, <2>3 DEF Summable
  <1>9. SumOf(w, D) = AverageCheck(r).revenue
    <2>1. SumOf(so, D) = SumOf(s, D) + SumOf(o, D)
      BY <1>5, <1>8, SumAdd
    <2>2. SumOf(w, D) = SumOf(so, D) + SumOf(u, D)
      BY <1>5, <1>8, SumAdd
    <2>3. FieldTotal("service", D) = SumOf(s, D)
      BY <1>5, FieldTotalIs
    <2>4. FieldTotal("goods", D) = SumOf(o, D)
      BY <1>5, FieldTotalIs
    <2>5. FieldTotal("topup", D) = SumOf(u, D)
      BY <1>5, FieldTotalIs
    <2>6. AverageCheck(r).revenue = PairAmount(PaidServices(r)) + Amount(GoodsPayments(r)) + Amount(TopUpPayments(r))
      BY CheckIs
    <2>7. QED
      BY <1>3, <2>1, <2>2, <2>3, <2>4, <2>5, <2>6
  <1>10. IsFiniteSet(K) /\ \A x \in D : key[x] \in K
    BY <1>2, <1>5, <1>6, PeriodsAre
  <1>11. \A k \in K : row[k]["revenue"] = SumOf(w, Filed(D, key, k))
    <2>1. ASSUME NEW k \in K PROVE row[k].revenue = SumOf(w, Filed(D, key, k))
      <3>1. \A x \in Filed(D, key, k) : w[x] = x.service + x.goods + x.topup
        BY <1>5 DEF Filed
      <3>2. DayMoney(Filed(D, key, k)) = SumOf(w, Filed(D, key, k))
        BY <3>1, DayMoneyIs
      <3>3. QED
        BY <1>4, <3>2
    <2>2. QED
      BY <2>1
  <1> HIDE DEF K
  <1>12. HoldsSums(D, w, key, K, row, "revenue")
    BY <1>4, <1>8, <1>10, <1>11 DEF HoldsSums, Files
  <1>13. FieldTotal("revenue", TableOf(row, K)) = SumOf(w, D)
    BY <1>12, SumTable
  <1>14. QED
    BY <1>1, <1>9, <1>13

\* Booked rows by period, by person and by cell of the week: each is in one row of its report.
LEMMA RecordsAddUp ==
  ASSUME RowsInv, HistoryInv, AnswersInv, NEW r, r.from \in Int, r.to \in Int, NEW g
  PROVE  FieldTotal("records", RecordsByPeriod(r, g)) = Cardinality(Booked(r))
  <1> DEFINE B == Booked(r)
             key == [v \in B |-> PeriodKey(v.day, g)]
             K == PeriodStarts(r, g)
             in(k) == {v \in B : PeriodKey(v.day, g) = k}
             shown(k) == [period |-> k, records |-> Cardinality(in(k)),
                          completed |-> Cardinality({v \in in(k) : v.att = Completed}),
                          noShow |-> Cardinality({v \in in(k) : v.att = Cancelled}),
                          online |-> Cardinality({v \in in(k) : v.by = "online"}),
                          byStaff |-> Cardinality({v \in in(k) : v.by = "staff"})]
             row == [k \in K |-> shown(k)]
  <1>1. RecordsByPeriod(r, g) = {shown(k) : k \in K}
    BY DEF RecordsByPeriod
  <1>2. \A k \in K : row[k] = shown(k) /\ row[k].period = k /\ row[k].records = Cardinality(Filed(B, key, k))
    <2>1. \A k : Filed(B, key, k) = in(k)
      BY DEF Filed
    <2>2. QED
      BY <2>1
  <1>3. IsFiniteSet(B) /\ \A v \in B : v.day \in r.from..r.to
    <2>1. IsFiniteSet(B) /\ \A v \in B : v.day \in Int /\ Within(v.day, r)
      BY BookedIs
    <2>2. QED
      BY <2>1 DEF Within
  <1>4. IsFiniteSet(K) /\ \A v \in B : key[v] \in K
    BY <1>3, PeriodsAre
  <1> HIDE DEF B, key, K, shown, row
  <1>5. RecordsByPeriod(r, g) = TableOf(row, K)
    BY <1>1, <1>2 DEF TableOf
  <1>6. HoldsCounts(B, key, K, row, "records")
    BY <1>2, <1>3, <1>4 DEF HoldsCounts, Files
  <1>7. FieldTotal("records", TableOf(row, K)) = Cardinality(B)
    BY <1>6, CountTable
  <1>8. QED
    BY <1>5, <1>7 DEF B

\* The records of the staff make up the records of the period, and so do those that nobody came to.
LEMMA TeamAddsUp ==
  ASSUME RowsInv, HistoryInv, AnswersInv, NEW r
  PROVE  /\ FieldTotal("records", StaffRecords(r)) = Cardinality(Booked(r))
         /\ FieldTotal("noShow", StaffRecords(r)) = Cardinality({v \in Booked(r) : v.att = Cancelled})
  <1> DEFINE B == Booked(r)
             N == {v \in B : v.att = Cancelled}
             key == [v \in B |-> v.staff]
             none == [v \in N |-> v.staff]
             K == {v.staff : v \in B}
             of(s) == {v \in B : v.staff = s}
             shown(s) == [staff |-> s, records |-> Cardinality(of(s)),
                          completed |-> Cardinality({v \in of(s) : v.att = Completed}),
                          noShow |-> Cardinality({v \in of(s) : v.att = Cancelled})]
             row == [s \in K |-> shown(s)]
  <1>1. StaffRecords(r) = {shown(k) : k \in K}
    BY DEF StaffRecords
  <1>2. \A k \in K : /\ row[k] = shown(k) /\ row[k].staff = k /\ row[k].records = Cardinality(Filed(B, key, k))
                     /\ row[k].noShow = Cardinality(Filed(N, none, k))
    <2>1. \A k : Filed(B, key, k) = of(k) /\ Filed(N, none, k) = {v \in of(k) : v.att = Cancelled}
      BY DEF Filed
    <2>2. QED
      BY <2>1
  <1>3. IsFiniteSet(B) /\ IsFiniteSet(N)
    BY BookedIs, FS_Subset
  <1>4. K = {key[v] : v \in B} /\ \A v \in N : none[v] \in K
    OBVIOUS
  <1>5. B = Booked(r) /\ N = {v \in Booked(r) : v.att = Cancelled}
    OBVIOUS
  <1> HIDE DEF B, N, key, none, K, shown, row
  <1>6. IsFiniteSet(K)
    BY <1>3, <1>4, ImageFinite
  <1>7. StaffRecords(r) = TableOf(row, K)
    BY <1>1, <1>2 DEF TableOf
  <1>8. HoldsCounts(B, key, K, row, "records") /\ HoldsCounts(N, none, K, row, "noShow")
    BY <1>2, <1>3, <1>4, <1>6 DEF HoldsCounts, Files
  <1>9. FieldTotal("records", TableOf(row, K)) = Cardinality(B)
    BY <1>8, CountTable
  <1>10. FieldTotal("noShow", TableOf(row, K)) = Cardinality(N)
    BY <1>8, CountTable
  <1>11. QED
    BY <1>5, <1>7, <1>9, <1>10

\* The rows of the masters make up the completed visits and the revenue of services.
LEMMA MastersAddUp ==
  ASSUME RowsInv, HistoryInv, TypedInv, AnswersInv, NEW r
  PROVE  /\ FieldTotal("completed", StaffEfficiency(r)) = Cardinality(CompletedVisits(r))
         /\ FieldTotal("revenue", StaffEfficiency(r)) = PairAmount(PaidServices(r))
  <1> DEFINE B == Booked(r)
             C == CompletedVisits(r)
             S == PaidServices(r)
             kB == [v \in B |-> v.staff]
             kC == [v \in C |-> v.staff]
             kS == [x \in S |-> x[3].staff]
             K == {v.staff : v \in B} \cup {x[3].staff : x \in S}
             of(s) == {v \in B : v.staff = s}
             shown(s) == [staff |-> s, appointments |-> Cardinality(of(s)), clients |-> Cardinality(Clients(of(s))),
                          completed |-> Cardinality({v \in of(s) : v.att = Completed}),
                          revenue |-> PairAmount({x \in S : x[3].staff = s})]
             row == [s \in K |-> shown(s)]
  <1>1. StaffEfficiency(r) = {shown(k) : k \in K}
    BY DEF StaffEfficiency
  <1>2. C = {v \in B : v.att = Completed} /\ IsFiniteSet(B)
    BY BookedIs
  <1>3. \A k \in K : /\ row[k] = shown(k) /\ row[k].staff = k
                     /\ row[k].completed = Cardinality(Filed(C, kC, k))
                     /\ row[k].revenue = PairAmount(Filed(S, kS, k))
    <2>1. \A k : Filed(C, kC, k) = {v \in of(k) : v.att = Completed}
      <3> HIDE DEF C, B
      <3>1. QED
        BY <1>2 DEF Filed
    <2>2. \A k : Filed(S, kS, k) = {x \in S : x[3].staff = k}
      BY DEF Filed
    <2>3. \A k \in K : row[k] = shown(k)
      OBVIOUS
    <2>4. QED
      BY <2>1, <2>2, <2>3
  <1>4. IsFiniteSet(C) /\ IsFiniteSet(S) /\ S \in SUBSET PaidVisits
    BY RowsInPeriod
  <1>5. /\ K = {kB[v] : v \in B} \cup {kS[x] : x \in S}
        /\ \A x \in S : kS[x] \in K
    OBVIOUS
  <1>6. \A v \in C : kC[v] \in K
    <2>1. \A v \in B : v.staff \in K
      OBVIOUS
    <2> HIDE DEF B, C, K
    <2>2. QED
      BY <1>2, <2>1
  <1> HIDE DEF B, C, S, kB, kC, kS, K, shown, row
  <1>7. IsFiniteSet(K)
    <2>1. IsFiniteSet({kB[v] : v \in B}) /\ IsFiniteSet({kS[x] : x \in S})
      BY <1>2, <1>4, ImageFinite
    <2>2. QED
      BY <1>5, <2>1, FS_Union
  <1>8. StaffEfficiency(r) = TableOf(row, K)
    BY <1>1, <1>3 DEF TableOf
  <1>9. HoldsCounts(C, kC, K, row, "completed") /\ HoldsPairs(S, kS, K, row, "revenue")
    BY <1>3, <1>4, <1>5, <1>6, <1>7 DEF HoldsCounts, HoldsPairs, Files
  <1>10. FieldTotal("completed", TableOf(row, K)) = Cardinality(C)
    BY <1>9, CountTable
  <1>11. FieldTotal("revenue", TableOf(row, K)) = PairAmount(S)
    BY <1>9, PairTable
  <1>12. QED
    BY <1>8, <1>10, <1>11 DEF C, S

\* The cells of the load, with the visits without a moment, make up the completed visits.
LEMMA LoadAddsUp ==
  ASSUME RowsInv, HistoryInv, AnswersInv, NEW r
  PROVE  PeakLoad(r).unplaced + FieldTotal("visits", PeakLoad(r).cells) = Cardinality(CompletedVisits(r))
  <1> DEFINE C == {v \in Booked(r) : v.att = Completed}
             timed == {v \in C : v.at # Null}
             key == [v \in timed |-> <<(DayOf(v.at) - 1) % WeekDays, v.at % 2>>]
             K == {key[v] : v \in timed}
             shown(c) == [cell |-> c, visits |-> Cardinality({v \in timed :
                                                              <<(DayOf(v.at) - 1) % WeekDays, v.at % 2>> = c})]
             row == [c \in K |-> shown(c)]
             rest == C \ timed
  <1>1. /\ PeakLoad(r).cells = {shown(c) : c \in {<<(DayOf(v.at) - 1) % WeekDays, v.at % 2>> : v \in timed}}
        /\ PeakLoad(r).unplaced = Cardinality(rest)
    BY DEF PeakLoad
  <1>2. K = {<<(DayOf(v.at) - 1) % WeekDays, v.at % 2>> : v \in timed}
    OBVIOUS
  <1>3. \A c \in K : row[c] = shown(c) /\ row[c].cell = c /\ row[c].visits = Cardinality(Filed(timed, key, c))
    <2>1. \A c : Filed(timed, key, c) = {v \in timed : <<(DayOf(v.at) - 1) % WeekDays, v.at % 2>> = c}
      BY DEF Filed
    <2> HIDE DEF timed, key, K
    <2>2. QED
      BY <2>1
  <1>4. C = CompletedVisits(r) /\ IsFiniteSet(C)
    BY BookedIs, FS_Subset
  <1>5. InParts(C, timed, rest, {})
    <2>1. timed \subseteq C
      OBVIOUS
    <2> HIDE DEF C, timed
    <2>2. QED
      BY <1>4, <2>1 DEF InParts
  <1> HIDE DEF C, timed, key, shown, row, rest
  <1>6. IsFiniteSet(timed)
    BY <1>5, PartsCount
  <1>7. IsFiniteSet(K) /\ \A v \in timed : key[v] \in K
    <2>1. IsFiniteSet({key[v] : v \in timed})
      BY <1>6, ImageFinite
    <2>2. QED
      BY <2>1
  <1> HIDE DEF K
  <1>8. PeakLoad(r).cells = TableOf(row, K)
    <2>1. PeakLoad(r).cells = {shown(c) : c \in K}
      BY <1>1, <1>2
    <2>2. QED
      BY <1>3, <2>1 DEF TableOf
  <1>9. HoldsCounts(timed, key, K, row, "visits")
    BY <1>3, <1>6, <1>7 DEF HoldsCounts, Files
  <1>10. FieldTotal("visits", TableOf(row, K)) = Cardinality(timed)
    BY <1>9, CountTable
  <1>11. /\ Cardinality(C) = Cardinality(timed) + Cardinality(rest)
         /\ Cardinality(timed) \in Nat /\ Cardinality(rest) \in Nat
    BY <1>5, HalvesCount
  <1>12. PeakLoad(r).unplaced = Cardinality(rest)
    BY <1>1
  <1> HIDE DEF K
  <1>13. QED
    BY <1>4, <1>8, <1>10, <1>11, <1>12

\* For everybody what was sold over the counter and what was sold with a visit is what was sold.
LEMMA LinksAddUp ==
  ASSUME RowsInv, NEW q \in AQuestion, Everybody(q), NEW r, r = Resolved(q)
  PROVE  Amount(GoodsPayments(r)) = Amount(UnlinkedGoods(r))
           + Amount({p \in GoodsPayments(r) : \E v \in GoodsVisits(r) : Pays(p, v)})
  <1> DEFINE G == GoodsPayments(r)
             linked == {p \in G : \E v \in GoodsVisits(r) : Pays(p, v)}
             free == UnlinkedGoods(r)
             any == AnySeller(r)
  <1>1. r.sel.kind = "all" /\ any.sel.kind = "all" /\ any.from = r.from /\ any.to = r.to
        /\ \A b : InScope(any, b) <=> InScope(r, b)
    <2>1. r.sel = q.sel /\ q.sel.kind = "all"
      BY ResolvedIs DEF Everybody
    <2>2. r = [from |-> q.from, to |-> q.to, co |-> q.co, limited |-> TRUE, allowed |-> CompanyIds(q), sel |-> q.sel]
      BY DEF Resolved, AQuestion
    <2>3. DOMAIN r = {"from", "to", "co", "limited", "allowed", "sel"}
      BY <2>2
    <2>4. any = [r EXCEPT !.sel = [kind |-> "all", ids |-> {}]]
      BY DEF AnySeller
    <2> DEFINE everyone == [kind |-> "all", ids |-> {}]
    <2>5. everyone.kind = "all"
      OBVIOUS
    <2>6. any = [r EXCEPT !.sel = everyone]
      BY <2>4
    <2> HIDE DEF any, everyone
    <2>7. /\ any.sel = everyone /\ any.from = r.from /\ any.to = r.to /\ any.co = r.co
          /\ any.limited = r.limited /\ any.allowed = r.allowed
      BY <2>3, <2>6
    <2>8. QED
      BY <2>1, <2>5, <2>7 DEF InScope
  <1> HIDE DEF any
  <1>2. CompletedVisits(any) = CompletedVisits(r) /\ GoodsPayments(any) = GoodsPayments(r)
    <2>1. \A s : Chosen(any, s) <=> Chosen(r, s)
      BY <1>1 DEF Chosen
    <2>2. \A p : Credited(any, p) <=> Credited(r, p)
      BY <1>1 DEF Credited
    <2>3. \A d : Within(d, any) <=> Within(d, r)
      BY <1>1 DEF Within
    <2>4. History(any) = History(r) /\ DirectPayments(any) = DirectPayments(r)
      BY <1>1, <2>3 DEF History, DirectPayments
    <2>5. QED
      BY <2>1, <2>2, <2>3, <2>4 DEF CompletedVisits, GoodsPayments
  <1>3. free = {p \in G : ~\E v \in CompletedVisits(r) : Pays(p, v)}
    BY <1>2 DEF UnlinkedGoods, any
  <1>4. GoodsVisits(r) = {x[3] : x \in {y \in PaidVisits : y[2] \in G /\ y[3] \in CompletedVisits(r)}}
    BY <1>2 DEF GoodsVisits, any
  <1>5. \A p \in G : (\E v \in GoodsVisits(r) : Pays(p, v)) <=> \E v \in CompletedVisits(r) : Pays(p, v)
    <2>1. ASSUME NEW p \in G, NEW v \in CompletedVisits(r), Pays(p, v)
          PROVE  v \in GoodsVisits(r)
      <3>1. p \in payments /\ v \in visits /\ p.rec # Null
        BY <2>1 DEF GoodsPayments, DirectPayments, CompletedVisits, History, Pays
      <3>2. DirectMatch(p, v) \/ FallbackMatch(p, v)
        BY <2>1 DEF Pays
      <3>3. <<"direct", p, v>> \in PaidVisits \/ <<"fallback", p, v>> \in PaidVisits
        BY <3>1, <3>2 DEF PaidVisits
      <3>4. \E y \in PaidVisits : y[2] = p /\ y[3] = v
        BY <3>3
      <3> HIDE DEF G
      <3>5. QED
        BY <1>4, <3>4
    <2>2. GoodsVisits(r) \subseteq CompletedVisits(r)
      BY <1>4
    <2> HIDE DEF G
    <2>3. QED
      BY <2>1, <2>2
  <1>6. G \in SUBSET payments
    BY DEF GoodsPayments, DirectPayments
  <1> HIDE DEF G, linked, free
  <1>7. linked = {p \in G : \E v \in CompletedVisits(r) : Pays(p, v)}
    BY <1>5 DEF linked
  <1>8. free \subseteq G /\ linked = G \ free
    BY <1>3, <1>7
  <1>9. Summable(PaidIn, G) /\ Amount(G) = SumOf(PaidIn, G) /\ Amount(free) = SumOf(PaidIn, free)
        /\ Amount(linked) = SumOf(PaidIn, G \ free)
    BY <1>6, <1>8, MoneySums
  <1>10. SumOf(PaidIn, G) = SumOf(PaidIn, free) + SumOf(PaidIn, G \ free)
    BY <1>8, <1>9, SumSplit
  <1>11. QED
    BY <1>9, <1>10 DEF G, linked, free

\* The pairs of services are found in the visits that sold more than one.
LEMMA PairsAre ==
  ASSUME RowsInv, AnswersInv, NEW r
  PROVE  {v \in CompletedVisits(r) : Cardinality(ServicesOf(v)) > 1} = UNION {k.visits : k \in Combos(r)}
  <1> DEFINE C == CompletedVisits(r)
             pairs == {x \in Services \X Services : x[1] < x[2]}
             both(k) == {v \in C : k[1] \in ServicesOf(v) /\ k[2] \in ServicesOf(v)}
  <1>1. Combos(r) = {[pair |-> k, visits |-> both(k)] : k \in pairs}
    BY DEF Combos
  <1>2. \A v : v \in UNION {k.visits : k \in Combos(r)} <=> \E k \in pairs : v \in both(k)
    <2> HIDE DEF pairs, both
    <2> DEFINE shown(k) == [pair |-> k, visits |-> both(k)]
    <2>1. \A k \in pairs : shown(k).visits = both(k)
      OBVIOUS
    <2>2. Combos(r) = {shown(k) : k \in pairs}
      BY <1>1
    <2> HIDE DEF shown
    <2>3. \A v : v \in UNION {k.visits : k \in Combos(r)} <=> \E c \in Combos(r) : v \in c.visits
      OBVIOUS
    <2>4. \A v : (\E c \in Combos(r) : v \in c.visits) <=> \E k \in pairs : v \in both(k)
      BY <2>1, <2>2
    <2>5. QED
      BY <2>3, <2>4
  <1>3. \A v \in C : IsFiniteSet(ServicesOf(v)) /\ ServicesOf(v) \subseteq Services /\ ServicesOf(v) \subseteq Nat
    <2>1. ASSUME NEW v \in C
          PROVE  IsFiniteSet(ServicesOf(v)) /\ ServicesOf(v) \subseteq Services /\ ServicesOf(v) \subseteq Nat
      <3>1. v \in visits
        BY DEF CompletedVisits, History
      <3>2. /\ IsFiniteSet(v.lines) /\ \A l \in v.lines : l.service \in Services /\ l.service \in Nat
        BY <3>1, VisitsAre
      <3> DEFINE L == {l \in v.lines : l.qty > 0}
                 f == [l \in L |-> l.service]
      <3>3. IsFiniteSet(L)
        BY <3>2, FS_Subset
      <3>4. ServicesOf(v) = {f[l] : l \in L}
        BY DEF ServicesOf
      <3>5. ServicesOf(v) \subseteq Services /\ ServicesOf(v) \subseteq Nat
        BY <3>2 DEF ServicesOf
      <3> HIDE DEF L, f
      <3>6. IsFiniteSet(ServicesOf(v))
        BY <3>3, <3>4, ImageFinite
      <3>7. QED
        BY <3>5, <3>6
    <2>2. QED
      BY <2>1
  <1>4. ASSUME NEW v \in C
        PROVE  Cardinality(ServicesOf(v)) > 1 <=> \E k \in pairs : v \in both(k)
    <2> DEFINE S == ServicesOf(v)
    <2>1. IsFiniteSet(S) /\ S \subseteq Services /\ S \subseteq Nat /\ Cardinality(S) \in Nat
      BY <1>3, FS_CardinalityType
    <2>2. ASSUME Cardinality(S) > 1 PROVE \E k \in pairs : v \in both(k)
      <3>1. PICK a \in S : TRUE
        <4>1. S # {}
          BY <2>2, FS_EmptySet
        <4>2. QED
          BY <4>1
      <3>2. PICK b \in S : b # a
        <4>1. S # {a}
          <5>1. Cardinality({a}) = 1
            BY FS_Singleton
          <5>2. S = {a} => Cardinality(S) = 1
            BY <5>1
          <5>3. QED
            BY <2>2, <5>2
        <4>2. QED
          BY <3>1, <4>1
      <3>3. PICK c \in S, d \in S : c < d
        BY <2>1, <3>1, <3>2
      <3>4. <<c, d>> \in pairs
        BY <2>1, <3>3
      <3>5. v \in both(<<c, d>>)
        BY <3>3
      <3>6. QED
        BY <3>4, <3>5
    <2>3. ASSUME NEW k \in pairs, v \in both(k) PROVE Cardinality(S) > 1
      <3>1. k[1] \in S /\ k[2] \in S /\ k[1] < k[2]
        BY <2>3
      <3>2. k[1] \in Nat /\ k[2] \in Nat
        BY <2>1, <3>1
      <3>3. k[1] # k[2]
        BY <3>1, <3>2
      <3> HIDE DEF S
      <3>4. Cardinality(S) # 0
        BY <2>1, <3>1, FS_EmptySet
      <3>5. Cardinality(S) # 1
        <4>1. ASSUME Cardinality(S) = 1 PROVE FALSE
          <5>1. PICK x : S = {x}
            BY <2>1, <4>1, FS_Singleton
          <5>2. QED
            BY <3>1, <3>3, <5>1
        <4>2. QED
          BY <4>1
      <3>6. QED
        BY <2>1, <3>4, <3>5
    <2>4. QED
      BY <2>2, <2>3
  <1>5. \A v : (\E k \in pairs : v \in both(k)) => v \in C
    OBVIOUS
  <1> HIDE DEF C, pairs, both
  <1>6. {v \in C : Cardinality(ServicesOf(v)) > 1} = UNION {k.visits : k \in Combos(r)}
    BY <1>2, <1>4, <1>5
  <1>7. QED
    BY <1>6 DEF C

\* For everybody the cohort of a month has as many clients as the month has new ones.
LEMMA NewcomersAre ==
  ASSUME RowsInv, HistoryInv, AnswersInv, NEW q \in AQuestion, Everybody(q), NEW r, r = Resolved(q),
         NEW m \in Months
  PROVE  Cardinality(Cohort(r, m)) = ClientRecency(At(r, Period(FirstDay(m), LastDay(m)))).new
  <1> DEFINE w == At(r, Period(FirstDay(m), LastDay(m)))
             H == History(r)
             vs == ClientVisits(r)
             first(k) == FirstOf(In(vs, k))
             C == Cohort(r, m)
             new == {c \in Here(w) : FirstVisit(H, c) >= FirstDay(m)}
  <1>1. /\ w.from = FirstDay(m) /\ w.to = LastDay(m) /\ w.sel.kind = "all" /\ r.sel.kind = "all"
        /\ History(w) = H
    <2>1. /\ \A c : InScope(w, c) <=> InScope(r, c)
          /\ w.from = FirstDay(m) /\ w.to = LastDay(m) /\ w.sel = r.sel
      BY SameScope DEF Period
    <2>2. r.sel = q.sel
      BY ResolvedIs
    <2>3. QED
      BY <2>1, <2>2 DEF Everybody, History
  <1> HIDE DEF w
  <1>2. CompletedVisits(w) = {v \in H : FirstDay(m) <= v.day /\ v.day <= LastDay(m)}
    BY <1>1 DEF CompletedVisits, Chosen, Within
  <1>3. ClientRecency(w).new = Cardinality(new)
    BY <1>1 DEF ClientRecency, Here
  <1>4. C = {k \in PairsOf(vs) : MonthOf[first(k).day] = m}
    BY <1>1 DEF Cohort, Chosen
  <1>5. vs = {v \in H : v.client # Null} /\ H \subseteq visits
    BY DEF ClientVisits, History
  <1>6. \A v \in visits : v.day \in Days /\ v.day \in Nat /\ MonthOf[v.day] \in Nat
    BY DaysAre DEF HistoryInv
  <1>7. ASSUME NEW v \in vs
        PROVE  /\ FirstVisit(H, v.client) = first(<<v.co, v.client>>).day
               /\ first(<<v.co, v.client>>) \in vs /\ first(<<v.co, v.client>>).client = v.client
               /\ first(<<v.co, v.client>>).day <= v.day
    <2> DEFINE k == <<v.co, v.client>>
               S == In(vs, k)
               days == {u.day : u \in S}
    <2>1. S = {u \in vs : u.co = v.co /\ u.client = v.client}
      BY DEF In
    <2>2. VisitsOf(H, v.client) = {u \in H : u.client = v.client}
      BY DEF VisitsOf
    <2>3. \A u \in visits : u.client = v.client => u.co = v.co
      BY <1>5, VisitsAre
    <2>4. VisitsOf(H, v.client) = S
      BY <1>5, <2>1, <2>2, <2>3
    <2>5. v \in S /\ S \subseteq vs /\ S \subseteq visits
      BY <1>5, <2>1
    <2> HIDE DEF S
    <2>6. FirstOf(S) \in S /\ \A u \in S : FirstOf(S).day <= u.day
      BY <2>5, FirstIn
    <2>7. days \subseteq Nat /\ days \subseteq Days /\ FirstOf(S).day \in days /\ \A d \in days : FirstOf(S).day <= d
      BY <1>6, <2>5, <2>6
    <2>8. FirstVisit(H, v.client) = Min(days)
      BY <2>4 DEF FirstVisit
    <2> DEFINE u0 == FirstOf(S)
    <2> HIDE DEF days
    <2>9. Min(days) = u0.day
      <3>1. IsFiniteSet(days) /\ days # {}
        BY <2>7, DaysFinite, FS_Subset
      <3>2. Min(days) \in days /\ \A y \in days : Min(days) <= y
        BY <2>7, <3>1, EndsOf
      <3> DEFINE least == Min(days)
                 d == u0.day
      <3>3. least \in days /\ d \in days /\ least <= d /\ d <= least
        BY <2>7, <3>2
      <3>4. least \in Nat /\ d \in Nat
        BY <2>7, <3>3
      <3> HIDE DEF least, d
      <3>5. least = d
        BY <3>3, <3>4
      <3>6. QED
        BY <3>5 DEF least, d
    <2>10. u0.client = v.client /\ u0 \in vs /\ u0.day <= v.day
      BY <2>1, <2>5, <2>6
    <2>11. QED
      BY <2>8, <2>9, <2>10 DEF S
  <1>8. \A k \in PairsOf(vs) : \E v \in vs : k = <<v.co, v.client>> /\ k[1] = v.co /\ k[2] = v.client
    BY DEF PairsOf
  <1>9. FirstDay(m) \in DaysOf(m) /\ LastDay(m) \in DaysOf(m)
        /\ \A d \in DaysOf(m) : FirstDay(m) <= d /\ d <= LastDay(m)
    BY MonthDays
  <1>10. \A d \in DaysOf(m) : d \in Days /\ MonthOf[d] = m
    BY DEF DaysOf
  <1> HIDE DEF C, vs, H, first
  <1> DEFINE f == [k \in C |-> k[2]]
  <1>11. ASSUME NEW k \in C PROVE f[k] \in new
    <2>1. PICK v \in vs : k = <<v.co, v.client>> /\ k[2] = v.client
      BY <1>4, <1>8
    <2>2. /\ FirstVisit(H, v.client) = first(k).day /\ first(k) \in vs /\ first(k).client = v.client
          /\ MonthOf[first(k).day] = m
      BY <1>4, <1>7, <2>1
    <2>3. first(k) \in H /\ first(k).client # Null /\ first(k) \in visits
      BY <1>5, <2>2
    <2>4. first(k).day \in DaysOf(m)
      BY <1>6, <2>2, <2>3 DEF DaysOf
    <2>5. first(k) \in CompletedVisits(w) /\ FirstVisit(H, v.client) >= FirstDay(m)
      <3>1. FirstDay(m) <= first(k).day /\ first(k).day <= LastDay(m)
        BY <1>9, <2>4
      <3>2. first(k).day \in Nat /\ FirstDay(m) \in Nat
        BY <1>6, <1>9, <1>10, <2>3, DaysAre
      <3>3. QED
        BY <1>2, <2>2, <2>3, <3>1, <3>2
    <2>6. v.client \in Here(w)
      BY <2>2, <2>3, <2>5 DEF Here, Clients
    <2>7. QED
      BY <2>1, <2>5, <2>6
  <1>12. ASSUME NEW c \in new PROVE \E k \in C : f[k] = c
    <2>1. PICK v \in CompletedVisits(w) : v.client = c /\ c # Null
      BY DEF Here, Clients
    <2>2. v \in vs /\ v.day <= LastDay(m)
      BY <1>2, <1>5, <2>1
    <2> DEFINE k == <<v.co, v.client>>
               u == first(k)
    <2>3. FirstVisit(H, c) = u.day /\ u \in vs /\ u.day <= v.day
      BY <1>7, <2>1, <2>2
    <2>4. u \in visits /\ v \in visits
      BY <1>5, <2>2, <2>3
    <2>5. FirstDay(m) <= u.day /\ u.day <= LastDay(m) /\ u.day \in Days
      <3>1. u.day >= FirstDay(m)
        BY <2>3
      <3>2. u.day \in Nat /\ v.day \in Nat /\ FirstDay(m) \in Nat /\ LastDay(m) \in Nat /\ u.day \in Days
        BY <1>6, <1>9, <1>10, <2>4, DaysAre
      <3>3. QED
        BY <2>2, <2>3, <3>1, <3>2
    <2>6. MonthOf[u.day] = m
      <3>1. \A d \in Days, e \in Days : d <= e => MonthOf[d] <= MonthOf[e]
        BY CalendarAssumption
      <3>2. FirstDay(m) \in Days /\ LastDay(m) \in Days /\ MonthOf[FirstDay(m)] = m /\ MonthOf[LastDay(m)] = m
        BY <1>9, <1>10
      <3>3. MonthOf[FirstDay(m)] <= MonthOf[u.day] /\ MonthOf[u.day] <= MonthOf[LastDay(m)]
        BY <2>5, <3>1, <3>2
      <3>4. MonthOf[u.day] \in Nat /\ m \in Nat
        BY <1>6, <2>4, <3>2, DaysAre
      <3>5. QED
        BY <3>2, <3>3, <3>4
    <2>7. k \in PairsOf(vs) /\ k[2] = c
      BY <2>1, <2>2 DEF PairsOf
    <2>8. k \in C
      BY <1>4, <2>6, <2>7
    <2>9. QED
      BY <2>7, <2>8
  <1>13. IsFiniteSet(C) /\ TellsApart(f, C)
    <2>1. \A k \in C : \E v \in vs : k = <<v.co, v.client>> /\ k[2] = v.client
      BY <1>4, <1>8
    <2>2. \A u \in vs, v \in vs : u.client = v.client => u.co = v.co
      BY <1>5, VisitsAre
    <2>3. TellsApart(f, C)
      <3>1. ASSUME NEW k \in C, NEW l \in C, f[k] = f[l] PROVE k = l
        <4>1. PICK u \in vs : k = <<u.co, u.client>> /\ k[2] = u.client
          BY <2>1
        <4>2. PICK v \in vs : l = <<v.co, v.client>> /\ l[2] = v.client
          BY <2>1
        <4>3. QED
          BY <2>2, <3>1, <4>1, <4>2
      <3>2. QED
        BY <3>1 DEF TellsApart
    <2>4. IsFiniteSet(C)
      <3> DEFINE g == [v \in vs |-> <<v.co, v.client>>]
      <3>1. IsFiniteSet(vs)
        BY <1>5, FS_Subset DEF RowsInv
      <3>2. IsFiniteSet({g[v] : v \in vs})
        <4> HIDE DEF g
        <4>1. QED
          BY <3>1, ImageFinite
      <3>3. {g[v] : v \in vs} = PairsOf(vs)
        BY DEF PairsOf
      <3>4. IsFiniteSet(PairsOf(vs)) /\ C \subseteq PairsOf(vs)
        BY <1>4, <3>2, <3>3
      <3> HIDE DEF g
      <3>5. QED
        BY <3>4, FS_Subset
    <2>5. QED
      BY <2>3, <2>4
  <1> HIDE DEF f, new
  <1>14. Cardinality({f[k] : k \in C}) = Cardinality(C)
    BY <1>13, AsManyValues
  <1>15. {f[k] : k \in C} = new
    BY <1>11, <1>12
  <1>16. QED
    BY <1>3, <1>14, <1>15 DEF C, w

-----------------------------------------------------------------------------
(* The reports of one question.                                            *)

\* The clients of the three parts, counted part by part.
PartsTotal(P) == Total(LAMBDA i : Cardinality(P[i]), 1..3)

\* They are a sum of three numbers.
LEMMA PartsTotalIs ==
  ASSUME NEW P, \A i \in 1..3 : Cardinality(P[i]) \in Int
  PROVE  PartsTotal(P) = Cardinality(P[1]) + Cardinality(P[2]) + Cardinality(P[3])
  <1> DEFINE S == 1..3
             g == [i \in S |-> Cardinality(P[i])]
             Q(h) == h = [s \in SUBSET S |-> IF s = {} THEN 0 ELSE Cardinality(P[OneOf(s)]) + h[s \ {OneOf(s)}]]
  <1>1. PartsTotal(P) = (CHOOSE h : Q(h))[S]
    BY DEF PartsTotal, Total, MapThenSumSet, MapThenFoldSet, OneOf
  <1>2. \A h : Q(h) <=> Adds(h, g, S)
    <2>1. \A s \in SUBSET S : s # {} => g[OneOf(s)] = Cardinality(P[OneOf(s)])
      BY SomeIn
    <2> HIDE DEF S, g
    <2>2. QED
      BY <2>1 DEF Adds
  <1>3. (CHOOSE h : Q(h)) = (CHOOSE h : Adds(h, g, S))
    BY <1>2
  <1>4. PartsTotal(P) = SumOf(g, S)
    BY <1>1, <1>3, SumIs
  <1>5. SumOf(g, 1..3) = g[1] + g[2] + g[3]
    <2>1. \A i \in 1..3 : g[i] \in Int
      OBVIOUS
    <2> HIDE DEF g
    <2>2. QED
      BY <2>1, SumOfThree
  <1>6. g[1] = Cardinality(P[1]) /\ g[2] = Cardinality(P[2]) /\ g[3] = Cardinality(P[3])
    OBVIOUS
  <1> HIDE DEF g
  <1>7. QED
    BY <1>4, <1>5, <1>6

\* What the reports of one question hold.
ReportOf(x, q, r) ==
  /\ x.everybody = Everybody(q) /\ x.check = AverageCheck(r) /\ x.cards = VisitFrequency(r)
  /\ x.finance = {FinancialOverview(q, g) : g \in Granularities}
  /\ x.clients = ClientRows(r) /\ x.pareto = Pareto(r) /\ x.frequency = FrequencyRows(r)
  /\ x.records = RecordsByPeriod(r, "month") /\ x.team = StaffRecords(r) /\ x.masters = StaffEfficiency(r)
  /\ x.load = PeakLoad(r) /\ x.local = AppointmentsBreakdown(r, <<>>) /\ x.sellers = SellerRows(r)
  /\ x.goods = MergedGoods(r) /\ x.units = RevenueBlock(r).goods /\ x.unlinked = Amount(UnlinkedGoods(r))
  /\ x.linked = Amount({p \in GoodsPayments(r) : \E v \in GoodsVisits(r) : Pays(p, v)})
  /\ x.several = {v \in CompletedVisits(r) : Cardinality(ServicesOf(v)) > 1}
  /\ x.pairs = UNION {k.visits : k \in Combos(r)}
  /\ x.cohorts = [m \in Months |-> Cardinality(Cohort(r, m))]
  /\ x.newcomers = [m \in Months |-> ClientRecency(At(r, Period(FirstDay(m), LastDay(m)))).new]

\* The reports of a question hold it.
LEMMA ReportHolds ==
  ASSUME NEW q, NEW r, NEW x, x = OfReports(q, r)
  PROVE  ReportOf(x, q, r)
  BY DEF OfReports, ReportOf

\* The reports of a question make up the figures of its overview.
LEMMA ReportAgrees ==
  ASSUME RowsInv, HistoryInv, TypedInv, AnswersInv, NEW q \in Questions, NEW r, r = Resolved(q),
         NEW x, x = OfReports(q, r)
  PROVE  SlicesOf(x)
  <1> DEFINE known == {c \in x.clients : c.client # Null}
             total == x.local.counts.total
  <1>1. q \in AQuestion /\ r.from \in Int /\ r.to \in Int
    <2>1. q \in AQuestion
      BY ScopeIs
    <2>2. QED
      BY <2>1, ResolvedIs DEF AQuestion
  <1>2. ReportOf(x, q, r)
    BY ReportHolds
  <1>3. /\ x.everybody = Everybody(q) /\ x.check = AverageCheck(r) /\ x.cards = VisitFrequency(r)
        /\ x.finance = {FinancialOverview(q, g) : g \in Granularities}
        /\ x.clients = ClientRows(r) /\ x.pareto = Pareto(r) /\ x.frequency = FrequencyRows(r)
        /\ x.records = RecordsByPeriod(r, "month") /\ x.team = StaffRecords(r) /\ x.masters = StaffEfficiency(r)
        /\ x.load = PeakLoad(r) /\ x.local = AppointmentsBreakdown(r, <<>>) /\ x.sellers = SellerRows(r)
        /\ x.goods = MergedGoods(r) /\ x.units = RevenueBlock(r).goods /\ x.unlinked = Amount(UnlinkedGoods(r))
        /\ x.linked = Amount({p \in GoodsPayments(r) : \E v \in GoodsVisits(r) : Pays(p, v)})
        /\ x.several = {v \in CompletedVisits(r) : Cardinality(ServicesOf(v)) > 1}
        /\ x.pairs = UNION {k.visits : k \in Combos(r)}
        /\ x.cohorts = [m \in Months |-> Cardinality(Cohort(r, m))]
        /\ x.newcomers = [m \in Months |-> ClientRecency(At(r, Period(FirstDay(m), LastDay(m)))).new]
    BY <1>2 DEF ReportOf
  <1>4. /\ x.check.service = PairAmount(PaidServices(r)) /\ x.check.goods = Amount(GoodsPayments(r))
        /\ x.check.appointments = Cardinality(CompletedVisits(r))
    BY <1>3, CheckIs
  <1>5. \A periods \in x.finance : x.check.revenue = Total(LAMBDA p : p.revenue, periods)
    <2>1. \A g : FieldTotal("revenue", FinancialOverview(q, g)) = AverageCheck(r).revenue
      BY <1>1, FinancesAddUp
    <2>2. \A periods \in x.finance : x.check.revenue = FieldTotal("revenue", periods)
      BY <1>3, <2>1
    <2>3. QED
      BY <2>2 DEF FieldTotal
  <1>6. /\ x.check.service = Total(LAMBDA c : c.revenue, x.clients)
        /\ x.check.appointments = Total(LAMBDA c : c.visits, x.clients)
    <2> DEFINE row == [c \in ClientKeys(r) |-> ClientRow(r, c)]
    <2>1. row = [c \in ClientKeys(r) |-> ClientRow(r, c)]
      OBVIOUS
    <2> HIDE DEF row
    <2>2. /\ FieldTotal("revenue", ClientRows(r)) = PairAmount(PaidServices(r))
          /\ FieldTotal("visits", ClientRows(r)) = Cardinality(CompletedVisits(r))
      BY <2>1, ClientRowsAddUp
    <2>3. /\ x.check.service = FieldTotal("revenue", x.clients)
          /\ x.check.appointments = FieldTotal("visits", x.clients)
      BY <1>3, <1>4, <2>2
    <2>4. QED
      BY <2>3 DEF FieldTotal
  <1>7. /\ UNION {x.pareto[i] : i \in 1..3} = known
        /\ Cardinality(known) = Total(LAMBDA i : Cardinality(x.pareto[i]), 1..3)
    <2>1. known = {y \in ClientRows(r) : y.client # Null}
      BY <1>3
    <2> HIDE DEF known
    <2>2. /\ UNION {Pareto(r)[i] : i \in 1..3} = known
          /\ Cardinality(known) = Cardinality(Pareto(r)[1]) + Cardinality(Pareto(r)[2]) + Cardinality(Pareto(r)[3])
          /\ \A i \in 1..3 : Cardinality(Pareto(r)[i]) \in Int
      BY <2>1, ParetoIsAll
    <2>3. PartsTotal(Pareto(r)) = Cardinality(known)
      BY <2>2, PartsTotalIs
    <2>4. UNION {x.pareto[i] : i \in 1..3} = known /\ PartsTotal(x.pareto) = Cardinality(known)
      BY <1>3, <2>2, <2>3
    <2>5. QED
      BY <2>4 DEF PartsTotal
  <1>8. /\ Cardinality(x.frequency.one) = x.cards.one /\ Cardinality(x.frequency.few) = x.cards.few
        /\ Cardinality(x.frequency.many) = x.cards.many
    <2>1. /\ Cardinality(FrequencyRows(r).one) = VisitFrequency(r).one
          /\ Cardinality(FrequencyRows(r).few) = VisitFrequency(r).few
          /\ Cardinality(FrequencyRows(r).many) = VisitFrequency(r).many
      BY <1>1, FrequencyRowsAre
    <2>2. QED
      BY <1>3, <2>1
  <1>9. x.local.status # "unavailable" =>
          /\ total = Total(LAMBDA p : p.records, x.records)
          /\ total = Total(LAMBDA s : s.records, x.team)
          /\ x.local.counts.cancelled = Total(LAMBDA s : s.noShow, x.team)
    <2> DEFINE c == CountsOf(Booked(r))
    <2>1. ASSUME x.local.status # "unavailable" PROVE x.local.counts = c
      BY <1>3, <2>1, CardsAre
    <2>2. IsFiniteSet(Booked(r))
      BY CardsAre
    <2>3. c.total = Cardinality(Booked(r)) /\ c.cancelled = Cardinality({v \in Booked(r) : v.att = Cancelled})
      BY <2>2, CountsAre
    <2> HIDE DEF c
    <2>4. /\ FieldTotal("records", x.records) = Cardinality(Booked(r))
          /\ FieldTotal("records", x.team) = Cardinality(Booked(r))
          /\ FieldTotal("noShow", x.team) = Cardinality({v \in Booked(r) : v.att = Cancelled})
      <3>1. FieldTotal("records", RecordsByPeriod(r, "month")) = Cardinality(Booked(r))
        BY <1>1, RecordsAddUp
      <3>2. /\ FieldTotal("records", StaffRecords(r)) = Cardinality(Booked(r))
            /\ FieldTotal("noShow", StaffRecords(r)) = Cardinality({v \in Booked(r) : v.att = Cancelled})
        BY TeamAddsUp
      <3>3. QED
        BY <1>3, <3>1, <3>2
    <2>5. x.local.status # "unavailable" =>
            /\ total = FieldTotal("records", x.records) /\ total = FieldTotal("records", x.team)
            /\ x.local.counts.cancelled = FieldTotal("noShow", x.team)
      BY <2>1, <2>3, <2>4
    <2> HIDE DEF total
    <2>6. QED
      BY <2>5 DEF FieldTotal
  <1>10. x.check.appointments = x.load.unplaced + Total(LAMBDA c : c.visits, x.load.cells)
    <2>1. PeakLoad(r).unplaced + FieldTotal("visits", PeakLoad(r).cells) = Cardinality(CompletedVisits(r))
      BY LoadAddsUp
    <2>2. x.check.appointments = x.load.unplaced + FieldTotal("visits", x.load.cells)
      BY <1>3, <1>4, <2>1
    <2>3. QED
      BY <2>2 DEF FieldTotal
  <1>11. /\ x.check.appointments = Total(LAMBDA s : s.completed, x.masters)
         /\ x.check.service = Total(LAMBDA s : s.revenue, x.masters)
    <2>1. /\ FieldTotal("completed", StaffEfficiency(r)) = Cardinality(CompletedVisits(r))
          /\ FieldTotal("revenue", StaffEfficiency(r)) = PairAmount(PaidServices(r))
      BY MastersAddUp
    <2>2. /\ x.check.appointments = FieldTotal("completed", x.masters)
          /\ x.check.service = FieldTotal("revenue", x.masters)
      BY <1>3, <1>4, <2>1
    <2>3. QED
      BY <2>2 DEF FieldTotal
  <1>12. /\ x.check.goods = Total(LAMBDA s : s.revenue, x.sellers)
         /\ x.check.goods = Total(LAMBDA g : g.revenue, x.goods)
         /\ x.units = Total(LAMBDA g : g.units, x.goods)
    <2>1. FieldTotal("revenue", SellerRows(r)) = Amount(GoodsPayments(r))
      BY SellersAddUp
    <2>2. /\ FieldTotal("revenue", MergedGoods(r)) = Amount(GoodsPayments(r))
          /\ FieldTotal("units", MergedGoods(r)) = RevenueBlock(r).goods
      BY MergedAddUp
    <2>3. /\ x.check.goods = FieldTotal("revenue", x.sellers) /\ x.check.goods = FieldTotal("revenue", x.goods)
          /\ x.units = FieldTotal("units", x.goods)
      BY <1>3, <1>4, <2>1, <2>2
    <2>4. QED
      BY <2>3 DEF FieldTotal
  <1>13. x.everybody => x.check.goods = x.unlinked + x.linked /\ x.cohorts = x.newcomers
    <2>1. ASSUME Everybody(q)
          PROVE  x.check.goods = x.unlinked + x.linked
      <3>1. Amount(GoodsPayments(r)) = Amount(UnlinkedGoods(r))
              + Amount({p \in GoodsPayments(r) : \E v \in GoodsVisits(r) : Pays(p, v)})
        BY <1>1, <2>1, LinksAddUp
      <3>2. QED
        BY <1>3, <1>4, <3>1
    <2>2. ASSUME Everybody(q)
          PROVE  x.cohorts = x.newcomers
      <3>1. \A m \in Months : Cardinality(Cohort(r, m)) = ClientRecency(At(r, Period(FirstDay(m), LastDay(m)))).new
        BY <1>1, <2>2, NewcomersAre
      <3>2. QED
        BY <1>3, <3>1
    <2>3. QED
      BY <1>3, <2>1, <2>2
  <1>14. x.several = x.pairs
    BY <1>3, PairsAre
  <1>15. QED
    BY <1>5, <1>6, <1>7, <1>8, <1>9, <1>10, <1>11, <1>12, <1>13, <1>14 DEF SlicesOf

-----------------------------------------------------------------------------
(* All of them.                                                            *)

\* In every state every page and every report of a period tells the same money, visits and clients as
\* the cards of the overview, each by a query of its own: FiguresAgree holds whatever the answers of
\* YClients brought, in whatever order they came, and whenever the page is read.
THEOREM PagesTellOneStory == RSpec => []FiguresAgree
  <1>1. RowsInv /\ HistoryInv /\ TypedInv /\ AnswersInv => PagesAgree
    <2>1. PagesAgree <=> \A page \in {Pages(q, Resolved(q)) : q \in Questions} : OneStory(page)
      BY DEF PagesAgree
    <2>2. ASSUME RowsInv, HistoryInv, TypedInv, AnswersInv
          PROVE  \A q \in Questions : OneStory(Pages(q, Resolved(q)))
      BY <2>2, PageAgrees
    <2>3. QED
      BY <2>1, <2>2
  <1>2. RowsInv /\ HistoryInv /\ TypedInv /\ AnswersInv => ReportsAgree
    <2>1. ReportsAgree <=> \A x \in {OfReports(q, Resolved(q)) : q \in Questions} : SlicesOf(x)
      BY DEF ReportsAgree
    <2>2. ASSUME RowsInv, HistoryInv, TypedInv, AnswersInv
          PROVE  \A q \in Questions : SlicesOf(OfReports(q, Resolved(q)))
      BY <2>2, ReportAgrees
    <2>3. QED
      BY <2>1, <2>2
  <1>3. RowsInv /\ HistoryInv /\ TypedInv /\ AnswersInv => FiguresAgree
    BY <1>1, <1>2 DEF FiguresAgree
  <1>4. QED
    BY <1>3, HistoryInvariant, TypedInvariant, AnswersInvariant, PTL
=============================================================================
