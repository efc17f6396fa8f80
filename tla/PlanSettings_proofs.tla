------------------------- MODULE PlanSettings_proofs -------------------------
(***************************************************************************)
(* Proofs about PlanSettings: saves of a month queue up, the stored metrics*)
(* are those of the stored plan, and an untouched page changes nothing of  *)
(* a branch it shows exactly.                                              *)
(*                                                                         *)
(* Sums are opaque here: two of the same numbers are the same.  What a save*)
(* holds when it is ready is a function of the plan (Prepared), which the  *)
(* lock of the month keeps until it commits.                               *)
(*                                                                         *)
(* And proofs about Rebookings and Administrators: reading little finds    *)
(* every rebooking, and the pages mean the same people by an administrator *)
(* and the same visits by a shift.  The rows of Plan/fact add up to the    *)
(* branch (RowsAddUp): the segments of roles cut a period, each segment    *)
(* gives every rebooking to one administrator at most, so counting by      *)
(* people and counting by rebookings is one count.  And every page tells   *)
(* of the same ones (ScreensAgree).                                        *)
(***************************************************************************)
EXTENDS MCPlanSettings, Sums_proofs

Partial(S, T) == UNION {[R -> T] : R \in SUBSET S}
PageType == [shown : Partial(People, Nat), share : Partial(Branches, Nat), copied : BOOLEAN, typed : BOOLEAN]

\* A page names the people of its branches.
PageOK(pg) ==
  /\ pg \in PageType
  /\ \A p \in DOMAIN pg.shown : WorksAt[p] \in DOMAIN pg.share

MetricOK(m) ==
  /\ m.co \in Branches /\ m.who \in People \cup {Whole}
  /\ m.who # Whole => m.co = WorksAt[m.who]
  /\ ~m.own => m.value \in Nat

TypeInv ==
  /\ inputs \in Partial(People, Nat)
  /\ shares \in [Branches -> Nat]
  /\ \A m \in metrics : MetricOK(m)
  /\ DOMAIN page = Editors /\ \A e \in Editors : PageOK(page[e])
  /\ DOMAIN save = Editors

\* A save that is past the lock holds it.
LockHeld == \A e \in Editors : save[e].stage \in {"locked", "ready"} => lock = e

KeysApart == \A m \in metrics, n \in metrics : Key(m) = Key(n) => m = n

OwnAreComputed == \A m \in metrics : m.own => m \in Computed(inputs, shares)
ComputedAreThere == \A w \in Computed(inputs, shares) : \E m \in metrics : Key(m) = Key(w)

\* The imported metrics that tell an input.
Tells(m, bs) == m \in metrics /\ ~m.own /\ m.who # Whole /\ m.code = "clients" /\ m.co \in bs

\* A page that was loaded shows everybody whose input an imported metric may tell.
ToldAreShown ==
  \A e \in Editors : ~page[e].copied =>
    \A m \in metrics : Tells(m, DOMAIN page[e].share) => m.who \in DOMAIN page[e].shown

\* A branch with inputs has one for everybody.
ToldAreStored ==
  \A m \in metrics : Tells(m, Branches) /\ m.who \notin DOMAIN inputs =>
    \A p \in DOMAIN inputs : WorksAt[p] # m.co

\* What a save is about to write follows from its page and the plan as they stand;
\* only who had left is remembered from when it read.
PreparedFor(s, pg, plan, kept, ins, shs, ms) ==
  /\ \E C \in SUBSET (DOMAIN plan \ DOMAIN pg.shown) :
       s.inputs = [p \in DOMAIN pg.shown \cup C |-> Of(pg.shown, p, Of(plan, p, Blank))]
  /\ s.rows = {m \in Computed(s.inputs, pg.share) : Key(m) \notin {Key(k) : k \in kept}} \cup kept
  /\ s.goneInputs = {p \in DOMAIN ins : WorksAt[p] \in DOMAIN pg.share}
  /\ s.goneShares = {b \in DOMAIN pg.share : shs[b] # 0}
  /\ s.goneRows = {m \in ms : m.co \in DOMAIN pg.share}

PlanOf(e) == Snapshot(DOMAIN page[e].share)
KeptOf(e) == ImportedKept(page[e], PlanOf(e))
Prepared(e) == PreparedFor(save[e], page[e], PlanOf(e), KeptOf(e), inputs, shares, metrics)

ReadyArePrepared == \A e \in Editors : save[e].stage = "ready" => Prepared(e)

IInv ==
  /\ TypeInv /\ LockHeld /\ KeysApart /\ OwnAreComputed /\ ComputedAreThere
  /\ ToldAreShown /\ ToldAreStored /\ ReadyArePrepared

-----------------------------------------------------------------------------
(* Functions and numbers.                                                  *)

LEMMA PartialIs ==
  ASSUME NEW S, NEW T
  PROVE  \A f : f \in Partial(S, T) <=> DOMAIN f \subseteq S /\ f \in [DOMAIN f -> T]
  BY DEF Partial

LEMMA RoundedIs ==
  \A v \in Nat : Rounded(v) \in Nat /\ (v % 2 = 0 => Rounded(v) = v)
  BY DEF Rounded

LEMMA OfIs ==
  ASSUME NEW f, NEW p, NEW otherwise
  PROVE  Of(f, p, otherwise) = IF p \in DOMAIN f THEN f[p] ELSE otherwise
  BY DEF Of

LEMMA OfNat ==
  ASSUME NEW f \in Partial(People, Nat), NEW p, NEW otherwise \in Nat
  PROVE  Of(f, p, otherwise) \in Nat
  BY PartialIs DEF Of

-----------------------------------------------------------------------------
(* What is computed.                                                       *)

\* Every computed metric is about its branch, and about somebody with clients or the whole.
LEMMA RowsOfWhom ==
  ASSUME NEW b, NEW f, NEW share, NEW m \in BranchRows(b, f, share)
  PROVE  \/ m \in OfBranch(b, f, share)
         \/ \E p \in Staffed(b, f) : m \in OfPerson(p, f[p], share)
  BY DEF BranchRows

LEMMA OfBranchAre ==
  ASSUME NEW b, NEW f, NEW share, NEW m \in OfBranch(b, f, share)
  PROVE  m.co = b /\ m.who = Whole /\ m.code \in {"clients", "opz"} /\ m.own
  BY DEF OfBranch, Metric

LEMMA OfPersonAre ==
  ASSUME NEW p, NEW v, NEW share, NEW m \in OfPerson(p, v, share)
  PROVE  m.co = WorksAt[p] /\ m.who = p /\ m.code \in {"clients", "opz"} /\ m.own
  BY DEF OfPerson, Metric

LEMMA BranchRowsAre ==
  ASSUME NEW b, NEW f, NEW share, NEW m \in BranchRows(b, f, share)
  PROVE  m.co = b /\ m.own /\ m.who \in Staffed(b, f) \cup {Whole}
  <1>1. CASE m \in OfBranch(b, f, share)
    BY <1>1, OfBranchAre
  <1>2. ASSUME NEW p \in Staffed(b, f), m \in OfPerson(p, f[p], share)
        PROVE  m.co = b /\ m.own /\ m.who \in Staffed(b, f) \cup {Whole}
    BY <1>2, OfPersonAre DEF Staffed
  <1>3. QED
    BY <1>1, <1>2, RowsOfWhom

LEMMA ComputedIs ==
  ASSUME NEW f, NEW share
  PROVE  \A m : m \in Computed(f, share) <=> m.co \in DOMAIN share /\ m \in BranchRows(m.co, f, share[m.co])
  <1>1. \A m : m \in Computed(f, share) <=> \E b \in DOMAIN share : m \in BranchRows(b, f, share[b])
    BY DEF Computed
  <1>2. ASSUME NEW b, NEW m \in BranchRows(b, f, share[b]) PROVE m.co = b
    BY BranchRowsAre
  <1>3. QED
    BY <1>1, <1>2

\* No two computed metrics are about the same.
LEMMA ComputedApart ==
  ASSUME NEW f, NEW share, Whole \notin DOMAIN f,
         NEW m \in Computed(f, share), NEW n \in Computed(f, share), Key(m) = Key(n)
  PROVE  m = n
  <1> DEFINE b == m.co
  <1>1. m.co = n.co /\ m.who = n.who /\ m.code = n.code
    BY DEF Key
  <1>2. m \in BranchRows(b, f, share[b]) /\ n \in BranchRows(b, f, share[b])
    BY <1>1, ComputedIs
  <1> HIDE DEF b
  <1>3. \A p \in Staffed(b, f) : p # Whole
    BY DEF Staffed
  <1>4. CASE m \in OfBranch(b, f, share[b]) /\ n \in OfBranch(b, f, share[b])
    <2>1. \A c, v : Metric(b, Whole, c, v).code = c
      BY DEF Metric
    <2>2. QED
      BY <1>1, <1>4, <2>1 DEF OfBranch
  <1>5. CASE m \in OfBranch(b, f, share[b]) /\ n \notin OfBranch(b, f, share[b])
    <2>1. PICK q \in Staffed(b, f) : n \in OfPerson(q, f[q], share[b])
      BY <1>2, <1>5, RowsOfWhom
    <2>2. n.who = q /\ m.who = Whole
      BY <1>5, <2>1, OfPersonAre, OfBranchAre
    <2>3. QED
      BY <1>1, <1>3, <2>2
  <1>6. CASE m \notin OfBranch(b, f, share[b])
    <2>1. PICK p \in Staffed(b, f) : m \in OfPerson(p, f[p], share[b])
      BY <1>2, <1>6, RowsOfWhom
    <2>2. m.who = p
      BY <2>1, OfPersonAre
    <2>3. ASSUME n \in OfBranch(b, f, share[b]) PROVE FALSE
      <3>1. n.who = Whole
        BY <2>3, OfBranchAre
      <3>2. QED
        BY <1>1, <1>3, <2>2, <3>1
    <2>4. PICK q \in Staffed(b, f) : n \in OfPerson(q, f[q], share[b])
      BY <1>2, <2>3, RowsOfWhom
    <2>5. n.who = q
      BY <2>4, OfPersonAre
    <2>6. n \in OfPerson(p, f[p], share[b])
      BY <1>1, <2>2, <2>4, <2>5
    <2>7. QED
      <3>1. \A c, v : Metric(WorksAt[p], p, c, v).code = c
        BY DEF Metric
      <3>2. QED
        BY <1>1, <2>1, <2>6, <3>1 DEF OfPerson
  <1>7. QED
    BY <1>4, <1>5, <1>6

\* A branch's metrics depend on the inputs of its own people.
LEMMA SameInputs ==
  ASSUME NEW b, NEW f, NEW g, NEW share, Staffed(b, f) = Staffed(b, g),
         \A p \in Staffed(b, f) : f[p] = g[p]
  PROVE  BranchRows(b, f, share) = BranchRows(b, g, share)
  <1> DEFINE S == Staffed(b, f)
  <1>1. [p \in S |-> Rounded(f[p])] = [p \in S |-> Rounded(g[p])]
    OBVIOUS
  <1>2. [p \in S |-> Opz(f[p], share)] = [p \in S |-> Opz(g[p], share)]
    OBVIOUS
  <1>3. OfBranch(b, f, share) = OfBranch(b, g, share)
    BY <1>1, <1>2 DEF OfBranch
  <1>4. {OfPerson(p, f[p], share) : p \in S} = {OfPerson(p, g[p], share) : p \in S}
    OBVIOUS
  <1>5. QED
    BY <1>3, <1>4 DEF BranchRows

LEMMA SameStaffed ==
  ASSUME NEW b, NEW f, NEW g,
         \A p : WorksAt[p] = b => (p \in DOMAIN f <=> p \in DOMAIN g) /\ (p \in DOMAIN f => f[p] = g[p])
  PROVE  /\ Staffed(b, f) = Staffed(b, g)
         /\ \A p \in Staffed(b, f) : f[p] = g[p]
  BY DEF Staffed
-----------------------------------------------------------------------------
(* What a save and a page read.                                            *)

Told(m, bs) ==
  m \in metrics /\ m.co \in bs /\ m.who # Whole /\ m.code = "clients"
  /\ m.who \notin {p \in DOMAIN inputs : WorksAt[p] \in bs}

\* An own metric of a person is of one with an input.
LEMMA ToldAreImported ==
  ASSUME TypeInv, OwnAreComputed, NEW bs, NEW m, Told(m, bs)
  PROVE  Tells(m, bs) /\ m.who \in People /\ m.who \notin DOMAIN inputs /\ m.value \in Nat /\ m.co = WorksAt[m.who]
  <1>1. m.who \in People /\ m.co = WorksAt[m.who] /\ (~m.own => m.value \in Nat)
    BY DEF Told, TypeInv, MetricOK
  <1>2. m.who \notin DOMAIN inputs
    BY <1>1 DEF Told
  <1>3. ASSUME m.own PROVE FALSE
    <2>1. m \in BranchRows(m.co, inputs, shares[m.co])
      BY <1>3, ComputedIs DEF OwnAreComputed, Told
    <2>2. m.who \in Staffed(m.co, inputs)
      BY <2>1, BranchRowsAre DEF Told
    <2>3. QED
      BY <1>2, <2>2 DEF Staffed
  <1>4. QED
    BY <1>1, <1>2, <1>3 DEF Told, Tells

LEMMA SnapshotIs ==
  ASSUME TypeInv, OwnAreComputed, KeysApart, NEW bs
  PROVE  /\ Snapshot(bs) \in Partial(People, Nat)
         /\ \A p \in DOMAIN Snapshot(bs) : WorksAt[p] \in bs
         /\ \A p \in DOMAIN inputs : WorksAt[p] \in bs => p \in DOMAIN Snapshot(bs) /\ Snapshot(bs)[p] = inputs[p]
         /\ \A m : Told(m, bs) => m.who \in DOMAIN Snapshot(bs) /\ Snapshot(bs)[m.who] = m.value
         /\ \A p \in DOMAIN Snapshot(bs) : p \in DOMAIN inputs \/ \E m : Told(m, bs) /\ m.who = p
  <1> DEFINE stored == {p \in DOMAIN inputs : WorksAt[p] \in bs}
             told == {m \in metrics : m.co \in bs /\ m.who # Whole /\ m.code = "clients" /\ m.who \notin stored}
             plan == Snapshot(bs)
             teller(p) == CHOOSE m \in told : m.who = p
  <1>1. \A m : m \in told <=> Told(m, bs)
    BY DEF Told
  <1>2. plan = [p \in stored \cup {m.who : m \in told} |-> IF p \in stored THEN inputs[p] ELSE teller(p).value]
    BY DEF Snapshot
  <1>3. ASSUME NEW m \in told, NEW n \in told, m.who = n.who PROVE m = n
    <2>1. m.co = n.co /\ m.code = n.code /\ m \in metrics /\ n \in metrics
      BY <1>1, <1>3, ToldAreImported
    <2>2. Key(m) = Key(n)
      BY <1>3, <2>1 DEF Key
    <2>3. QED
      BY <2>1, <2>2 DEF KeysApart
  <1>4. ASSUME NEW m \in told PROVE teller(m.who) = m
    BY <1>3
  <1>5. stored \subseteq People /\ \A p \in stored : inputs[p] \in Nat /\ WorksAt[p] \in bs
    BY PartialIs DEF TypeInv
  <1>6. \A m \in told : m.who \notin stored /\ m.who \in People /\ m.value \in Nat /\ WorksAt[m.who] \in bs
    BY <1>1, ToldAreImported DEF Told
  <1> HIDE DEF stored, told, teller, plan
  <1>7. DOMAIN plan = stored \cup {m.who : m \in told}
    BY <1>2
  <1>8. \A p \in stored : plan[p] = inputs[p]
    BY <1>2, <1>7
  <1>9. \A m \in told : plan[m.who] = m.value
    BY <1>2, <1>4, <1>6, <1>7
  <1>10. plan \in Partial(People, Nat)
    <2>1. \A p \in DOMAIN plan : p \in People /\ plan[p] \in Nat
      BY <1>5, <1>6, <1>7, <1>8, <1>9
    <2>2. plan \in [DOMAIN plan -> Nat]
      BY <1>2, <1>7, <2>1
    <2>3. QED
      BY <2>1, <2>2, PartialIs
  <1>11. QED
    BY <1>1, <1>5, <1>6, <1>7, <1>8, <1>9, <1>10 DEF plan, stored
LEMMA FreshIs ==
  ASSUME TypeInv, OwnAreComputed, KeysApart, NEW e \in Editors
  PROVE  LET pg == Fresh(e)
             bs == Sees[e] \ left
             plan == Snapshot(bs)
         IN  /\ PageOK(pg) /\ pg.copied = FALSE
             /\ DOMAIN pg.share = bs /\ \A b \in bs : pg.share[b] = Rounded(shares[b])
             /\ DOMAIN plan \subseteq DOMAIN pg.shown
             /\ \A p \in DOMAIN pg.shown : pg.shown[p] = Rounded(Of(plan, p, Blank))
  <1> DEFINE bs == Sees[e] \ left
             plan == Snapshot(bs)
             there == {p \in People : WorksAt[p] \in bs /\ (p \notin fired \/ p \in DOMAIN plan)}
             shown == [p \in there |-> Rounded(Of(plan, p, Blank))]
             share == [b \in bs |-> Rounded(shares[b])]
             pg == Fresh(e)
  <1>1. pg = [shown |-> shown, share |-> share, copied |-> FALSE, typed |-> FALSE]
    BY DEF Fresh, ShownInputs, ShownShares
  <1>2. bs \subseteq Branches
    BY ConstantsAssumption DEF ConstantsAssumption
  <1>3. plan \in Partial(People, Nat) /\ \A p \in DOMAIN plan : WorksAt[p] \in bs
    BY SnapshotIs
  <1> HIDE DEF bs, plan
  <1>4. DOMAIN plan \subseteq there
    BY <1>3, PartialIs
  <1>5. \A p : Of(plan, p, Blank) \in Nat
    BY <1>3, OfNat DEF Blank
  <1>6. shown \in [there -> Nat]
    BY <1>5, RoundedIs
  <1>7. share \in [bs -> Nat]
    BY <1>2, RoundedIs DEF TypeInv
  <1>8. shown \in Partial(People, Nat) /\ share \in Partial(Branches, Nat)
    BY <1>2, <1>6, <1>7 DEF Partial
  <1>9. DOMAIN shown = there /\ DOMAIN share = bs
    OBVIOUS
  <1>10. \A p \in DOMAIN shown : shown[p] = Rounded(Of(plan, p, Blank)) /\ WorksAt[p] \in bs
    OBVIOUS
  <1>11. \A b \in bs : share[b] = Rounded(shares[b])
    OBVIOUS
  <1> HIDE DEF shown, share, there, pg
  <1>12. pg.shown = shown /\ pg.share = share /\ pg.copied = FALSE
    BY <1>1
  <1>13. pg \in PageType
    BY <1>1, <1>8 DEF PageType
  <1>14. PageOK(pg)
    BY <1>9, <1>10, <1>12, <1>13 DEF PageOK
  <1>15. QED
    BY <1>4, <1>9, <1>10, <1>11, <1>12, <1>14 DEF pg, plan, bs

LEMMA CopiedIs ==
  ASSUME NEW e \in Editors, NEW pg,
         LET bs == Sees[e] \ left
             there == {p \in People : WorksAt[p] \in bs /\ p \notin fired}
         IN  pg = [shown |-> ShownInputs(there, Template), share |-> ShownShares(bs, TemplateShare),
                   copied |-> TRUE, typed |-> FALSE]
  PROVE  PageOK(pg) /\ pg.copied = TRUE
  <1> DEFINE bs == Sees[e] \ left
             there == {p \in People : WorksAt[p] \in bs /\ p \notin fired}
             shown == [p \in there |-> Rounded(Of(Template, p, Blank))]
             share == [b \in bs |-> Rounded(TemplateShare[b])]
  <1>1. bs \subseteq Branches
    BY ConstantsAssumption DEF ConstantsAssumption
  <1>2. shown \in [there -> Nat] /\ share \in [bs -> Nat]
    <2>1. \A p \in there : Of(Template, p, Blank) \in Nat
      BY ConstantsAssumption DEF ConstantsAssumption, Of, Blank
    <2>2. \A b \in bs : TemplateShare[b] \in Nat
      BY <1>1, ConstantsAssumption DEF ConstantsAssumption
    <2>3. QED
      BY <2>1, <2>2, RoundedIs
  <1>3. \A p \in DOMAIN shown : WorksAt[p] \in DOMAIN share
    OBVIOUS
  <1>4. shown \in Partial(People, Nat) /\ share \in Partial(Branches, Nat)
    BY <1>1, <1>2 DEF Partial
  <1>5. pg = [shown |-> shown, share |-> share, copied |-> TRUE, typed |-> FALSE]
    BY DEF ShownInputs, ShownShares
  <1> HIDE DEF bs, there, shown, share
  <1>6. pg.shown = shown /\ pg.share = share /\ pg.copied = TRUE
    BY <1>5
  <1>7. pg \in PageType
    BY <1>4, <1>5 DEF PageType
  <1>8. QED
    BY <1>3, <1>6, <1>7 DEF PageOK

LEMMA SamePlan ==
  ASSUME NEW e \in Editors, page'[e] = page[e], inputs' = inputs, shares' = shares, metrics' = metrics
  PROVE  PlanOf(e)' = PlanOf(e) /\ KeptOf(e)' = KeptOf(e)
  <1>1. PlanOf(e)' = PlanOf(e)
    BY DEF PlanOf, Snapshot
  <1>2. KeptOf(e)' = KeptOf(e)
    BY <1>1 DEF KeptOf, ImportedKept, EditedBranches
  <1>3. QED
    BY <1>1, <1>2

LEMMA PreparedKept ==
  ASSUME NEW e \in Editors, Prepared(e), save'[e] = save[e], page'[e] = page[e],
         inputs' = inputs, shares' = shares, metrics' = metrics
  PROVE  Prepared(e)'
  BY SamePlan DEF Prepared

LEMMA KeptAre ==
  ASSUME NEW e \in Editors, NEW k \in KeptOf(e)
  PROVE  k \in metrics /\ ~k.own /\ k.co \in DOMAIN page[e].share /\ ~page[e].copied
  BY DEF KeptOf, ImportedKept

LEMMA ReadyInputs ==
  ASSUME TypeInv, OwnAreComputed, KeysApart, NEW e \in Editors, Prepared(e)
  PROVE  /\ save[e].inputs \in Partial(People, Nat)
         /\ DOMAIN page[e].shown \subseteq DOMAIN save[e].inputs
         /\ \A p \in DOMAIN save[e].inputs : WorksAt[p] \in DOMAIN page[e].share
  <1> DEFINE pg == page[e]
             f == save[e].inputs
             plan == PlanOf(e)
  <1>1. PICK C \in SUBSET (DOMAIN plan \ DOMAIN pg.shown) :
          f = [p \in DOMAIN pg.shown \cup C |-> Of(pg.shown, p, Of(plan, p, Blank))]
    BY DEF Prepared, PreparedFor
  <1>2. plan \in Partial(People, Nat) /\ \A p \in DOMAIN plan : WorksAt[p] \in DOMAIN pg.share
    BY SnapshotIs DEF PlanOf
  <1>3. pg.shown \in Partial(People, Nat) /\ \A p \in DOMAIN pg.shown : WorksAt[p] \in DOMAIN pg.share
    BY DEF TypeInv, PageOK, PageType
  <1> HIDE DEF pg, plan, f
  <1>4. DOMAIN f = DOMAIN pg.shown \cup C
    BY <1>1
  <1>5. DOMAIN f \subseteq People
    BY <1>2, <1>3, <1>4, PartialIs
  <1>6. \A p : Of(pg.shown, p, Of(plan, p, Blank)) \in Nat
    BY <1>2, <1>3, OfNat DEF Blank
  <1>7. f \in [DOMAIN f -> Nat]
    BY <1>1, <1>4, <1>6
  <1>8. f \in Partial(People, Nat)
    BY <1>5, <1>7, PartialIs
  <1>9. QED
    BY <1>2, <1>3, <1>4, <1>8 DEF pg, f

LEMMA ReadyRows ==
  ASSUME TypeInv, OwnAreComputed, KeysApart, NEW e \in Editors, Prepared(e)
  PROVE  LET f == save[e].inputs
             share == page[e].share
             rows == save[e].rows
         IN  /\ \A m \in rows : MetricOK(m) /\ m.co \in DOMAIN share
             /\ \A m \in rows : m.own => m \in Computed(f, share)
             /\ \A m \in rows : ~m.own => m \in metrics /\ ~page[e].copied
             /\ \A w \in Computed(f, share) : \E m \in rows : Key(m) = Key(w)
             /\ \A m \in rows, n \in rows : Key(m) = Key(n) => m = n
  <1> DEFINE f == save[e].inputs
             share == page[e].share
             rows == save[e].rows
             kept == KeptOf(e)
             new == {m \in Computed(f, share) : Key(m) \notin {Key(k) : k \in kept}}
  <1>1. rows = new \cup kept
    BY DEF Prepared, PreparedFor
  <1>2. f \in Partial(People, Nat) /\ \A p \in DOMAIN f : WorksAt[p] \in DOMAIN share
    BY ReadyInputs
  <1>3. DOMAIN f \subseteq People /\ Whole \notin DOMAIN f
    BY <1>2, PartialIs, ConstantsAssumption DEF ConstantsAssumption
  <1>4. share \in Partial(Branches, Nat)
    BY DEF TypeInv, PageOK, PageType
  <1>5. DOMAIN share \subseteq Branches
    BY <1>4, PartialIs
  <1>6. \A k \in kept : k \in metrics /\ ~k.own /\ k.co \in DOMAIN share /\ ~page[e].copied /\ MetricOK(k)
    BY KeptAre DEF TypeInv
  <1> HIDE DEF f, share, rows, kept
  <1>7. ASSUME NEW m \in Computed(f, share) PROVE MetricOK(m) /\ m.own /\ m.co \in DOMAIN share
    <2>1. m.co \in DOMAIN share /\ m \in BranchRows(m.co, f, share[m.co])
      BY ComputedIs
    <2>2. m.own /\ m.who \in Staffed(m.co, f) \cup {Whole}
      BY <2>1, BranchRowsAre
    <2>3. m.who # Whole => m.who \in People /\ WorksAt[m.who] = m.co
      BY <1>3, <2>2 DEF Staffed
    <2>4. QED
      BY <1>5, <2>1, <2>2, <2>3 DEF MetricOK
  <1>8. \A m \in new : m \in Computed(f, share) /\ \A k \in kept : Key(m) # Key(k)
    OBVIOUS
  <1>9. ASSUME NEW w \in Computed(f, share) PROVE \E m \in rows : Key(m) = Key(w)
    BY <1>1
  <1>10. ASSUME NEW m \in rows, NEW n \in rows, Key(m) = Key(n) PROVE m = n
    <2>1. CASE m \in new /\ n \in new
      BY <1>3, <1>8, <1>10, <2>1, ComputedApart
    <2>2. CASE m \in kept /\ n \in kept
      BY <1>6, <1>10, <2>2 DEF KeysApart
    <2>3. QED
      BY <1>1, <1>8, <1>10, <2>1, <2>2
  <1> HIDE DEF new
  <1>11. \A m \in rows : MetricOK(m) /\ m.co \in DOMAIN share
    BY <1>1, <1>6, <1>7, <1>8
  <1>12. \A m \in rows : m.own => m \in Computed(f, share)
    BY <1>1, <1>6, <1>8
  <1>13. \A m \in rows : ~m.own => m \in metrics /\ ~page[e].copied
    BY <1>1, <1>6, <1>7, <1>8
  <1>14. QED
    BY <1>9, <1>10, <1>11, <1>12, <1>13 DEF f, share, rows

\* Whatever the save will write was in the way of its deletes, or is in nobody's.
LEMMA PreparedFits ==
  ASSUME TypeInv, OwnAreComputed, KeysApart, NEW e \in Editors, Prepared(e)
  PROVE  ~Collides(e)
  <1> DEFINE s == save[e]
             pg == page[e]
  <1>1. /\ s.goneInputs = {p \in DOMAIN inputs : WorksAt[p] \in DOMAIN pg.share}
        /\ s.goneShares = {b \in DOMAIN pg.share : shares[b] # 0}
        /\ s.goneRows = {m \in metrics : m.co \in DOMAIN pg.share}
    BY DEF Prepared, PreparedFor
  <1>2. \A p \in DOMAIN s.inputs : WorksAt[p] \in DOMAIN pg.share
    BY ReadyInputs
  <1>3. \A m \in s.rows : m.co \in DOMAIN pg.share
    BY ReadyRows
  <1>4. \A m, n : Key(m) = Key(n) => m.co = n.co
    BY DEF Key
  <1>5. (DOMAIN s.inputs \cap DOMAIN inputs) \ s.goneInputs = {}
    BY <1>1, <1>2
  <1>6. {b \in DOMAIN pg.share : pg.share[b] # 0 /\ shares[b] # 0} \ s.goneShares = {}
    BY <1>1
  <1>7. {Key(m) : m \in s.rows} \cap {Key(m) : m \in metrics \ s.goneRows} = {}
    BY <1>1, <1>3, <1>4
  <1>8. QED
    BY <1>5, <1>6, <1>7 DEF Collides
-----------------------------------------------------------------------------
(* The commit of a save.                                                   *)

LEMMA NoPageOK == PageOK(NoPage) /\ DOMAIN NoPage.share = {} /\ NoPage.copied = FALSE
  <1>1. NoPage.shown = <<>> /\ NoPage.share = <<>> /\ NoPage.copied = FALSE
    BY DEF NoPage
  <1>2. <<>> \in Partial(People, Nat) /\ <<>> \in Partial(Branches, Nat) /\ DOMAIN <<>> = {}
    <2>1. <<>> \in [{} -> Nat] /\ DOMAIN <<>> = {}
      OBVIOUS
    <2>2. {} \in SUBSET People /\ {} \in SUBSET Branches
      OBVIOUS
    <2>3. QED
      BY <2>1, <2>2 DEF Partial
  <1>3. NoPage \in PageType
    BY <1>2 DEF NoPage, PageType
  <1>4. QED
    BY <1>1, <1>2, <1>3 DEF PageOK

LEMMA CommitIs ==
  ASSUME TypeInv, OwnAreComputed, KeysApart, NEW e \in Editors, Prepared(e), Commit(e)
  PROVE  LET f == save[e].inputs
             share == page[e].share
             rows == save[e].rows
         IN  /\ inputs' \in Partial(People, Nat) /\ shares' \in [Branches -> Nat]
             /\ \A p : p \in DOMAIN inputs' <=> p \in DOMAIN f \/ (p \in DOMAIN inputs /\ WorksAt[p] \notin DOMAIN share)
             /\ \A p \in DOMAIN f : inputs'[p] = f[p]
             /\ \A p \in DOMAIN inputs : WorksAt[p] \notin DOMAIN share => inputs'[p] = inputs[p]
             /\ \A b \in Branches : shares'[b] = IF b \in DOMAIN share THEN share[b] ELSE shares[b]
             /\ \A m : m \in metrics' <=> m \in rows \/ (m \in metrics /\ m.co \notin DOMAIN share)
             /\ \A m : m \in Computed(inputs', shares') <=>
                         IF m.co \in DOMAIN share THEN m \in Computed(f, share) ELSE m \in Computed(inputs, shares)
  <1> DEFINE f == save[e].inputs
             share == page[e].share
             rows == save[e].rows
             kept == {p \in DOMAIN inputs : WorksAt[p] \notin DOMAIN share}
  <1>1. /\ DOMAIN inputs \ save[e].goneInputs = kept
        /\ \A m : m \in metrics \ save[e].goneRows <=> m \in metrics /\ m.co \notin DOMAIN share
    BY DEF Prepared, PreparedFor
  <1>2. inputs' = [p \in kept \cup DOMAIN f |-> Of(f, p, Of(inputs, p, Blank))]
    BY <1>1 DEF Commit
  <1>3. shares' = [b \in Branches |-> IF b \in DOMAIN share THEN share[b] ELSE shares[b]]
    BY DEF Commit
  <1>4. \A m : m \in metrics' <=> m \in rows \/ (m \in metrics /\ m.co \notin DOMAIN share)
    BY <1>1 DEF Commit
  <1>5. f \in Partial(People, Nat) /\ \A p \in DOMAIN f : WorksAt[p] \in DOMAIN share
    BY ReadyInputs
  <1>6. share \in Partial(Branches, Nat) /\ inputs \in Partial(People, Nat) /\ shares \in [Branches -> Nat]
    BY DEF TypeInv, PageOK, PageType
  <1> HIDE DEF f, share, rows
  <1>7. \A p : p \in DOMAIN inputs' <=> p \in DOMAIN f \/ (p \in DOMAIN inputs /\ WorksAt[p] \notin DOMAIN share)
    BY <1>2
  <1>8. \A p \in DOMAIN f : inputs'[p] = f[p]
    BY <1>2 DEF Of
  <1>9. \A p \in DOMAIN inputs : WorksAt[p] \notin DOMAIN share => inputs'[p] = inputs[p]
    BY <1>2, <1>5 DEF Of
  <1>10. inputs' \in Partial(People, Nat)
    <2>1. \A p : Of(f, p, Of(inputs, p, Blank)) \in Nat
      BY <1>5, <1>6, OfNat DEF Blank
    <2>2. inputs' \in [DOMAIN inputs' -> Nat]
      BY <1>2, <2>1
    <2>3. DOMAIN inputs' \subseteq People
      BY <1>5, <1>6, <1>7, PartialIs
    <2>4. QED
      BY <2>2, <2>3, PartialIs
  <1>11. shares' \in [Branches -> Nat] /\ \A b \in Branches : shares'[b] = IF b \in DOMAIN share THEN share[b] ELSE shares[b]
    BY <1>3, <1>6, PartialIs
  <1>12. ASSUME NEW b, NEW x PROVE BranchRows(b, inputs', x) = IF b \in DOMAIN share THEN BranchRows(b, f, x) ELSE BranchRows(b, inputs, x)
    <2>1. CASE b \in DOMAIN share
      <3>1. \A p : WorksAt[p] = b => (p \in DOMAIN inputs' <=> p \in DOMAIN f) /\ (p \in DOMAIN inputs' => inputs'[p] = f[p])
        BY <1>7, <1>8, <2>1
      <3>2. BranchRows(b, inputs', x) = BranchRows(b, f, x)
        BY <3>1, SameStaffed, SameInputs
      <3>3. QED
        BY <2>1, <3>2
    <2>2. CASE b \notin DOMAIN share
      <3>1. \A p : WorksAt[p] = b => (p \in DOMAIN inputs' <=> p \in DOMAIN inputs) /\ (p \in DOMAIN inputs' => inputs'[p] = inputs[p])
        BY <1>5, <1>7, <1>9, <2>2
      <3>2. BranchRows(b, inputs', x) = BranchRows(b, inputs, x)
        BY <3>1, SameStaffed, SameInputs
      <3>3. QED
        BY <2>2, <3>2
    <2>3. QED
      BY <2>1, <2>2
  <1>13. ASSUME NEW m PROVE m \in Computed(inputs', shares') <=>
                         IF m.co \in DOMAIN share THEN m \in Computed(f, share) ELSE m \in Computed(inputs, shares)
    <2> DEFINE b == m.co
    <2>1. m \in Computed(inputs', shares') <=> b \in DOMAIN shares' /\ m \in BranchRows(b, inputs', shares'[b])
      BY ComputedIs
    <2>2. m \in Computed(f, share) <=> b \in DOMAIN share /\ m \in BranchRows(b, f, share[b])
      BY ComputedIs
    <2>3. m \in Computed(inputs, shares) <=> b \in DOMAIN shares /\ m \in BranchRows(b, inputs, shares[b])
      BY ComputedIs
    <2>4. DOMAIN shares = Branches /\ DOMAIN shares' = Branches /\ DOMAIN share \subseteq Branches
      BY <1>6, <1>11, PartialIs
    <2> HIDE DEF b
    <2>5. CASE b \in DOMAIN share
      BY <1>11, <1>12, <2>1, <2>2, <2>4, <2>5 DEF b
    <2>6. CASE b \notin DOMAIN share
      BY <1>11, <1>12, <2>1, <2>3, <2>4, <2>6 DEF b
    <2>7. QED
      BY <2>5, <2>6
  <1>14. QED
    BY <1>4, <1>7, <1>8, <1>9, <1>10, <1>11, <1>13 DEF f, share, rows

LEMMA CommitKeeps ==
  ASSUME IInv, NEW e \in Editors, Commit(e)
  PROVE  IInv'
  <1> DEFINE f == save[e].inputs
             share == page[e].share
             rows == save[e].rows
  <1>1. TypeInv /\ OwnAreComputed /\ KeysApart /\ Prepared(e)
    BY DEF IInv, ReadyArePrepared, Commit
  <1>2. /\ \A p : p \in DOMAIN inputs' <=> p \in DOMAIN f \/ (p \in DOMAIN inputs /\ WorksAt[p] \notin DOMAIN share)
        /\ \A m : m \in metrics' <=> m \in rows \/ (m \in metrics /\ m.co \notin DOMAIN share)
        /\ \A m : m \in Computed(inputs', shares') <=>
                     IF m.co \in DOMAIN share THEN m \in Computed(f, share) ELSE m \in Computed(inputs, shares)
    BY <1>1, CommitIs
  <1>3. /\ \A m \in rows : MetricOK(m) /\ m.co \in DOMAIN share
        /\ \A m \in rows : m.own => m \in Computed(f, share)
        /\ \A m \in rows : ~m.own => m \in metrics /\ ~page[e].copied
        /\ \A w \in Computed(f, share) : \E m \in rows : Key(m) = Key(w)
        /\ \A m \in rows, n \in rows : Key(m) = Key(n) => m = n
    BY <1>1, ReadyRows
  <1>4. \A p \in DOMAIN f : WorksAt[p] \in DOMAIN share
    BY <1>1, ReadyInputs
  <1>5. DOMAIN page[e].shown \subseteq DOMAIN f
    BY <1>1, ReadyInputs
  <1>6. /\ DOMAIN page' = Editors /\ page'[e] = NoPage /\ \A q \in Editors \ {e} : page'[q] = page[q]
        /\ DOMAIN save' = Editors /\ save'[e].stage = "idle" /\ \A q \in Editors \ {e} : save'[q] = save[q]
    BY <1>1 DEF Commit, Idle, TypeInv
  <1>7. \A q \in Editors : q # e => save[q].stage \notin {"locked", "ready"}
    BY DEF IInv, LockHeld, Commit
  <1>8. \A m, n : Key(m) = Key(n) => m.co = n.co
    BY DEF Key
  <1> HIDE DEF f, share, rows
  <1>9. TypeInv'
    <2>1. inputs' \in Partial(People, Nat) /\ shares' \in [Branches -> Nat]
      BY <1>1, CommitIs
    <2>2. \A m \in metrics' : MetricOK(m)
      BY <1>1, <1>2, <1>3 DEF TypeInv
    <2>3. \A q \in Editors : PageOK(page'[q])
      BY <1>1, <1>6, NoPageOK DEF TypeInv
    <2>4. QED
      BY <1>6, <2>1, <2>2, <2>3 DEF TypeInv
  <1>10. LockHeld'
    BY <1>6, <1>7 DEF LockHeld
  <1>11. KeysApart'
    BY <1>1, <1>2, <1>3, <1>8 DEF KeysApart
  <1>12. OwnAreComputed'
    BY <1>1, <1>2, <1>3 DEF OwnAreComputed
  <1>13. ComputedAreThere'
    <2>1. ASSUME NEW w \in Computed(inputs', shares') PROVE \E m \in metrics' : Key(m) = Key(w)
      <3>1. CASE w.co \in DOMAIN share
        BY <1>2, <1>3, <3>1
      <3>2. CASE w.co \notin DOMAIN share
        <4>1. PICK m \in metrics : Key(m) = Key(w)
          BY <1>2, <3>2 DEF IInv, ComputedAreThere
        <4>2. m \in metrics'
          BY <1>2, <1>8, <3>2, <4>1
        <4>3. QED
          BY <4>1, <4>2
      <3>3. QED
        BY <3>1, <3>2
    <2>2. QED
      BY <2>1 DEF ComputedAreThere
  <1>14. \A m \in metrics' : ~m.own => m \in metrics
    BY <1>2, <1>3
  <1>15. ToldAreShown'
    <2>1. ASSUME NEW q \in Editors, ~page'[q].copied, NEW m \in metrics',
                 ~m.own, m.who # Whole, m.code = "clients", m.co \in DOMAIN page'[q].share
          PROVE  m.who \in DOMAIN page'[q].shown
      <3>1. q # e
        BY <1>6, <2>1, NoPageOK
      <3>2. QED
        BY <1>6, <1>14, <2>1, <3>1 DEF IInv, ToldAreShown, Tells
    <2>2. QED
      BY <2>1 DEF ToldAreShown, Tells
  <1>16. ToldAreStored'
    <2>1. ASSUME NEW m \in metrics', ~m.own, m.who # Whole, m.code = "clients", m.co \in Branches,
                 m.who \notin DOMAIN inputs', NEW p \in DOMAIN inputs', WorksAt[p] = m.co
          PROVE  FALSE
      <3>1. m \in metrics
        BY <1>14, <2>1
      <3>2. CASE m.co \in DOMAIN share
        <4>1. ~page[e].copied /\ Tells(m, DOMAIN share)
          BY <1>2, <1>3, <2>1, <3>1, <3>2 DEF Tells
        <4>2. m.who \in DOMAIN page[e].shown
          BY <3>1, <4>1 DEF IInv, ToldAreShown, share
        <4>3. QED
          BY <1>2, <1>5, <2>1, <4>2
      <3>3. CASE m.co \notin DOMAIN share
        <4>1. WorksAt[m.who] = m.co
          BY <1>1, <2>1, <3>1 DEF TypeInv, MetricOK
        <4>2. m.who \notin DOMAIN inputs
          BY <1>2, <2>1, <3>3, <4>1
        <4>3. p \in DOMAIN inputs
          BY <1>2, <1>4, <2>1, <3>3
        <4>4. QED
          BY <2>1, <3>1, <4>2, <4>3 DEF IInv, ToldAreStored, Tells
      <3>4. QED
        BY <3>2, <3>3
    <2>2. QED
      BY <2>1 DEF ToldAreStored, Tells
  <1>17. ReadyArePrepared'
    BY <1>6, <1>7 DEF ReadyArePrepared
  <1>18. QED
    BY <1>9, <1>10, <1>11, <1>12, <1>13, <1>15, <1>16, <1>17 DEF IInv
-----------------------------------------------------------------------------
(* The other steps.                                                        *)

LEMMA InitKeeps == Init => IInv
  <1> SUFFICES ASSUME Init PROVE IInv
    OBVIOUS
  <1>1. DOMAIN inputs = {} /\ inputs \in Partial(People, Nat)
    <2>1. <<>> \in [{} -> Nat] /\ DOMAIN <<>> = {}
      OBVIOUS
    <2>2. {} \in SUBSET People
      OBVIOUS
    <2>3. QED
      BY <2>1, <2>2 DEF Partial, Init
  <1>2. \A m \in metrics : MetricOK(m) /\ ~m.own
    BY ConstantsAssumption DEF ConstantsAssumption, Init, MetricOK
  <1>3. \A q \in Editors : page[q] = NoPage /\ save[q].stage = "idle"
    BY DEF Init, Idle
  <1>4. TypeInv
    BY <1>1, <1>2, <1>3, NoPageOK DEF TypeInv, Init
  <1>5. KeysApart
    <2>1. \A m \in metrics, n \in metrics : Key(m) = Key(n) => n.co = m.co /\ n.who = m.who /\ n.code = m.code
      BY DEF Key
    <2>2. QED
      BY <2>1, ConstantsAssumption DEF ConstantsAssumption, Init, KeysApart
  <1>6. Computed(inputs, shares) = {}
    <2>1. \A b : Staffed(b, inputs) = {}
      BY <1>1 DEF Staffed
    <2>2. QED
      BY <2>1 DEF Computed, BranchRows
  <1>7. LockHeld /\ OwnAreComputed /\ ComputedAreThere /\ ReadyArePrepared
    BY <1>2, <1>3, <1>6 DEF LockHeld, OwnAreComputed, ComputedAreThere, ReadyArePrepared
  <1>8. ToldAreShown
    BY <1>3, NoPageOK DEF ToldAreShown, Tells
  <1>9. ToldAreStored
    BY <1>1 DEF ToldAreStored
  <1>10. QED
    BY <1>4, <1>5, <1>7, <1>8, <1>9 DEF IInv

\* A step that leaves the stored plan alone.
LEMMA PlanStands ==
  ASSUME IInv, inputs' = inputs, shares' = shares, metrics' = metrics
  PROVE  /\ KeysApart' /\ OwnAreComputed' /\ ComputedAreThere' /\ ToldAreStored'
         /\ inputs' \in Partial(People, Nat) /\ shares' \in [Branches -> Nat]
         /\ \A m \in metrics' : MetricOK(m)
  BY DEF IInv, TypeInv, KeysApart, OwnAreComputed, ComputedAreThere, ToldAreStored, Tells

\* Nobody who saves touches the page.
LEMMA PageKeeps ==
  ASSUME IInv, UNCHANGED <<inputs, shares, metrics, save, lock>>, NEW e \in Editors, NEW pg,
         save[e].stage = "idle", page' = [page EXCEPT ![e] = pg], PageOK(pg),
         ~pg.copied => \A m \in metrics : Tells(m, DOMAIN pg.share) => m.who \in DOMAIN pg.shown
  PROVE  IInv'
  <1>1. DOMAIN page' = Editors /\ page'[e] = pg /\ \A q \in Editors : q # e => page'[q] = page[q]
    BY DEF IInv, TypeInv
  <1>2. TypeInv'
    BY <1>1, PlanStands DEF IInv, TypeInv
  <1>3. ToldAreShown'
    <2>1. ASSUME NEW q \in Editors, ~page'[q].copied, NEW m \in metrics,
                 ~m.own, m.who # Whole, m.code = "clients", m.co \in DOMAIN page'[q].share
          PROVE  m.who \in DOMAIN page'[q].shown
      <3>1. CASE q = e
        BY <1>1, <2>1, <3>1 DEF Tells
      <3>2. CASE q # e
        BY <1>1, <2>1, <3>2 DEF IInv, ToldAreShown, Tells
      <3>3. QED
        BY <3>1, <3>2
    <2>2. QED
      BY <2>1 DEF ToldAreShown, Tells
  <1>4. LockHeld'
    BY DEF IInv, LockHeld
  <1>5. ReadyArePrepared'
    <2>1. ASSUME NEW q \in Editors, save'[q].stage = "ready" PROVE Prepared(q)'
      <3>1. q # e /\ Prepared(q)
        BY <2>1 DEF IInv, ReadyArePrepared
      <3>2. QED
        BY <1>1, <3>1, PreparedKept
    <2>2. QED
      BY <2>1 DEF ReadyArePrepared
  <1>6. QED
    BY <1>2, <1>3, <1>4, <1>5, PlanStands DEF IInv

\* A save moves on, and the plan stands.
LEMMA SaveKeeps ==
  ASSUME IInv, UNCHANGED <<inputs, shares, metrics, page>>, NEW e \in Editors, NEW s,
         save' = [save EXCEPT ![e] = s],
         s.stage \in {"locked", "ready"} => lock' = e,
         lock' = lock \/ (lock = Free /\ lock' = e) \/ (lock = e /\ lock' = Free),
         s.stage = "ready" => Prepared(e)'
  PROVE  IInv'
  <1>1. DOMAIN save' = Editors /\ save'[e] = s /\ \A q \in Editors : q # e => save'[q] = save[q]
    BY DEF IInv, TypeInv
  <1>2. TypeInv'
    BY <1>1, PlanStands DEF IInv, TypeInv
  <1>3. ToldAreShown'
    BY DEF IInv, ToldAreShown, Tells
  <1>4. LockHeld'
    BY <1>1, ConstantsAssumption DEF ConstantsAssumption, IInv, LockHeld
  <1>5. ReadyArePrepared'
    <2>1. ASSUME NEW q \in Editors, save'[q].stage = "ready" PROVE Prepared(q)'
      <3>1. CASE q = e
        BY <1>1, <2>1, <3>1
      <3>2. CASE q # e
        BY <1>1, <2>1, <3>2, PreparedKept DEF IInv, ReadyArePrepared
      <3>3. QED
        BY <3>1, <3>2
    <2>2. QED
      BY <2>1 DEF ReadyArePrepared
  <1>6. QED
    BY <1>2, <1>3, <1>4, <1>5, PlanStands DEF IInv
LEMMA PageSteps ==
  ASSUME IInv, NEW e \in Editors,
         \/ Load(e) \/ Copy(e)
         \/ \E p \in People, v \in Typed : Type(e, p, v)
         \/ \E b \in Branches, s \in Shares : TypeShare(e, b, s)
  PROVE  IInv'
  <1>1. PageOK(page[e]) /\ TypeInv /\ OwnAreComputed /\ KeysApart
    BY DEF IInv, TypeInv
  <1>2. CASE Load(e)
    <2> DEFINE pg == Fresh(e)
    <2>1. PageOK(pg) /\ DOMAIN Snapshot(DOMAIN pg.share) \subseteq DOMAIN pg.shown
      BY <1>1, FreshIs
    <2>2. \A m \in metrics : Tells(m, DOMAIN pg.share) => m.who \in DOMAIN pg.shown
      <3> DEFINE bs == DOMAIN pg.share
      <3>1. ASSUME NEW m \in metrics, Tells(m, bs) PROVE m.who \in DOMAIN Snapshot(bs)
        <4>1. WorksAt[m.who] \in bs
          BY <1>1, <3>1 DEF Tells, TypeInv, MetricOK
        <4>2. CASE m.who \in DOMAIN inputs
          BY <1>1, <4>1, <4>2, SnapshotIs
        <4>3. CASE m.who \notin DOMAIN inputs
          <5>1. Told(m, bs)
            BY <3>1, <4>3 DEF Tells, Told
          <5>2. QED
            BY <1>1, <5>1, SnapshotIs
        <4>4. QED
          BY <4>2, <4>3
      <3>2. QED
        BY <2>1, <3>1
    <2> HIDE DEF pg
    <2>3. page' = [page EXCEPT ![e] = pg] /\ save[e].stage = "idle" /\ UNCHANGED <<inputs, shares, metrics, save, lock>>
      BY <1>2 DEF Load, Still, pg
    <2>4. QED
      BY <2>1, <2>2, <2>3, PageKeeps
  <1>3. CASE Copy(e)
    <2>1. PICK pg : /\ page' = [page EXCEPT ![e] = pg]
                    /\ LET bs == Sees[e] \ left
                           there == {p \in People : WorksAt[p] \in bs /\ p \notin fired}
                       IN  pg = [shown |-> ShownInputs(there, Template), share |-> ShownShares(bs, TemplateShare),
                                 copied |-> TRUE, typed |-> FALSE]
      BY <1>3 DEF Copy
    <2>2. PageOK(pg) /\ pg.copied = TRUE
      BY <2>1, CopiedIs
    <2>3. save[e].stage = "idle" /\ UNCHANGED <<inputs, shares, metrics, save, lock>>
      BY <1>3 DEF Copy, Still
    <2>4. QED
      BY <2>1, <2>2, <2>3, PageKeeps
  <1>4. ASSUME NEW p \in People, NEW v \in Typed, Type(e, p, v) PROVE IInv'
    <2> DEFINE pg == [page[e] EXCEPT !.shown[p] = v, !.typed = TRUE]
    <2>1. p \in DOMAIN page[e].shown /\ v \in Nat
      BY <1>4, ConstantsAssumption DEF ConstantsAssumption, Type
    <2>2. page[e].shown \in Partial(People, Nat) /\ page[e] \in PageType
      BY <1>1 DEF PageOK, PageType
    <2>3. [page[e].shown EXCEPT ![p] = v] \in Partial(People, Nat)
      BY <2>1, <2>2, PartialIs
    <2>4. pg.shown = [page[e].shown EXCEPT ![p] = v] /\ pg.share = page[e].share /\ pg.copied = page[e].copied
      BY <2>2 DEF PageType
    <2>5. pg \in PageType
      BY <2>2, <2>3 DEF PageType
    <2>6. DOMAIN pg.shown = DOMAIN page[e].shown
      BY <2>4
    <2>7. page' = [page EXCEPT ![e] = pg] /\ save[e].stage = "idle" /\ UNCHANGED <<inputs, shares, metrics, save, lock>>
      BY <1>4 DEF Type, Still
    <2> HIDE DEF pg
    <2>8. PageOK(pg)
      BY <1>1, <2>4, <2>5, <2>6 DEF PageOK
    <2>9. ~pg.copied => \A m \in metrics : Tells(m, DOMAIN pg.share) => m.who \in DOMAIN pg.shown
      BY <2>4, <2>6 DEF IInv, ToldAreShown
    <2>10. QED
      BY <2>7, <2>8, <2>9, PageKeeps
  <1>5. ASSUME NEW b \in Branches, NEW s \in Shares, TypeShare(e, b, s) PROVE IInv'
    <2> DEFINE pg == [page[e] EXCEPT !.share[b] = s, !.typed = TRUE]
    <2>1. b \in DOMAIN page[e].share /\ s \in Nat
      BY <1>5, ConstantsAssumption DEF ConstantsAssumption, TypeShare
    <2>2. page[e].share \in Partial(Branches, Nat) /\ page[e] \in PageType
      BY <1>1 DEF PageOK, PageType
    <2>3. [page[e].share EXCEPT ![b] = s] \in Partial(Branches, Nat)
      BY <2>1, <2>2, PartialIs
    <2>4. pg.share = [page[e].share EXCEPT ![b] = s] /\ pg.shown = page[e].shown /\ pg.copied = page[e].copied
      BY <2>2 DEF PageType
    <2>5. pg \in PageType
      BY <2>2, <2>3 DEF PageType
    <2>6. DOMAIN pg.share = DOMAIN page[e].share
      BY <2>4
    <2>7. page' = [page EXCEPT ![e] = pg] /\ save[e].stage = "idle" /\ UNCHANGED <<inputs, shares, metrics, save, lock>>
      BY <1>5 DEF TypeShare, Still
    <2> HIDE DEF pg
    <2>8. PageOK(pg)
      BY <1>1, <2>4, <2>5, <2>6 DEF PageOK
    <2>9. ~pg.copied => \A m \in metrics : Tells(m, DOMAIN pg.share) => m.who \in DOMAIN pg.shown
      BY <2>4, <2>6 DEF IInv, ToldAreShown
    <2>10. QED
      BY <2>7, <2>8, <2>9, PageKeeps
  <1>6. QED
    BY <1>2, <1>3, <1>4, <1>5

LEMMA ReadIsPrepared ==
  ASSUME NEW e \in Editors, DOMAIN save = Editors, ReadPlan(e)
  PROVE  Prepared(e)'
  <1> DEFINE pg == page[e]
             plan == PlanOf(e)
             kept == KeptOf(e)
             C == CarriedOver(pg, plan)
             f == [p \in DOMAIN pg.shown \cup C |-> Of(pg.shown, p, Of(plan, p, Blank))]
             s == [stage |-> "ready", inputs |-> f,
                   rows |-> {m \in RowsOf(pg, f) : Key(m) \notin {Key(k) : k \in kept}} \cup kept,
                   goneInputs |-> {p \in DOMAIN inputs : WorksAt[p] \in DOMAIN pg.share},
                   goneShares |-> {b \in DOMAIN pg.share : shares[b] # 0},
                   goneRows |-> {m \in metrics : m.co \in DOMAIN pg.share}]
  <1>1. save' = [save EXCEPT ![e] = s] /\ UNCHANGED <<inputs, shares, metrics, page>>
    BY DEF ReadPlan, PlanOf, KeptOf
  <1>2. C \in SUBSET (DOMAIN plan \ DOMAIN pg.shown)
    BY DEF CarriedOver
  <1>3. PreparedFor(s, pg, plan, kept, inputs, shares, metrics)
    <2>1. s.inputs = f
      OBVIOUS
    <2>2. \E D \in SUBSET (DOMAIN plan \ DOMAIN pg.shown) :
            s.inputs = [p \in DOMAIN pg.shown \cup D |-> Of(pg.shown, p, Of(plan, p, Blank))]
      BY <1>2, <2>1
    <2>3. s.rows = {m \in Computed(s.inputs, pg.share) : Key(m) \notin {Key(k) : k \in kept}} \cup kept
      BY DEF RowsOf
    <2>4. /\ s.goneInputs = {p \in DOMAIN inputs : WorksAt[p] \in DOMAIN pg.share}
          /\ s.goneShares = {b \in DOMAIN pg.share : shares[b] # 0}
          /\ s.goneRows = {m \in metrics : m.co \in DOMAIN pg.share}
      OBVIOUS
    <2> HIDE DEF s
    <2>5. QED
      BY <2>2, <2>3, <2>4 DEF PreparedFor
  <1>4. save'[e] = s
    BY <1>1
  <1> HIDE DEF s
  <1>5. PlanOf(e)' = plan /\ KeptOf(e)' = kept
    BY <1>1, SamePlan
  <1> HIDE DEF plan, kept
  <1>6. QED
    BY <1>1, <1>3, <1>4, <1>5 DEF Prepared

LEMMA SaveSteps ==
  ASSUME IInv, NEW e \in Editors, Submit(e) \/ TakeLock(e) \/ ReadPlan(e) \/ Refuse(e) \/ Abort(e)
  PROVE  IInv'
  <1>1. CASE Submit(e)
    BY <1>1, SaveKeeps DEF Submit
  <1>2. CASE TakeLock(e)
    BY <1>2, SaveKeeps DEF TakeLock
  <1>3. CASE ReadPlan(e)
    <2>1. Prepared(e)'
      BY <1>3, ReadIsPrepared DEF IInv, TypeInv
    <2>2. lock = e
      BY <1>3 DEF ReadPlan, IInv, LockHeld
    <2>3. PICK s : save' = [save EXCEPT ![e] = s]
      BY <1>3 DEF ReadPlan
    <2>4. UNCHANGED <<inputs, shares, metrics, page, lock>>
      BY <1>3 DEF ReadPlan
    <2>5. QED
      BY <2>1, <2>2, <2>3, <2>4, SaveKeeps
  <1>4. CASE Refuse(e) \/ Abort(e)
    <2>1. /\ save' = [save EXCEPT ![e] = Idle] /\ Idle.stage = "idle"
          /\ lock' = lock \/ (lock = e /\ lock' = Free)
          /\ UNCHANGED <<inputs, shares, metrics, page>>
      BY <1>4 DEF Refuse, Abort, Release, Idle
    <2>2. QED
      BY <2>1, SaveKeeps
  <1>5. QED
    BY <1>1, <1>2, <1>3, <1>4

LEMMA Inductive == IInv /\ [Next]_vars => IInv'
  <1> SUFFICES ASSUME IInv, [Next]_vars PROVE IInv'
    OBVIOUS
  <1>1. CASE UNCHANGED <<inputs, shares, metrics, page, save, lock>>
    <2>1. TypeInv' /\ LockHeld' /\ ToldAreShown'
      BY <1>1 DEF IInv, TypeInv, LockHeld, ToldAreShown, Tells
    <2>2. ReadyArePrepared'
      BY <1>1, PreparedKept DEF IInv, ReadyArePrepared
    <2>3. QED
      BY <1>1, <2>1, <2>2, PlanStands DEF IInv
  <1>2. ASSUME NEW e \in Editors, Commit(e) PROVE IInv'
    BY <1>2, CommitKeeps
  <1>3. ASSUME NEW p \in People, Turn(p) PROVE IInv'
    BY <1>1, <1>3 DEF Turn
  <1>4. ASSUME NEW b \in Branches, Leave(b) PROVE IInv'
    BY <1>1, <1>4 DEF Leave
  <1>5. CASE UNCHANGED vars
    BY <1>1, <1>5 DEF vars
  <1>6. QED
    BY <1>2, <1>3, <1>4, <1>5, PageSteps, SaveSteps DEF Next

(* The inductive invariant: loads, typing, hires, departures and saves of a month in any order    *)
(* keep that metrics tell the plan, pages know what to show, and a ready save what to write.      *)
THEOREM Invariant == Spec => []IInv
  BY InitKeeps, Inductive, PTL DEF Spec

-----------------------------------------------------------------------------
(* The theorems.                                                           *)

(* The tables, the pages and the running saves of a month keep their types, and a save that is  *)
(* past the advisory lock (save_plan_settings) holds it alone.                                  *)
THEOREM TypeCorrect == Spec => [](TypeInv /\ LockHeld)
  <1>1. IInv => TypeInv /\ LockHeld
    BY DEF IInv
  <1>2. QED
    BY <1>1, Invariant, PTL

(* Whoever edits which branches, and whoever leaves meanwhile: a save that is about to insert   *)
(* meets no row that its deletes did not see, so no save raises PlanSettingsConflict for another.  *)
THEOREM SavesNeverCollide == Spec => []SavesQueue
  <1>1. IInv => SavesQueue
    BY PreparedFits DEF IInv, ReadyArePrepared, SavesQueue
  <1>2. QED
    BY <1>1, Invariant, PTL

(* The portal's own metrics are those computed from the stored inputs and coefficients, and of  *)
(* what these compute no metric is missing (save_plan_settings writes them together).           *)
THEOREM MetricsAreComputed == Spec => []MetricsTellThePlan
  <1>1. IInv => MetricsTellThePlan
    BY DEF IInv, OwnAreComputed, ComputedAreThere, MetricsTellThePlan
  <1>2. QED
    BY <1>1, Invariant, PTL

-----------------------------------------------------------------------------
(* A page as it was loaded, saved.                                         *)

\* In a branch shown exactly it edits nobody, keeps every imported metric, and writes the inputs it read.
LEMMA UntouchedIs ==
  ASSUME IInv, NEW e \in Editors, Prepared(e), page[e] = Fresh(e), NEW b \in DOMAIN page[e].share, ShownExactly(b)
  PROVE  LET pg == page[e]
             f == save[e].inputs
             plan == PlanOf(e)
         IN  /\ \A m \in metrics : ~m.own /\ m.co = b => m \in KeptOf(e)
             /\ \A p \in DOMAIN f : WorksAt[p] = b => f[p] = Of(plan, p, Blank)
             /\ DOMAIN plan \subseteq DOMAIN f
             /\ pg.share[b] = shares[b]
  <1> DEFINE pg == page[e]
             f == save[e].inputs
             plan == PlanOf(e)
             bs == DOMAIN pg.share
             alone == Snapshot({b})
  <1>1. TypeInv /\ OwnAreComputed /\ KeysApart
    BY DEF IInv
  <1>2. /\ pg.copied = FALSE /\ \A c \in bs : pg.share[c] = Rounded(shares[c])
        /\ DOMAIN plan \subseteq DOMAIN pg.shown
        /\ \A p \in DOMAIN pg.shown : pg.shown[p] = Rounded(Of(plan, p, Blank))
    BY <1>1, FreshIs DEF PlanOf
  <1>3. pg.share[b] = shares[b]
    <2>1. b \in Branches
      BY <1>1, PartialIs DEF TypeInv, PageOK, PageType
    <2>2. shares[b] \in Nat /\ shares[b] % 2 = 0
      BY <1>1, <2>1 DEF TypeInv, ShownExactly
    <2>3. QED
      BY <1>2, <2>2, RoundedIs
  <1>4. ASSUME NEW p, WorksAt[p] = b PROVE Rounded(Of(plan, p, Blank)) = Of(plan, p, Blank)
    <2>1. CASE p \notin DOMAIN plan
      BY <2>1, RoundedIs DEF Of, Blank
    <2>2. ASSUME p \in DOMAIN plan PROVE p \in DOMAIN alone /\ alone[p] = plan[p]
      <3>1. CASE p \in DOMAIN inputs
        <4>1. plan[p] = inputs[p]
          BY <1>1, <1>4, <3>1, SnapshotIs DEF PlanOf
        <4>2. p \in DOMAIN alone /\ alone[p] = inputs[p]
          BY <1>1, <1>4, <3>1, SnapshotIs
        <4>3. QED
          BY <4>1, <4>2
      <3>2. CASE p \notin DOMAIN inputs
        <4>1. PICK m : Told(m, bs) /\ m.who = p
          BY <1>1, <2>2, <3>2, SnapshotIs DEF PlanOf
        <4>2. plan[p] = m.value /\ m.co = b
          BY <1>1, <1>4, <4>1, SnapshotIs, ToldAreImported DEF PlanOf
        <4>3. Told(m, {b})
          BY <3>2, <4>1, <4>2 DEF Told
        <4>4. QED
          BY <1>1, <4>1, <4>2, <4>3, SnapshotIs
      <3>3. QED
        BY <3>1, <3>2
    <2>3. CASE p \in DOMAIN plan
      <3>1. alone \in Partial(People, Nat)
        BY <1>1, SnapshotIs
      <3>2. alone[p] \in Nat /\ alone[p] % 2 = 0
        BY <2>2, <2>3, <3>1, PartialIs DEF ShownExactly
      <3>3. QED
        BY <2>2, <2>3, <3>2, RoundedIs DEF Of
    <2>4. QED
      BY <2>1, <2>3
  <1> HIDE DEF alone
  <1>5. /\ \A p \in EditedPeople(pg, plan) : WorksAt[p] # b
        /\ b \notin EditedBranches(pg, plan)
    BY <1>2, <1>3, <1>4 DEF EditedPeople, EditedBranches
  <1>6. ASSUME NEW m \in metrics, ~m.own, m.co = b PROVE m \in KeptOf(e)
    <2>1. m.who # Whole => m.who \notin EditedPeople(pg, plan)
      BY <1>1, <1>5, <1>6 DEF TypeInv, MetricOK
    <2>2. QED
      BY <1>2, <1>5, <1>6, <2>1 DEF KeptOf, ImportedKept
  <1>7. PICK C \in SUBSET (DOMAIN plan \ DOMAIN pg.shown) :
          f = [p \in DOMAIN pg.shown \cup C |-> Of(pg.shown, p, Of(plan, p, Blank))]
    BY DEF Prepared, PreparedFor
  <1> HIDE DEF pg, f, plan
  <1>8. C = {}
    BY <1>2
  <1>9. DOMAIN f = DOMAIN pg.shown /\ \A p \in DOMAIN f : f[p] = pg.shown[p]
    BY <1>7, <1>8 DEF Of
  <1>10. \A p \in DOMAIN f : WorksAt[p] = b => f[p] = Of(plan, p, Blank)
    BY <1>2, <1>4, <1>9
  <1>11. QED
    BY <1>2, <1>3, <1>6, <1>9, <1>10 DEF pg, f, plan

\* Its own metrics are computed again.
LEMMA UntouchedRows ==
  ASSUME IInv, NEW e \in Editors, Prepared(e), page[e] = Fresh(e),
         NEW m \in metrics, m.co \in DOMAIN page[e].share, ShownExactly(m.co)
  PROVE  m \in save[e].rows
  <1> DEFINE share == page[e].share
             f == save[e].inputs
             plan == PlanOf(e)
             b == m.co
             kept == KeptOf(e)
  <1>1. TypeInv /\ OwnAreComputed /\ KeysApart /\ ToldAreStored
    BY DEF IInv
  <1>2. /\ \A n \in metrics : ~n.own /\ n.co = b => n \in kept
        /\ \A p \in DOMAIN f : WorksAt[p] = b => f[p] = Of(plan, p, Blank)
        /\ DOMAIN plan \subseteq DOMAIN f /\ share[b] = shares[b]
    BY UntouchedIs
  <1>3. save[e].rows = {n \in Computed(f, share) : Key(n) \notin {Key(k) : k \in kept}} \cup kept
    BY DEF Prepared, PreparedFor
  <1>4. CASE ~m.own
    BY <1>2, <1>3, <1>4
  <1>5. CASE m.own
    <2>1. m \in BranchRows(b, inputs, shares[b])
      BY <1>1, <1>5, ComputedIs DEF OwnAreComputed
    <2>2. PICK p0 \in DOMAIN inputs : WorksAt[p0] = b
      BY <2>1 DEF BranchRows, Staffed
    <2>3. b \in Branches /\ b \in DOMAIN share
      BY <1>1 DEF TypeInv, MetricOK
    <2>4. \A p \in DOMAIN inputs : WorksAt[p] = b => p \in DOMAIN f /\ f[p] = inputs[p]
      <3> SUFFICES ASSUME NEW p \in DOMAIN inputs, WorksAt[p] = b PROVE p \in DOMAIN f /\ f[p] = inputs[p]
        OBVIOUS
      <3>1. p \in DOMAIN plan /\ plan[p] = inputs[p]
        BY <1>1, <2>3, SnapshotIs DEF PlanOf
      <3>2. QED
        BY <1>2, <3>1 DEF Of
    <2>5. ASSUME NEW p \in DOMAIN f, WorksAt[p] = b, f[p] > 0 PROVE p \in DOMAIN inputs
      <3>1. p \in DOMAIN plan
        BY <1>2, <2>5 DEF Of, Blank
      <3>2. ASSUME p \notin DOMAIN inputs PROVE FALSE
        <4>1. PICK n : Told(n, DOMAIN share) /\ n.who = p
          BY <1>1, <3>1, <3>2, SnapshotIs DEF PlanOf
        <4>2. Tells(n, Branches) /\ n.co = b
          BY <1>1, <2>3, <2>5, <4>1, ToldAreImported DEF Tells
        <4>3. QED
          BY <1>1, <2>2, <3>2, <4>1, <4>2 DEF ToldAreStored, Tells
      <3>3. QED
        BY <3>2
    <2>6. Staffed(b, f) = Staffed(b, inputs) /\ \A p \in Staffed(b, f) : f[p] = inputs[p]
      BY <2>4, <2>5 DEF Staffed
    <2>7. BranchRows(b, f, share[b]) = BranchRows(b, inputs, shares[b])
      BY <1>2, <2>6, SameInputs
    <2>8. m \in Computed(f, share)
      BY <2>1, <2>3, <2>7, ComputedIs
    <2>9. \A k \in kept : Key(k) # Key(m)
      BY <1>1, <1>5, KeptAre DEF KeysApart
    <2>10. QED
      BY <1>3, <2>8, <2>9
  <1>6. QED
    BY <1>4, <1>5

\* What UneditedSaveIsSilent says of a branch in one step of one editor.
Silent(b) ==
  /\ \A m \in metrics : m.co = b => \E n \in metrics' : Key(n) = Key(m) /\ n.value = m.value
  /\ shares'[b] = shares[b]
  /\ \A p \in DOMAIN inputs : WorksAt[p] = b => Of(inputs', p, Blank) = inputs[p]

LEMMA UntouchedCommit ==
  ASSUME IInv, NEW e \in Editors, Commit(e), page[e] = Fresh(e), NEW b \in Branches, ShownExactly(b)
  PROVE  Silent(b)
  <1> DEFINE f == save[e].inputs
             share == page[e].share
             plan == PlanOf(e)
  <1>1. TypeInv /\ OwnAreComputed /\ KeysApart /\ Prepared(e)
    BY DEF IInv, ReadyArePrepared, Commit
  <1>2. /\ \A p : p \in DOMAIN inputs' <=> p \in DOMAIN f \/ (p \in DOMAIN inputs /\ WorksAt[p] \notin DOMAIN share)
        /\ \A p \in DOMAIN f : inputs'[p] = f[p]
        /\ \A p \in DOMAIN inputs : WorksAt[p] \notin DOMAIN share => inputs'[p] = inputs[p]
        /\ \A c \in Branches : shares'[c] = IF c \in DOMAIN share THEN share[c] ELSE shares[c]
        /\ \A m : m \in metrics' <=> m \in save[e].rows \/ (m \in metrics /\ m.co \notin DOMAIN share)
    BY <1>1, CommitIs
  <1>3. b \in DOMAIN share => /\ \A p \in DOMAIN f : WorksAt[p] = b => f[p] = Of(plan, p, Blank)
                              /\ DOMAIN plan \subseteq DOMAIN f
                              /\ share[b] = shares[b]
    BY <1>1, UntouchedIs
  <1>4. \A m \in metrics : m.co = b => m \in metrics'
    BY <1>1, <1>2, UntouchedRows
  <1>5. shares'[b] = shares[b]
    BY <1>2, <1>3
  <1>6. ASSUME NEW p \in DOMAIN inputs, WorksAt[p] = b PROVE Of(inputs', p, Blank) = inputs[p]
    <2>1. CASE b \in DOMAIN share
      <3>1. p \in DOMAIN plan /\ plan[p] = inputs[p]
        BY <1>1, <1>6, <2>1, SnapshotIs DEF PlanOf
      <3>2. QED
        BY <1>2, <1>3, <1>6, <2>1, <3>1 DEF Of
    <2>2. CASE b \notin DOMAIN share
      BY <1>2, <1>6, <2>2 DEF Of
    <2>3. QED
      BY <2>1, <2>2
  <1>7. QED
    BY <1>4, <1>5, <1>6 DEF Silent

LEMMA SilentStep ==
  ASSUME IInv, [Next]_vars, NEW e \in Editors, Ends(e), page[e] = Fresh(e), NEW b \in Branches, ShownExactly(b)
  PROVE  Silent(b)
  <1>1. CASE UNCHANGED <<inputs, shares, metrics>>
    BY <1>1 DEF Silent, Of
  <1>2. CASE Commit(e)
    BY <1>2, UntouchedCommit
  <1>3. ASSUME NEW q \in Editors, Commit(q) PROVE q = e
    <2>1. save[e].stage = "ready" /\ save[q].stage = "ready"
      BY <1>3 DEF Ends, Commit
    <2>2. QED
      BY <2>1 DEF IInv, LockHeld
  <1>4. CASE \E q \in Editors : Load(q) \/ Copy(q) \/ Submit(q) \/ TakeLock(q) \/ ReadPlan(q) \/ Refuse(q) \/ Abort(q)
    BY <1>1, <1>4 DEF Load, Copy, Submit, TakeLock, ReadPlan, Refuse, Abort
  <1>5. CASE \/ \E q \in Editors, p \in People, v \in Typed : Type(q, p, v)
             \/ \E q \in Editors, c \in Branches, s \in Shares : TypeShare(q, c, s)
             \/ \E p \in People : Turn(p)
             \/ \E c \in Branches : Leave(c)
             \/ UNCHANGED vars
    BY <1>1, <1>5 DEF Type, TypeShare, Turn, Leave, vars
  <1>6. QED
    BY <1>2, <1>3, <1>4, <1>5 DEF Next

(* Saving what a fresh page shows changes nothing of a branch whose numbers it shows exactly, also *)
(* after other saves, hires and departures and whatever the other branches of the page hold        *)
(* (fetch_plan_settings, _setting_display_value, then save_plan_settings).                         *)
THEOREM UntouchedPageIsSilent == Spec => UneditedSaveIsSilent
  <1>1. IInv /\ [Next]_vars =>
          [\A e \in Editors, b \in Branches :
             Ends(e) /\ page[e] = Fresh(e) /\ ShownExactly(b)
             => /\ \A m \in metrics : m.co = b => \E n \in metrics' : Key(n) = Key(m) /\ n.value = m.value
                /\ shares'[b] = shares[b]
                /\ \A p \in DOMAIN inputs : WorksAt[p] = b => Of(inputs', p, Blank) = inputs[p]]_vars
    BY SilentStep DEF Silent
  <1>2. QED
    BY <1>1, Invariant, PTL DEF Spec, UneditedSaveIsSilent

-----------------------------------------------------------------------------
(* The rebookings of Plan/fact. *)

\* What the proofs need of the mirror: a clock is less than a day off, and moments are numbers.
Mirrored ==
  /\ zone \in -2 .. 2
  /\ \A v \in appts : v.at \in Int /\ v.made \in Int /\ v.id \in Int

\* What Rebooked looks at: every visit that counts, and every booking with the visit it rebooks.
AllVisits == {v \in appts : v.done /\ Adm!Reported(v) /\ Adm!Happened(v)}
AllPairs ==
  {c \in appts \X AllVisits :
     c[1].client # Adm!Null /\ c[1].made <= now /\ c[2] \in Adm!Anchors(c[1], AllVisits)}

\* A clock that is less than a day off moves a moment by a day at most.
LEMMA ClockMoves ==
  ASSUME Mirrored, NEW m \in Int
  PROVE  /\ Adm!LocalDay(m) \in Int
         /\ Adm!DayOf(m) - 1 <= Adm!LocalDay(m)
         /\ Adm!LocalDay(m) <= Adm!DayOf(m) + 1
         /\ Adm!DayOf(m) \in Int
  BY DEF Mirrored, Adm!LocalDay, Adm!DayOf, Adm!Local

\* It keeps the order of moments.
LEMMA ClockKeepsOrder ==
  ASSUME Mirrored, NEW m \in Int, NEW n \in Int, m <= n
  PROVE  Adm!LocalDay(m) <= Adm!LocalDay(n)
  BY DEF Mirrored, Adm!LocalDay, Adm!DayOf, Adm!Local

\* Days of visits and bookings are numbers.
LEMMA DaysOf ==
  ASSUME Mirrored, NEW v \in appts
  PROVE  Adm!Day(v) \in Int /\ Adm!LocalDay(v.made) \in Int
  BY ClockMoves DEF Mirrored, Adm!Day

\* A visit of the booking's day or of the day before is within reach of it.
LEMMA AnchorReach ==
  ASSUME Mirrored, NEW b \in appts, NEW v \in appts,
         Adm!LocalDay(b.made) \in {Adm!Day(v), Adm!Day(v) + 1}
  PROVE  Adm!WithinReach(v, b)
<1>1. b.made \in Int /\ Adm!Day(v) \in Int
  BY DaysOf DEF Mirrored
<1>2. /\ Adm!LocalDay(b.made) \in Int
      /\ Adm!DayOf(b.made) - 1 <= Adm!LocalDay(b.made)
      /\ Adm!LocalDay(b.made) <= Adm!DayOf(b.made) + 1
      /\ Adm!DayOf(b.made) \in Int
  BY <1>1, ClockMoves
<1>3. QED
  BY <1>1, <1>2 DEF Adm!WithinReach

\* Of two visits, the later one is not on an earlier day.
LEMMA LaterDay ==
  ASSUME Mirrored, NEW v \in appts, NEW u \in appts, ~Adm!Later(v, u)
  PROVE  Adm!Day(v) <= Adm!Day(u)
<1>1. v.at \in Int /\ u.at \in Int /\ v.id \in Int /\ u.id \in Int
  BY DEF Mirrored
<1>2. v.at <= u.at
  BY <1>1 DEF Adm!Later
<1>3. QED
  BY <1>1, <1>2, ClockKeepsOrder DEF Adm!Day

\* What is read of the visits are visits that count.
LEMMA VisitsAreVisits ==
  ASSUME NEW from \in Int, NEW to \in Int, NEW cs
  PROVE  Adm!Visits(from, to, cs) \subseteq AllVisits
  BY DEF Adm!Visits, AllVisits

\* A visit within reach of a kept booking is read.
LEMMA KeptVisit ==
  ASSUME NEW from \in Int, NEW to \in Int, NEW cs, NEW b \in cs, NEW v \in AllVisits,
         v.client = b.client, Adm!WithinReach(v, b), Adm!Day(v) \in from - 2 .. to
  PROVE  v \in Adm!Visits(from, to, cs)
  BY DEF Adm!Visits, AllVisits, Adm!Reach

\* What anchors a booking among all visits.
LEMMA AnchorIs ==
  ASSUME Mirrored, NEW b \in appts, NEW vs \in SUBSET appts, NEW v \in Adm!Anchors(b, vs)
  PROVE  /\ v \in vs
         /\ v.client = b.client
         /\ Adm!Day(v) <= Adm!LocalDay(b.made)
         /\ Adm!Day(v) < Adm!Day(b)
         /\ Adm!LocalDay(b.made) \in {Adm!Day(v), Adm!Day(v) + 1}
         /\ Adm!WithinReach(v, b)
         /\ Adm!Day(v) \in Int /\ Adm!LocalDay(b.made) \in Int
         /\ \A u \in vs : u.client = b.client /\ Adm!Day(u) <= Adm!LocalDay(b.made) => Adm!Later(v, u)
<1>1. /\ v \in vs
      /\ v.client = b.client
      /\ Adm!Day(v) <= Adm!LocalDay(b.made)
      /\ Adm!Day(b) > Adm!Day(v)
      /\ Adm!LocalDay(b.made) \in {Adm!Day(v), Adm!Day(v) + 1}
      /\ \A u \in vs : u.client = b.client /\ Adm!Day(u) <= Adm!LocalDay(b.made) => Adm!Later(v, u)
  BY DEF Adm!Anchors
<1>2. Adm!Day(v) \in Int /\ Adm!LocalDay(b.made) \in Int /\ Adm!Day(b) \in Int
  BY <1>1, DaysOf
<1>3. QED
  BY <1>1, <1>2, AnchorReach

\* The visits that were read anchor a kept booking exactly where all visits would.
LEMMA AnchorSame ==
  ASSUME Mirrored, NEW from \in Int, NEW to \in Int, NEW cs \in SUBSET appts, NEW b \in cs,
         Adm!LocalDay(b.made) \in from - 1 .. to
  PROVE  Adm!Anchors(b, Adm!Visits(from, to, cs)) = Adm!Anchors(b, AllVisits)
<1> DEFINE vs == Adm!Visits(from, to, cs)
<1>1. /\ vs \subseteq AllVisits
      /\ AllVisits \subseteq appts
      /\ vs \in SUBSET appts
      /\ AllVisits \in SUBSET appts
      /\ b \in appts
  BY VisitsAreVisits DEF AllVisits
<1> HIDE DEF vs
<1>2. ASSUME NEW u \in AllVisits, u.client = b.client,
             Adm!LocalDay(b.made) \in {Adm!Day(u), Adm!Day(u) + 1}
      PROVE  u \in vs
  <2>1. u \in appts /\ Adm!WithinReach(u, b) /\ Adm!Day(u) \in Int
    BY <1>1, <1>2, AnchorReach, DaysOf
  <2>2. Adm!Day(u) \in from - 2 .. to
    BY <1>2, <2>1
  <2>3. QED
    BY <1>2, <2>1, <2>2, KeptVisit DEF vs
<1>3. ASSUME NEW v \in Adm!Anchors(b, AllVisits) PROVE v \in Adm!Anchors(b, vs)
  <2>1. /\ v \in AllVisits
        /\ v.client = b.client
        /\ Adm!Day(v) <= Adm!LocalDay(b.made)
        /\ Adm!Day(v) < Adm!Day(b)
        /\ Adm!LocalDay(b.made) \in {Adm!Day(v), Adm!Day(v) + 1}
        /\ Adm!Day(v) \in Int /\ Adm!LocalDay(b.made) \in Int
        /\ \A u \in AllVisits : u.client = b.client /\ Adm!Day(u) <= Adm!LocalDay(b.made) => Adm!Later(v, u)
    BY <1>1, AnchorIs
  <2>2. v \in vs
    BY <1>2, <2>1
  <2>3. Adm!Day(b) \in Int
    BY <1>1, DaysOf
  <2>4. QED
    BY <1>1, <2>1, <2>2, <2>3 DEF Adm!Anchors
<1>4. ASSUME NEW v \in Adm!Anchors(b, vs) PROVE v \in Adm!Anchors(b, AllVisits)
  <2>1. /\ v \in vs
        /\ v.client = b.client
        /\ Adm!Day(v) <= Adm!LocalDay(b.made)
        /\ Adm!Day(v) < Adm!Day(b)
        /\ Adm!LocalDay(b.made) \in {Adm!Day(v), Adm!Day(v) + 1}
        /\ Adm!Day(v) \in Int /\ Adm!LocalDay(b.made) \in Int
        /\ \A u \in vs : u.client = b.client /\ Adm!Day(u) <= Adm!LocalDay(b.made) => Adm!Later(v, u)
    BY <1>1, AnchorIs
  <2>2. ASSUME NEW u \in AllVisits, u.client = b.client, Adm!Day(u) <= Adm!LocalDay(b.made) PROVE Adm!Later(v, u)
    <3>1. CASE ~Adm!Later(v, u)
      <4>1. Adm!Day(v) <= Adm!Day(u) /\ Adm!Day(u) \in Int
        BY <1>1, <2>1, <3>1, LaterDay, DaysOf
      <4>2. Adm!LocalDay(b.made) \in {Adm!Day(u), Adm!Day(u) + 1}
        BY <2>1, <2>2, <4>1
      <4>3. QED
        BY <1>2, <2>1, <2>2, <4>2
    <3>2. QED
      BY <3>1
  <2>3. Adm!Day(b) \in Int
    BY <1>1, DaysOf
  <2>4. QED
    BY <1>1, <2>1, <2>2, <2>3 DEF Adm!Anchors
<1>5. QED
  BY <1>3, <1>4 DEF vs

\* The bookings the code keeps, each with the visit it rebooks.
ReadPairs(from, to) ==
  LET cs == Adm!Candidates(from, to)
      vs == Adm!Visits(from, to, cs)
  IN  {c \in cs \X vs : c[2] \in Adm!Anchors(c[1], vs)}

\* They are those of all whose booking lies in the period or on its eve.
LEMMA PairsRead ==
  ASSUME Mirrored, NEW from \in Int, NEW to \in Int
  PROVE  ReadPairs(from, to) = {c \in AllPairs : Adm!LocalDay(c[1].made) \in from - 1 .. to}
<1> DEFINE cs == Adm!Candidates(from, to)
           vs == Adm!Visits(from, to, cs)
<1>1. /\ cs \subseteq appts /\ cs \in SUBSET appts /\ vs \subseteq AllVisits
      /\ AllVisits \subseteq appts /\ AllVisits \in SUBSET appts
      /\ \A b \in cs : b.client # Adm!Null /\ b.made <= now /\ Adm!LocalDay(b.made) \in from - 1 .. to
  BY VisitsAreVisits DEF Adm!Candidates, AllVisits, Adm!Reach
<1>2. \A b \in cs : Adm!Anchors(b, vs) = Adm!Anchors(b, AllVisits)
  BY <1>1, AnchorSame
<1>3. \A b \in appts : Adm!Anchors(b, vs) \subseteq vs
  BY DEF Adm!Anchors
<1>4. ReadPairs(from, to) = {c \in cs \X vs : c[2] \in Adm!Anchors(c[1], vs)}
  BY DEF ReadPairs
<1>5. ASSUME NEW b \in appts, NEW v \in AllVisits, b.client # Adm!Null, b.made <= now,
             v \in Adm!Anchors(b, AllVisits), Adm!LocalDay(b.made) \in from - 1 .. to
      PROVE  b \in cs
  <2>1. /\ v.client = b.client /\ Adm!Day(v) < Adm!Day(b) /\ Adm!WithinReach(v, b)
        /\ Adm!LocalDay(b.made) \in {Adm!Day(v), Adm!Day(v) + 1}
        /\ Adm!Day(v) \in Int /\ Adm!LocalDay(b.made) \in Int
    BY <1>1, <1>5, AnchorIs
  <2>2. Adm!Day(v) \in (from - 1) - 1 .. to
    BY <1>5, <2>1
  <2>3. v \in appts /\ Adm!Visited(b, v)
    BY <2>1 DEF AllVisits, Adm!Visited
  <2>4. QED
    BY <1>5, <2>1, <2>2, <2>3 DEF Adm!Candidates, Adm!Reach
<1> HIDE DEF cs, vs
<1>6. ASSUME NEW b \in cs, NEW v \in vs, v \in Adm!Anchors(b, vs) PROVE <<b, v>> \in AllPairs
  BY <1>1, <1>2, <1>6 DEF AllPairs
<1>7. ASSUME NEW b \in appts, NEW v \in AllVisits, <<b, v>> \in AllPairs, Adm!LocalDay(b.made) \in from - 1 .. to
      PROVE  b \in cs /\ v \in vs /\ v \in Adm!Anchors(b, vs)
  <2>1. b.client # Adm!Null /\ b.made <= now /\ v \in Adm!Anchors(b, AllVisits)
    BY <1>7 DEF AllPairs
  <2>2. b \in cs
    BY <1>5, <1>7, <2>1
  <2>3. v \in Adm!Anchors(b, vs)
    BY <1>2, <2>1, <2>2
  <2>4. QED
    BY <1>3, <2>2, <2>3
<1>8. \A c \in AllPairs : c = <<c[1], c[2]>> /\ c[1] \in appts /\ c[2] \in AllVisits
  BY DEF AllPairs
<1>9. QED
  <2>1. ASSUME NEW c \in ReadPairs(from, to) PROVE c \in AllPairs /\ Adm!LocalDay(c[1].made) \in from - 1 .. to
    <3>1. c[1] \in cs /\ c[2] \in vs /\ c = <<c[1], c[2]>> /\ c[2] \in Adm!Anchors(c[1], vs)
      BY <1>4
    <3>2. QED
      BY <1>1, <1>6, <3>1
  <2>2. ASSUME NEW c \in AllPairs, Adm!LocalDay(c[1].made) \in from - 1 .. to PROVE c \in ReadPairs(from, to)
    <3>1. c[1] \in cs /\ c[2] \in vs /\ c[2] \in Adm!Anchors(c[1], vs) /\ c = <<c[1], c[2]>>
      BY <1>7, <1>8, <2>2
    <3>2. QED
      BY <1>4, <3>1
  <2>3. QED
    BY <2>1, <2>2

\* The first booking of a visit, among the pairs read or among all.
LEMMA FirstBooking ==
  ASSUME Mirrored, NEW from \in Int, NEW to \in Int, NEW x \in AllPairs, Adm!LocalDay(x[1].made) \in from .. to
  PROVE  (\A y \in ReadPairs(from, to) : y[2] = x[2] => Adm!Earlier(x[1], y[1]))
           <=> (\A y \in AllPairs : y[2] = x[2] => Adm!Earlier(x[1], y[1]))
<1>1. \A y \in ReadPairs(from, to) : y \in AllPairs
  BY PairsRead
<1>2. ASSUME NEW y \in AllPairs, y \notin ReadPairs(from, to), y[2] = x[2] PROVE Adm!Earlier(x[1], y[1])
  <2>0. AllVisits \in SUBSET appts
    BY DEF AllVisits
  <2>1. /\ x[1] \in appts /\ x[2] \in Adm!Anchors(x[1], AllVisits)
        /\ y[1] \in appts /\ y[2] \in Adm!Anchors(y[1], AllVisits)
    BY DEF AllPairs
  <2>2. /\ Adm!LocalDay(x[1].made) \in {Adm!Day(x[2]), Adm!Day(x[2]) + 1}
        /\ Adm!Day(x[2]) \in Int
        /\ Adm!LocalDay(x[1].made) \in Int
        /\ Adm!LocalDay(y[1].made) \in {Adm!Day(y[2]), Adm!Day(y[2]) + 1}
        /\ Adm!Day(y[2]) \in Int
        /\ Adm!LocalDay(y[1].made) \in Int
    BY <2>0, <2>1, AnchorIs
  <2>3. Adm!LocalDay(y[1].made) \notin from - 1 .. to
    BY <1>2, PairsRead
  <2>4. Adm!LocalDay(y[1].made) > Adm!LocalDay(x[1].made)
    BY <1>2, <2>2, <2>3
  <2>5. x[1].made \in Int /\ y[1].made \in Int
    BY <2>1 DEF Mirrored
  <2>6. ~(y[1].made <= x[1].made)
    BY <2>2, <2>4, <2>5, ClockKeepsOrder
  <2>7. QED
    BY <2>5, <2>6 DEF Adm!Earlier
<1>3. QED
  BY <1>1, <1>2

\* The client has been here before this visit.
Older(v) ==
  \E u \in appts : Adm!Visited(v, u) /\ Adm!Business(u) /\ Adm!Reported(u) /\ Adm!Day(u) < Adm!Day(v)

\* A visit up to the end of the period is the client's first by the history read up to
\* there exactly when it is his first of all.
LEMMA FirstOfAll ==
  ASSUME Mirrored, NEW to \in Int, NEW v \in appts, Adm!Day(v) <= to
  PROVE  Adm!First(v, to) = ~Older(v)
<1>1. Adm!Day(v) \in Int /\ \A u \in appts : Adm!Day(u) \in Int
  BY DaysOf
<1>2. Adm!First(v, to) <=> ~Older(v)
  BY <1>1 DEF Adm!First, Older, Adm!Visited
<1>3. QED
  BY <1>2 DEF Adm!First, Older

\* The events of a period are those of its days among all there ever were.
LEMMA EventsOfPeriod ==
  ASSUME Mirrored, NEW from \in Int, NEW to \in Int
  PROVE  Adm!Opz(from, to) = {e \in Adm!Rebooked : e.day \in from .. to}
<1> DEFINE rebooks == ReadPairs(from, to)
           A == {x \in rebooks : /\ Adm!LocalDay(x[1].made) >= from
                                 /\ \A y \in rebooks : y[2] = x[2] => Adm!Earlier(x[1], y[1])}
           B == {x \in AllPairs : \A y \in AllPairs : y[2] = x[2] => Adm!Earlier(x[1], y[1])}
<1>1. Adm!Opz(from, to) = {Adm!Event(c[1], c[2], Adm!First(c[2], to)) : c \in A}
  BY DEF Adm!Opz, ReadPairs
<1>2. Adm!Rebooked = {Adm!Event(c[1], c[2], ~Older(c[2])) : c \in B}
  BY DEF Adm!Rebooked, AllPairs, AllVisits, Older
<1>3. ASSUME NEW c \in AllPairs PROVE /\ c[1] \in appts /\ c[2] \in appts
                                      /\ Adm!LocalDay(c[1].made) \in Int
                                      /\ Adm!Day(c[2]) <= Adm!LocalDay(c[1].made)
                                      /\ Adm!Day(c[2]) \in Int
  <2>1. /\ AllVisits \in SUBSET appts
        /\ c[1] \in appts
        /\ c[2] \in Adm!Anchors(c[1], AllVisits)
        /\ c[2] \in AllVisits
    BY DEF AllPairs, AllVisits
  <2>2. QED
    BY <2>1, AnchorIs
<1>4. A \subseteq AllPairs /\ B \subseteq AllPairs
  BY PairsRead
<1>5. \A c \in AllPairs : c \in A <=> c \in B /\ Adm!LocalDay(c[1].made) \in from .. to
  <2> SUFFICES ASSUME NEW c \in AllPairs PROVE c \in A <=> c \in B /\ Adm!LocalDay(c[1].made) \in from .. to
    OBVIOUS
  <2>1. Adm!LocalDay(c[1].made) \in Int
    BY <1>3
  <2>2. c \in rebooks <=> Adm!LocalDay(c[1].made) \in from - 1 .. to
    BY PairsRead
  <2>3. CASE Adm!LocalDay(c[1].made) \in from .. to
    BY <2>1, <2>2, <2>3, FirstBooking
  <2>4. CASE Adm!LocalDay(c[1].made) \notin from .. to
    BY <2>1, <2>2, <2>4
  <2>5. QED
    BY <2>3, <2>4
<1>6. \A c \in A : Adm!First(c[2], to) = ~Older(c[2])
  <2> SUFFICES ASSUME NEW c \in A PROVE Adm!First(c[2], to) = ~Older(c[2])
    OBVIOUS
  <2>1. c \in AllPairs /\ Adm!LocalDay(c[1].made) \in from .. to
    BY <1>4, <1>5
  <2>2. c[2] \in appts /\ Adm!Day(c[2]) <= to
    BY <1>3, <2>1
  <2>3. QED
    BY <2>2, FirstOfAll
<1>7. \A c \in A : Adm!Event(c[1], c[2], Adm!First(c[2], to)) = Adm!Event(c[1], c[2], ~Older(c[2]))
  BY <1>6 DEF Adm!Event
<1>8. \A c \in AllPairs : Adm!Event(c[1], c[2], ~Older(c[2])).day = Adm!LocalDay(c[1].made)
  BY DEF Adm!Event
<1> HIDE DEF A, B, rebooks
<1>9. QED
  <2>1. ASSUME NEW c \in A
        PROVE  /\ Adm!Event(c[1], c[2], Adm!First(c[2], to)) \in Adm!Rebooked
               /\ Adm!Event(c[1], c[2], Adm!First(c[2], to)).day \in from .. to
    BY <1>2, <1>4, <1>5, <1>7, <1>8
  <2>2. ASSUME NEW c \in B, Adm!Event(c[1], c[2], ~Older(c[2])).day \in from .. to
        PROVE  Adm!Event(c[1], c[2], ~Older(c[2])) \in Adm!Opz(from, to)
    BY <1>1, <1>4, <1>5, <1>7, <1>8, <2>2
  <2>3. QED
    BY <1>1, <1>2, <2>1, <2>2

\* The mirror keeps its types.
LEMMA MirroredAlways == PlansSpec => []Mirrored
<1>1. PlansInit => Mirrored
  BY FactsAssumption DEF FactsAssumption, PlansInit, Adm!AdminInit, Mirrored
<1>2. Mirrored /\ [PlansNext]_<<part, vars, facts>> => Mirrored'
  <2> SUFFICES ASSUME Mirrored, [PlansNext]_<<part, vars, facts>> PROVE Mirrored'
    OBVIOUS
  <2>1. CASE UNCHANGED <<appts, zone>>
    BY <2>1 DEF Mirrored
  <2>2. ASSUME NEW a \in Answers, Adm!Arrive(a) PROVE Mirrored'
    BY <2>2, FactsAssumption DEF FactsAssumption, Adm!Arrive, Mirrored
  <2>3. QED
    BY <2>1, <2>2 DEF PlansNext, facts, Adm!AdminNext, Adm!SavePlan, Adm!MirrorShift,
                      Adm!MirrorDeparture
<1>3. QED
  BY <1>1, <1>2, PTL DEF PlansSpec

\* However little the code reads, a period's rebookings are those of its days among all
\* there ever were, for any visits and bookings and any clock of the branch.
THEOREM RebookingsAreTheRule == PlansSpec => []OpzIsTheRule
<1>1. Mirrored => OpzIsTheRule
  <2> SUFFICES ASSUME Mirrored, NEW p \in Adm!Periods
               PROVE  Adm!Opz(p[1], p[2]) = {e \in Adm!Rebooked : e.day \in p[1] .. p[2]}
    BY DEF OpzIsTheRule, Adm!OpzIsTheRule
  <2>1. p[1] \in Int /\ p[2] \in Int
    BY FactsAssumption DEF FactsAssumption, Adm!Periods
  <2>2. QED
    BY <2>1, EventsOfPeriod
<1>2. QED
  BY <1>1, MirroredAlways, PTL

-----------------------------------------------------------------------------
(* Who is an administrator, and who was on shift. *)

\* One row of a kind for a person and month, and shifts of a day.
Rosters ==
  /\ \A q, r \in plans : q.who = r.who /\ q.month = r.month /\ q.metric = r.metric => q = r
  /\ shifts \subseteq Slots

\* Rows and shifts stay so.
LEMMA RostersAlways == PlansSpec => []Rosters
<1>1. PlansInit => Rosters
  BY DEF PlansInit, Adm!AdminInit, Rosters
<1>2. Rosters /\ [PlansNext]_<<part, vars, facts>> => Rosters'
  <2> SUFFICES ASSUME Rosters, [PlansNext]_<<part, vars, facts>> PROVE Rosters'
    OBVIOUS
  <2>1. CASE UNCHANGED <<plans, shifts>>
    BY <2>1 DEF Rosters
  <2>2. ASSUME NEW r \in Plans, Adm!SavePlan(r) PROVE Rosters'
    BY <2>2 DEF Adm!SavePlan, Rosters
  <2>3. ASSUME NEW s \in Slots, Adm!MirrorShift(s) PROVE Rosters'
    BY <2>3 DEF Adm!MirrorShift, Rosters
  <2>4. QED
    BY <2>1, <2>2, <2>3 DEF PlansNext, facts, Adm!AdminNext, Adm!Arrive, Adm!staffing, Adm!MirrorDeparture
<1>3. QED
  BY <1>1, <1>2, PTL DEF PlansSpec

\* A shift covers a moment by the condition of PostgreSQL exactly when it does in Python,
\* a shift into the next day as well.
LEMMA CoversAlike ==
  ASSUME NEW s, s.day \in Int, s.from \in 0 .. 1, s.to \in 0 .. 1, NEW moment \in Int
  PROVE  Adm!Covers(s, moment) <=> Adm!CoversInSql(s, moment)
<1> DEFINE day == moment \div 2
           half == moment % 2
<1>1. moment = 2 * day + half /\ half \in 0 .. 1 /\ day \in Int
  OBVIOUS
<1>2. Adm!Covers(s, moment) <=>
        /\ 2 * s.day + s.from <= moment
        /\ moment < 2 * (IF s.to <= s.from THEN s.day + 1 ELSE s.day) + s.to
  BY DEF Adm!Covers
<1>3. Adm!CoversInSql(s, moment) <=>
        /\ s.day = day \/ s.day = day - 1
        /\ \/ s.to > s.from /\ s.day = day /\ half >= s.from /\ half < s.to
           \/ s.to <= s.from /\ ((s.day = day /\ half >= s.from) \/ (s.day # day /\ half < s.to))
  BY DEF Adm!CoversInSql, Adm!DayOf
<1> HIDE DEF day, half
<1>4. CASE s.to <= s.from
  BY <1>1, <1>2, <1>3, <1>4
<1>5. CASE s.to > s.from
  BY <1>1, <1>2, <1>3, <1>5
<1>6. QED
  BY <1>4, <1>5

\* The visits behind the services of a person, by either database.
InSql(p, from, to) == Adm!ServiceScope(p, from, to, TRUE)
InPython(p, from, to) == Adm!ServiceScope(p, from, to, FALSE)

\* The two ways to ask which visits an administrator's shifts cover give one answer.
LEMMA ScopesAlike ==
  ASSUME Mirrored, Rosters
  PROVE  \A p, from, to : InSql(p, from, to) = InPython(p, from, to)
<1> SUFFICES ASSUME NEW p, NEW from, NEW to
             PROVE  InSql(p, from, to) = InPython(p, from, to)
  OBVIOUS
<1>1. \A v \in Adm!CompletedVisits(from, to) : Adm!Local(v.at) \in Int
  BY DEF Mirrored, Adm!CompletedVisits, Adm!Local
<1>2. \A s \in shifts : s.day \in Int /\ s.from \in 0 .. 1 /\ s.to \in 0 .. 1
  BY FactsAssumption DEF FactsAssumption, Rosters
<1>3. \A v \in Adm!CompletedVisits(from, to) : \A s \in shifts :
        Adm!Covers(s, Adm!Local(v.at)) <=> Adm!CoversInSql(s, Adm!Local(v.at))
  BY <1>1, <1>2, CoversAlike
<1>4. QED
  BY <1>3 DEF InSql, InPython, Adm!ServiceScope

\* An administrator's services are those of the same visits on every database.
THEOREM ScopesAreOne == PlansSpec => [](\A p, from, to : InSql(p, from, to) = InPython(p, from, to))
<1>1. Mirrored /\ Rosters => \A p, from, to : InSql(p, from, to) = InPython(p, from, to)
  BY ScopesAlike
<1>2. QED
  BY <1>1, MirroredAlways, RostersAlways, PTL

\* The rows of the plan that tell the role of a person in a month: metrics, or inputs.
FromMetrics(p, m) == Adm!PlanRows(p, {m}, TRUE)
FromInputs(p, m) == Adm!PlanRows(p, {m}, FALSE)

AdministratorsOf(m) ==
  {p \in Adm!People : Adm!Relevant(p, Adm!FirstDay(m), Adm!LastDay(m)) /\ Adm!RoleIn(p, m) = "administrator"}

\* Of a set with one element, the roles are the role of the chosen one.
LEMMA OneRole ==
  ASSUME NEW rows, rows # {}, \A r, q \in rows : r = q
  PROVE  "administrator" \in {r.role : r \in rows} <=> (CHOOSE r \in rows : TRUE).role = "administrator"
<1>1. PICK r \in rows : TRUE
  OBVIOUS
<1>2. (CHOOSE q \in rows : TRUE) \in rows
  OBVIOUS
<1>3. (CHOOSE q \in rows : TRUE) = r /\ rows = {r}
  BY <1>1, <1>2
<1>4. {q.role : q \in rows} = {r.role}
  BY <1>3
<1>5. QED
  BY <1>3, <1>4

\* Those whom the editor lists are the administrators of the month.
LEMMA EditorsAlike ==
  ASSUME Rosters
  PROVE  \A m : Adm!EditorPeople(m) = AdministratorsOf(m)
<1> SUFFICES ASSUME NEW m, NEW p \in Adm!People
             PROVE  p \in Adm!EditorPeople(m) <=> p \in AdministratorsOf(m)
  BY DEF Adm!EditorPeople, AdministratorsOf
<1> DEFINE told == FromMetrics(p, m)
           typed == FromInputs(p, m)
           rows == IF told # {} THEN told ELSE typed
           category == IF told # {} THEN {r.role : r \in told}
                       ELSE IF typed # {} THEN {r.role : r \in typed} ELSE {Team[p].role}
<1>0. p \in Adm!EditorPeople(m)
        <=> /\ Adm!Relevant(p, Adm!FirstDay(m), Adm!LastDay(m))
            /\ "administrator" \in IF {r.role : r \in told} # {} THEN {r.role : r \in told}
                                   ELSE IF {r.role : r \in typed} # {} THEN {r.role : r \in typed}
                                   ELSE {Team[p].role}
  BY DEF Adm!EditorPeople, FromMetrics, FromInputs, Adm!PlanRows
<1>00. ({r.role : r \in told} # {} <=> told # {}) /\ ({r.role : r \in typed} # {} <=> typed # {})
  <2> HIDE DEF told, typed
  <2>1. QED
    OBVIOUS
<1>1. p \in Adm!EditorPeople(m)
        <=> Adm!Relevant(p, Adm!FirstDay(m), Adm!LastDay(m)) /\ "administrator" \in category
  <2> HIDE DEF told, typed
  <2>1. QED
    BY <1>0, <1>00
<1>2. Adm!RoleIn(p, m) = IF rows = {} THEN Team[p].role ELSE (CHOOSE r \in rows : TRUE).role
  BY DEF Adm!RoleIn, FromMetrics, FromInputs
<1>3. \A r, q \in told : r = q
  BY DEF Rosters, Adm!PlanRows, FromMetrics
<1>4. \A r, q \in typed : r = q
  BY DEF Rosters, Adm!PlanRows, FromInputs
<1> HIDE DEF told, typed
<1>5. CASE told # {}
  BY <1>1, <1>2, <1>3, <1>5, OneRole DEF AdministratorsOf
<1>6. CASE told = {} /\ typed # {}
  BY <1>1, <1>2, <1>4, <1>6, OneRole DEF AdministratorsOf
<1>7. CASE told = {} /\ typed = {}
  BY <1>1, <1>2, <1>7 DEF AdministratorsOf
<1>8. QED
  BY <1>5, <1>6, <1>7

\* The editor of additional rebookings lists those whom Plan/fact takes for administrators
\* of the month, and all of them.
THEOREM EditorListsAdministrators == PlansSpec => [](\A m : Adm!EditorPeople(m) = AdministratorsOf(m))
<1>1. Rosters => \A m : Adm!EditorPeople(m) = AdministratorsOf(m)
  BY EditorsAlike
<1>2. QED
  BY <1>1, RostersAlways, PTL

-----------------------------------------------------------------------------
\* The behaviours that the run checks are behaviours of PlanSettings.
THEOREM PlansIsPlan == PlansSpec => Spec
<1>1. PlansInit => Init
  BY DEF PlansInit
<1>2. [PlansNext]_<<part, vars, facts>> => [Next]_vars
  BY DEF PlansNext
<1>3. QED
  BY <1>1, <1>2, PTL DEF PlansSpec, Spec

-----------------------------------------------------------------------------
(* What the rows of Plan/fact are read from. *)

\* The operators of the library mean the same in the instance.
LEMMA LibraryIs ==
  /\ \A S : Adm!Cardinality(S) = Cardinality(S)
  /\ \A S : Adm!Min(S) = Min(S) /\ Adm!Max(S) = Max(S)
  BY DEF Adm!Cardinality, Cardinality, Adm!Min, Min, Adm!Max, Max

\* Finitely many visits, each with an id of its own, the rows of plans, and a branch that the
\* calendar does not leave.
Books ==
  /\ IsFiniteSet(appts) /\ \A v, w \in appts : v.id = w.id => v = w
  /\ plans \subseteq Plans /\ opened = Min(Days) - 1

\* They stay so.
LEMMA BooksAlways == PlansSpec => []Books
<1>1. PlansInit => Books
  BY FS_EmptySet, LibraryIs DEF PlansInit, Adm!AdminInit, Books
<1>2. Books /\ [PlansNext]_<<part, vars, facts>> => Books'
  <2> SUFFICES ASSUME Books, [PlansNext]_<<part, vars, facts>> PROVE Books'
    OBVIOUS
  <2>1. CASE UNCHANGED <<appts, plans, opened>>
    BY <2>1 DEF Books
  <2>2. ASSUME NEW a \in Answers, Adm!Arrive(a), UNCHANGED plans PROVE Books'
    BY <2>2, FS_AddElement DEF Adm!Arrive, Books
  <2>3. ASSUME NEW r \in Plans, Adm!SavePlan(r) PROVE Books'
    BY <2>3 DEF Adm!SavePlan, Books
  <2>4. QED
    BY <2>1, <2>2, <2>3 DEF PlansNext, facts, Adm!AdminNext, Adm!staffing, Adm!MirrorShift, Adm!MirrorDeparture
<1>3. QED
  BY <1>1, <1>2, PTL DEF PlansSpec

-----------------------------------------------------------------------------
(* Months. *)

\* Of a number and a length: the multiples of the length on either side.
LEMMA Division ==
  ASSUME NEW k \in Nat \ {0}, NEW d \in Int
  PROVE  /\ d \div k \in Int /\ (d \div k) * k <= d /\ d <= (d \div k) * k + k - 1
         /\ \A m \in Int : m * k \in Int /\ (m * k <= d <=> m <= d \div k) /\ (m * k + k - 1 >= d <=> m >= d \div k)
<1> DEFINE q == d \div k
<1>1. q \in Int /\ q * k <= d /\ d <= q * k + k - 1 /\ q * k \in Int
  OBVIOUS
<1> HIDE DEF q
<1>2. ASSUME NEW m \in Int
      PROVE  m * k \in Int /\ (m * k <= d <=> m <= q) /\ (m * k + k - 1 >= d <=> m >= q)
  <2>1. m * k \in Int /\ k \in Int /\ k > 0
    OBVIOUS
  <2>2. ASSUME m <= q PROVE m * k <= q * k
    BY <1>1, <2>1, <2>2
  <2>3. ASSUME m > q PROVE m * k >= q * k + k
    <3>1. (q + 1) * k = q * k + k
      BY <1>1, <2>1
    <3>2. m * k >= (q + 1) * k
      <4>1. m >= q + 1 /\ q + 1 \in Int
        BY <1>1, <2>3
      <4>2. QED
        BY <2>1, <4>1
    <3>3. QED
      BY <3>1, <3>2
  <2>4. ASSUME m < q PROVE m * k + k <= q * k
    <3>1. (m + 1) * k = m * k + k
      BY <2>1
    <3>2. (m + 1) * k <= q * k
      <4>1. m + 1 <= q /\ m + 1 \in Int
        BY <1>1, <2>4
      <4>2. QED
        BY <1>1, <2>1, <4>1
    <3>3. QED
      BY <3>1, <3>2
  <2>5. CASE m <= q
    <3>1. m < q \/ m = q
      BY <1>1, <2>5
    <3>2. QED
      BY <1>1, <2>1, <2>2, <2>4, <2>5, <3>1
  <2>6. CASE m > q
    BY <1>1, <2>1, <2>3, <2>6
  <2>7. QED
    BY <1>1, <2>5, <2>6
<1>3. QED
  BY <1>1, <1>2 DEF q

\* A day lies in its month and in no other, and months come in the order of their days.
LEMMA MonthIs ==
  ASSUME NEW d \in Int
  PROVE  /\ Adm!Month(d) \in Int
         /\ \A m \in Int : /\ Adm!FirstDay(m) \in Int /\ Adm!LastDay(m) \in Int /\ Adm!FirstDay(m) <= Adm!LastDay(m)
                           /\ Adm!FirstDay(m) <= d <=> m <= Adm!Month(d)
                           /\ Adm!LastDay(m) >= d <=> m >= Adm!Month(d)
<1>1. MonthDays \in Nat \ {0}
  BY CalendarAssumption DEF CalendarAssumption
<1>2. QED
  BY <1>1, Division DEF Adm!Month, Adm!FirstDay, Adm!LastDay

\* A period of the calendar.
Period(from, to) == from \in Days /\ to \in Days /\ from <= to

\* The days of a period are days of the calendar.
LEMMA PeriodIs ==
  ASSUME NEW from, NEW to, Period(from, to)
  PROVE  from \in Int /\ to \in Int /\ from .. to \subseteq Days
<1>1. PICK first \in Int, last \in Int : Days = first .. last
  BY CalendarAssumption, FactsAssumption DEF CalendarAssumption, FactsAssumption
<1>2. QED
  BY <1>1 DEF Period

\* The months of a period are those from the month of its first to that of its last day.
LEMMA MonthsOfPeriod ==
  ASSUME NEW from, NEW to, Period(from, to)
  PROVE  Adm!MonthsOf(from, to) = Adm!Month(from) .. Adm!Month(to) /\ Adm!Month(from) <= Adm!Month(to)
<1>1. from \in Int /\ to \in Int /\ from .. to \subseteq Days /\ from <= to
  BY PeriodIs DEF Period
<1>2. Adm!Month(from) \in Int /\ Adm!Month(to) \in Int
  BY <1>1, MonthIs
<1>3. Adm!Month(from) <= Adm!Month(to)
  <2>1. Adm!FirstDay(Adm!Month(from)) <= from /\ Adm!FirstDay(Adm!Month(from)) \in Int
    BY <1>1, <1>2, MonthIs
  <2>2. Adm!FirstDay(Adm!Month(from)) <= to
    BY <1>1, <2>1
  <2>3. QED
    BY <1>1, <1>2, <2>2, MonthIs
<1>4. \A m \in Adm!Months : m \in Int
  <2>1. \A d \in Days : d \in Int
    BY FactsAssumption DEF FactsAssumption
  <2>2. QED
    BY <2>1, MonthIs DEF Adm!Months
<1>5. ASSUME NEW m \in Int PROVE m \in Adm!MonthsOf(from, to) <=> m \in Adm!Month(from) .. Adm!Month(to)
  <2>1. (Adm!FirstDay(m) <= to <=> m <= Adm!Month(to)) /\ (Adm!LastDay(m) >= from <=> m >= Adm!Month(from))
    BY <1>1, MonthIs
  <2>2. ASSUME m \in Adm!Month(from) .. Adm!Month(to) PROVE m \in Adm!Months
    <3> DEFINE d == IF Adm!FirstDay(m) <= from THEN from ELSE Adm!FirstDay(m)
    <3>1. Adm!FirstDay(m) \in Int /\ Adm!LastDay(m) \in Int /\ Adm!FirstDay(m) <= Adm!LastDay(m)
      BY MonthIs
    <3>2. Adm!FirstDay(m) <= to /\ Adm!LastDay(m) >= from
      BY <1>2, <2>1, <2>2
    <3>3. d \in from .. to /\ d \in Int /\ Adm!FirstDay(m) <= d /\ Adm!LastDay(m) >= d
      BY <1>1, <3>1, <3>2
    <3> HIDE DEF d
    <3>4. m = Adm!Month(d)
      BY <3>3, MonthIs
    <3>5. QED
      BY <1>1, <3>3, <3>4 DEF Adm!Months
  <2>3. QED
    BY <1>2, <2>1, <2>2 DEF Adm!MonthsOf
<1>6. Adm!MonthsOf(from, to) \subseteq Adm!Months
  BY DEF Adm!MonthsOf
<1>7. (\A m \in Adm!MonthsOf(from, to) : m \in Int) /\ \A m \in Adm!Month(from) .. Adm!Month(to) : m \in Int
  BY <1>4, <1>6
<1>8. Adm!MonthsOf(from, to) = Adm!Month(from) .. Adm!Month(to)
  <2> DEFINE ms == Adm!Month(from) .. Adm!Month(to)
  <2>1. \A m \in ms : m \in Int
    BY <1>7
  <2>2. \A m \in Int : m \in Adm!MonthsOf(from, to) <=> m \in ms
    BY <1>5
  <2> HIDE DEF ms
  <2>3. Adm!MonthsOf(from, to) = ms
    BY <1>7, <2>1, <2>2
  <2>4. QED
    BY <2>3 DEF ms
<1>9. QED
  BY <1>3, <1>8

\* A finite set of numbers has a first and a last one.
LEMMA EndsOf ==
  ASSUME NEW S \in SUBSET Int, IsFiniteSet(S), S # {}
  PROVE  (\E x \in S : \A y \in S : x <= y) /\ \E x \in S : \A y \in S : y <= x
<1> DEFINE up == [x \in S |-> x]
           down == [x \in S |-> -x]
<1>1. \A x \in S : up[x] = x /\ up[x] \in Int /\ down[x] = -x /\ down[x] \in Int
  OBVIOUS
<1> HIDE DEF up, down
<1>2. PICK x \in S : \A y \in S : up[x] <= up[y]
  BY <1>1, LeastOf
<1>3. PICK z \in S : \A y \in S : down[z] <= down[y]
  BY <1>1, LeastOf
<1>4. \A y \in S : x <= y
  BY <1>1, <1>2
<1>5. \A y \in S : y <= z
  BY <1>1, <1>3
<1>6. QED
  BY <1>4, <1>5

\* The later and the earlier of two days.
LEMMA TwoDays ==
  ASSUME NEW a \in Int, NEW b \in Int
  PROVE  /\ Adm!Max({a, b}) = IF a >= b THEN a ELSE b
         /\ Adm!Min({a, b}) = IF a <= b THEN a ELSE b
  BY DEF Adm!Max, Adm!Min

\* Who of some people is an administrator in a month; months over which that stays; and the
\* longest stretches of a period over which it does.
AdminsIn(people, m) == Adm!In(people, m, "administrator")
Same(people, m, n) == \A k \in m .. n : AdminsIn(people, k) = AdminsIn(people, m)
Runs(people, ms) ==
  {r \in ms \X ms : /\ r[1] <= r[2] /\ Same(people, r[1], r[2])
                    /\ r[1] - 1 \in ms => ~Same(people, r[1] - 1, r[1])
                    /\ r[2] + 1 \in ms => ~Same(people, r[2], r[2] + 1)}

\* Every month lies in such a stretch.
LEMMA SomeRun ==
  ASSUME NEW people, NEW a \in Int, NEW b \in Int, NEW m \in a .. b
  PROVE  \E r \in Runs(people, a .. b) : m \in r[1] .. r[2]
<1> DEFINE ms == a .. b
           A == {k \in a .. m : Same(people, k, m)}
           B == {k \in m .. b : Same(people, m, k)}
<1>1. m \in Int /\ ms \subseteq Int /\ a <= m /\ m <= b /\ a .. m \subseteq ms /\ m .. b \subseteq ms
  OBVIOUS
<1>2. Same(people, m, m)
  <2>1. \A k \in m .. m : k = m
    BY <1>1
  <2>2. QED
    BY <2>1 DEF Same
<1>3. /\ IsFiniteSet(A) /\ A \in SUBSET Int /\ m \in A
      /\ IsFiniteSet(B) /\ B \in SUBSET Int /\ m \in B
  <2>1. IsFiniteSet(a .. m) /\ IsFiniteSet(m .. b)
    BY <1>1, FS_Interval
  <2>2. IsFiniteSet(A) /\ IsFiniteSet(B)
    BY <2>1, FS_Subset
  <2>3. QED
    BY <1>1, <1>2, <2>2
<1>4. PICK x \in A : \A y \in A : x <= y
  <2> HIDE DEF A
  <2>1. QED
    BY <1>3, EndsOf
<1>5. PICK z \in B : \A y \in B : y <= z
  <2> HIDE DEF B
  <2>1. QED
    BY <1>3, EndsOf
<1>6. x \in a .. m /\ z \in m .. b /\ Same(people, x, m) /\ Same(people, m, z) /\ x \in Int /\ z \in Int
  BY <1>1
<1>7. Same(people, x, z)
  <2>1. ASSUME NEW k \in x .. z PROVE AdminsIn(people, k) = AdminsIn(people, x)
    <3>1. CASE k <= m
      <4>1. k \in x .. m
        BY <1>1, <1>6, <3>1
      <4>2. QED
        BY <1>6, <4>1 DEF Same
    <3>2. CASE k > m
      <4>1. k \in m .. z /\ m \in x .. m
        BY <1>1, <1>6, <3>2
      <4>2. QED
        BY <1>6, <4>1 DEF Same
    <3>3. QED
      BY <1>1, <1>6, <3>1, <3>2
  <2>2. QED
    BY <2>1 DEF Same
<1>8. ASSUME x - 1 \in ms, Same(people, x - 1, x) PROVE FALSE
  <2>1. x - 1 \in a .. m /\ x \in (x - 1) .. x
    BY <1>1, <1>6, <1>8
  <2>2. ASSUME NEW k \in (x - 1) .. m PROVE AdminsIn(people, k) = AdminsIn(people, x - 1)
    <3>1. AdminsIn(people, x) = AdminsIn(people, x - 1)
      BY <1>8, <2>1 DEF Same
    <3>2. k = x - 1 \/ k \in x .. m
      BY <1>1, <1>6
    <3>3. QED
      BY <1>6, <3>1, <3>2 DEF Same
  <2>3. x - 1 \in A
    BY <2>1, <2>2 DEF Same
  <2>4. QED
    BY <1>4, <1>6, <2>3
<1>9. ASSUME z + 1 \in ms, Same(people, z, z + 1) PROVE FALSE
  <2>1. z + 1 \in m .. b /\ z + 1 \in z .. (z + 1) /\ z \in m .. z
    BY <1>1, <1>6, <1>9
  <2>2. ASSUME NEW k \in m .. (z + 1) PROVE AdminsIn(people, k) = AdminsIn(people, m)
    <3>1. AdminsIn(people, z + 1) = AdminsIn(people, z) /\ AdminsIn(people, z) = AdminsIn(people, m)
      BY <1>6, <1>9, <2>1 DEF Same
    <3>2. k = z + 1 \/ k \in m .. z
      BY <1>1, <1>6
    <3>3. QED
      BY <1>6, <3>1, <3>2 DEF Same
  <2>3. z + 1 \in B
    BY <2>1, <2>2 DEF Same
  <2>4. QED
    BY <1>5, <1>6, <2>3
<1>10. x \in ms /\ z \in ms /\ x <= z /\ m \in x .. z
  BY <1>1, <1>6
<1> HIDE DEF ms, A, B
<1>11. <<x, z>> \in Runs(people, ms)
  BY <1>7, <1>8, <1>9, <1>10 DEF Runs
<1>12. QED
  BY <1>10, <1>11 DEF ms

\* Nor in two.
LEMMA OneRun ==
  ASSUME NEW people, NEW a \in Int, NEW b \in Int, NEW r \in Runs(people, a .. b), NEW q \in Runs(people, a .. b),
         NEW m \in Int, m \in r[1] .. r[2], m \in q[1] .. q[2]
  PROVE  r = q
<1> DEFINE Run(x) == /\ x \in (a .. b) \X (a .. b) /\ x[1] <= x[2] /\ Same(people, x[1], x[2])
                     /\ x[1] - 1 \in a .. b => ~Same(people, x[1] - 1, x[1])
                     /\ x[2] + 1 \in a .. b => ~Same(people, x[2], x[2] + 1)
<1>1. Run(r) /\ Run(q)
  BY DEF Runs
<1>2. ASSUME NEW x, NEW y, Run(x), Run(y), m \in x[1] .. x[2], m \in y[1] .. y[2]
      PROVE  ~(x[1] < y[1]) /\ ~(y[2] < x[2])
  <2>1. /\ x[1] \in Int /\ x[2] \in Int /\ y[1] \in Int /\ y[2] \in Int
        /\ x[1] \in a .. b /\ x[2] \in a .. b /\ y[1] \in a .. b /\ y[2] \in a .. b
        /\ x[1] <= m /\ m <= x[2] /\ y[1] <= m /\ m <= y[2]
    BY <1>2
  <2>2. ASSUME x[1] < y[1] PROVE FALSE
    <3> DEFINE k == y[1] - 1
    <3>1. k \in a .. b /\ k \in x[1] .. x[2] /\ y[1] \in x[1] .. x[2] /\ k \in Int
      BY <2>1, <2>2
    <3>2. AdminsIn(people, k) = AdminsIn(people, y[1])
      BY <1>2, <3>1 DEF Same
    <3>3. \A j \in k .. y[1] : j = k \/ j = y[1]
      BY <2>1
    <3> HIDE DEF k
    <3>4. Same(people, k, y[1])
      BY <3>2, <3>3 DEF Same
    <3>5. QED
      BY <1>2, <3>1, <3>4 DEF k
  <2>3. ASSUME y[2] < x[2] PROVE FALSE
    <3> DEFINE k == y[2] + 1
    <3>1. k \in a .. b /\ k \in x[1] .. x[2] /\ y[2] \in x[1] .. x[2] /\ k \in Int
      BY <2>1, <2>3
    <3>2. AdminsIn(people, k) = AdminsIn(people, y[2])
      BY <1>2, <3>1 DEF Same
    <3>3. \A j \in y[2] .. k : j = k \/ j = y[2]
      BY <2>1
    <3> HIDE DEF k
    <3>4. Same(people, y[2], k)
      BY <3>2, <3>3 DEF Same
    <3>5. QED
      BY <1>2, <3>1, <3>4 DEF k
  <2>4. QED
    BY <2>2, <2>3
<1>3. /\ r \in (a .. b) \X (a .. b) /\ q \in (a .. b) \X (a .. b)
      /\ ~(r[1] < q[1]) /\ ~(q[1] < r[1]) /\ ~(q[2] < r[2]) /\ ~(r[2] < q[2])
  BY <1>1, <1>2
<1>4. r[1] = q[1] /\ r[2] = q[2]
  BY <1>3
<1>5. QED
  BY <1>3, <1>4

\* The segment of a stretch of months within a period.
SegmentOf(from, to, r) ==
  [from |-> Adm!Max({from, Adm!FirstDay(r[1])}), to |-> Adm!Min({to, Adm!LastDay(r[2])}), month |-> r[1]]

\* It holds the days of the period that lie in those months, and just those months.
LEMMA SegmentIs ==
  ASSUME NEW from, NEW to, Period(from, to),
         NEW r, r \in Adm!MonthsOf(from, to) \X Adm!MonthsOf(from, to), r[1] <= r[2]
  PROVE  LET s == SegmentOf(from, to, r)
         IN  /\ Period(s.from, s.to) /\ from <= s.from /\ s.to <= to
             /\ Adm!MonthsOf(s.from, s.to) = r[1] .. r[2] /\ s.month = r[1]
             /\ \A d \in from .. to : d \in s.from .. s.to <=> Adm!Month(d) \in r[1] .. r[2]
<1> DEFINE s == SegmentOf(from, to, r)
           a == r[1]
           b == r[2]
           x == Adm!FirstDay(a)
           y == Adm!LastDay(b)
<1>1. from \in Int /\ to \in Int /\ from <= to /\ from .. to \subseteq Days
  BY PeriodIs DEF Period
<1>2. /\ Adm!Month(from) \in Int /\ Adm!Month(to) \in Int
      /\ a \in Adm!Month(from) .. Adm!Month(to) /\ b \in Adm!Month(from) .. Adm!Month(to) /\ a <= b
  BY <1>1, MonthIs, MonthsOfPeriod
<1>3. a \in Int /\ b \in Int /\ Adm!Month(from) <= a /\ b <= Adm!Month(to) /\ a <= Adm!Month(to) /\ Adm!Month(from) <= b
  BY <1>2
<1> HIDE DEF a, b
<1>4. /\ x \in Int /\ y \in Int /\ Adm!LastDay(a) \in Int /\ Adm!FirstDay(b) \in Int
      /\ x <= Adm!LastDay(a) /\ Adm!FirstDay(b) <= y
      /\ x <= to /\ Adm!LastDay(a) >= from /\ Adm!FirstDay(b) <= to /\ y >= from
  BY <1>1, <1>3, MonthIs
<1>5. x <= y
  <2>1. Adm!Month(x) = a /\ Adm!Month(x) \in Int
    <3>1. (Adm!FirstDay(a) <= x <=> a <= Adm!Month(x)) /\ (Adm!LastDay(a) >= x <=> a >= Adm!Month(x)) /\ Adm!Month(x) \in Int
      BY <1>3, <1>4, MonthIs
    <3> HIDE DEF x
    <3>2. x = Adm!FirstDay(a)
      BY DEF x
    <3>3. QED
      BY <1>3, <1>4, <3>1, <3>2
  <2>2. y >= x <=> b >= Adm!Month(x)
    BY <1>3, <1>4, MonthIs
  <2>3. QED
    BY <1>2, <2>1, <2>2 DEF a, b
<1> HIDE DEF x, y
<1>6. s.from = (IF from >= x THEN from ELSE x) /\ s.to = (IF to <= y THEN to ELSE y) /\ s.month = a
  BY <1>1, <1>4, TwoDays DEF SegmentOf, a, b, x, y
<1>7. s.from \in Int /\ s.to \in Int /\ from <= s.from /\ s.to <= to /\ s.from <= s.to
  BY <1>1, <1>4, <1>5, <1>6
<1>8. Period(s.from, s.to)
  <2>1. s.from \in from .. to /\ s.to \in from .. to
    BY <1>1, <1>7
  <2>2. QED
    BY <1>1, <1>7, <2>1 DEF Period
<1>9. Adm!Month(s.from) = a
  <2> DEFINE d == s.from
  <2>1. d \in Int /\ x <= d /\ d <= Adm!LastDay(a)
    BY <1>1, <1>4, <1>5, <1>6, <1>7
  <2> HIDE DEF d
  <2>2. Adm!Month(d) \in Int /\ (x <= d <=> a <= Adm!Month(d)) /\ (Adm!LastDay(a) >= d <=> a >= Adm!Month(d))
    BY <1>3, <2>1, MonthIs DEF x
  <2>3. Adm!Month(d) = a
    BY <1>3, <1>4, <2>1, <2>2
  <2>4. QED
    BY <2>3 DEF d
<1>10. Adm!Month(s.to) = b
  <2> DEFINE d == s.to
  <2>1. d \in Int /\ Adm!FirstDay(b) <= d /\ d <= y
    BY <1>1, <1>4, <1>5, <1>6, <1>7
  <2> HIDE DEF d
  <2>2. Adm!Month(d) \in Int /\ (Adm!FirstDay(b) <= d <=> b <= Adm!Month(d)) /\ (y >= d <=> b >= Adm!Month(d))
    BY <1>3, <2>1, MonthIs DEF y
  <2>3. Adm!Month(d) = b
    BY <1>3, <1>4, <2>1, <2>2
  <2>4. QED
    BY <2>3 DEF d
<1>11. ASSUME NEW d \in from .. to PROVE d \in s.from .. s.to <=> Adm!Month(d) \in a .. b
  <2>1. d \in Int /\ from <= d /\ d <= to
    BY <1>1
  <2>2. Adm!Month(d) \in Int /\ (x <= d <=> a <= Adm!Month(d)) /\ (y >= d <=> b >= Adm!Month(d))
    BY <1>3, <2>1, MonthIs DEF x, y
  <2>3. d \in s.from .. s.to <=> x <= d /\ d <= y
    BY <1>1, <1>4, <1>6, <1>7, <2>1
  <2>4. QED
    BY <1>3, <1>4, <2>1, <2>2, <2>3
<1>12. Adm!MonthsOf(s.from, s.to) = a .. b
  BY <1>8, <1>9, <1>10, MonthsOfPeriod
<1>13. QED
  BY <1>6, <1>7, <1>8, <1>11, <1>12 DEF a, b

\* The segments of a period cut its days, and its months, into parts in which nobody's role changes.
Cuts(people, from, to, segs) ==
  /\ IsFiniteSet(segs)
  /\ \A s \in segs : /\ Period(s.from, s.to) /\ from <= s.from /\ s.to <= to
                     /\ s.month \in Adm!MonthsOf(from, to)
                     /\ Adm!MonthsOf(s.from, s.to) \subseteq Adm!MonthsOf(from, to)
                     /\ \A m \in Adm!MonthsOf(s.from, s.to) : AdminsIn(people, m) = AdminsIn(people, s.month)
                     /\ \A d \in s.from .. s.to : Adm!Month(d) \in Adm!MonthsOf(s.from, s.to)
  /\ \A d \in from .. to : \E s \in segs : d \in s.from .. s.to
  /\ \A m \in Adm!MonthsOf(from, to) : \E s \in segs : m \in Adm!MonthsOf(s.from, s.to)
  /\ \A s \in segs, t \in segs : s # t => /\ (s.from .. s.to) \cap (t.from .. t.to) = {}
                                          /\ Adm!MonthsOf(s.from, s.to) \cap Adm!MonthsOf(t.from, t.to) = {}

\* The segments of a period cut it, its days as well as its months.
LEMMA SegmentsCut ==
  ASSUME NEW people, NEW from, NEW to, Period(from, to)
  PROVE  Cuts(people, from, to, Adm!RoleSegments(people, from, to))
<1> DEFINE segs == Adm!RoleSegments(people, from, to)
           ms == Adm!MonthsOf(from, to)
           runs == Runs(people, ms)
           seg == [r \in runs |-> SegmentOf(from, to, r)]
<1>1. segs = {seg[r] : r \in runs}
  BY DEF Adm!RoleSegments, Runs, Same, AdminsIn, SegmentOf
<1>2. PICK a \in Int, b \in Int : ms = a .. b
  <2>1. Adm!Month(from) \in Int /\ Adm!Month(to) \in Int
    BY PeriodIs, MonthIs DEF Period
  <2>2. QED
    BY <2>1, MonthsOfPeriod
<1>3. IsFiniteSet(segs)
  <2>1. IsFiniteSet(ms \X ms)
    BY <1>2, FS_Interval, FS_Product
  <2>2. IsFiniteSet(runs)
    BY <2>1, FS_Subset DEF Runs
  <2> HIDE DEF runs, seg
  <2>3. QED
    BY <1>1, <2>2, ImageFinite
<1>4. ASSUME NEW r \in runs
      PROVE  /\ r \in ms \X ms /\ r[1] <= r[2] /\ Same(people, r[1], r[2])
             /\ Period(seg[r].from, seg[r].to) /\ from <= seg[r].from /\ seg[r].to <= to
             /\ Adm!MonthsOf(seg[r].from, seg[r].to) = r[1] .. r[2] /\ seg[r].month = r[1]
             /\ \A d \in from .. to : d \in seg[r].from .. seg[r].to <=> Adm!Month(d) \in r[1] .. r[2]
  <2>1. r \in ms \X ms /\ r[1] <= r[2] /\ Same(people, r[1], r[2]) /\ seg[r] = SegmentOf(from, to, r)
    BY DEF Runs
  <2>2. QED
    BY <2>1, SegmentIs
<1>5. \A d \in from .. to : Adm!Month(d) \in ms
  <2>1. ASSUME NEW d \in from .. to PROVE Adm!Month(d) \in ms
    <3>1. d \in Int /\ from \in Int /\ to \in Int /\ from <= d /\ d <= to /\ from \in Days /\ to \in Days /\ d \in Days
      BY PeriodIs DEF Period
    <3>2. Period(from, d) /\ Period(d, to)
      BY <3>1 DEF Period
    <3>3. Adm!Month(from) <= Adm!Month(d) /\ Adm!Month(d) <= Adm!Month(to) /\ ms = Adm!Month(from) .. Adm!Month(to)
      BY <3>2, MonthsOfPeriod
    <3>4. QED
      BY <3>1, <3>3, MonthIs
  <2>2. QED
    BY <2>1
<1> HIDE DEF seg, segs
<1>6. ASSUME NEW s \in segs
      PROVE  /\ Period(s.from, s.to) /\ from <= s.from /\ s.to <= to
             /\ s.month \in ms
             /\ Adm!MonthsOf(s.from, s.to) \subseteq ms
             /\ \A m \in Adm!MonthsOf(s.from, s.to) : AdminsIn(people, m) = AdminsIn(people, s.month)
             /\ \A d \in s.from .. s.to : Adm!Month(d) \in Adm!MonthsOf(s.from, s.to)
  <2>1. PICK r \in runs : s = seg[r]
    BY <1>1
  <2>2. /\ r \in ms \X ms /\ Same(people, r[1], r[2])
        /\ Period(s.from, s.to) /\ from <= s.from /\ s.to <= to
        /\ Adm!MonthsOf(s.from, s.to) = r[1] .. r[2] /\ s.month = r[1]
        /\ \A d \in from .. to : d \in s.from .. s.to <=> Adm!Month(d) \in r[1] .. r[2]
    BY <1>4, <2>1
  <2>3. r[1] \in a .. b /\ r[2] \in a .. b
    BY <1>2, <2>2
  <2>4. r[1] .. r[2] \subseteq ms
    BY <1>2, <2>3
  <2>5. \A d \in s.from .. s.to : d \in from .. to
    <3>1. s.from \in Int /\ s.to \in Int /\ from \in Int /\ to \in Int
      BY <2>2, PeriodIs
    <3>2. QED
      BY <2>2, <3>1
  <2>6. QED
    BY <2>2, <2>3, <2>4, <2>5 DEF Same
<1>7. ASSUME NEW m \in ms
      PROVE  \E s \in segs : /\ m \in Adm!MonthsOf(s.from, s.to)
                             /\ \A d \in from .. to : Adm!Month(d) = m => d \in s.from .. s.to
  <2>1. PICK r \in runs : m \in r[1] .. r[2]
    BY <1>2, SomeRun
  <2>2. seg[r] \in segs
    BY <1>1
  <2>3. QED
    BY <1>4, <2>1, <2>2
<1>8. ASSUME NEW s \in segs, NEW t \in segs, s # t
      PROVE  /\ (s.from .. s.to) \cap (t.from .. t.to) = {}
             /\ Adm!MonthsOf(s.from, s.to) \cap Adm!MonthsOf(t.from, t.to) = {}
  <2>1. PICK r \in runs, q \in runs : s = seg[r] /\ t = seg[q] /\ r # q
    BY <1>1, <1>8
  <2>2. Adm!MonthsOf(s.from, s.to) = r[1] .. r[2] /\ Adm!MonthsOf(t.from, t.to) = q[1] .. q[2]
    BY <1>4, <2>1
  <2>3. ASSUME NEW m, m \in r[1] .. r[2], m \in q[1] .. q[2] PROVE FALSE
    <3>1. r[1] \in a .. b /\ r[2] \in a .. b
      BY <1>2, <1>4
    <3>2. m \in Int
      BY <2>3, <3>1
    <3>3. QED
      BY <1>2, <2>1, <2>3, <3>2, OneRun
  <2>4. QED
    BY <1>6, <2>2, <2>3
<1>9. \A d \in from .. to : \E s \in segs : d \in s.from .. s.to
  BY <1>5, <1>7
<1>10. QED
  BY <1>3, <1>6, <1>7, <1>8, <1>9 DEF Cuts, segs

-----------------------------------------------------------------------------
(* Who is credited with what. *)

\* Events and visits as they are given to administrators: finitely many, each with an id of its own.
Coming(events) ==
  /\ IsFiniteSet(events)
  /\ \A e \in events : e.id \in Int /\ e.day \in Int /\ e.moment \in Int
  /\ \A e, f \in events : e.id = f.id => e = f

\* The latest of some events is one of them.
LEMMA LatestIn ==
  ASSUME NEW events, Coming(events), NEW es \in SUBSET events, es # {}
  PROVE  Adm!Latest(es) \in es
<1> DEFINE a == [e \in es |-> -e.day]
           b == [e \in es |-> -e.moment]
           c == [e \in es |-> -e.id]
<1>1. /\ IsFiniteSet(es)
      /\ \A x \in es : x.id \in Int /\ x.day \in Int /\ x.moment \in Int
  BY FS_Subset DEF Coming
<1>2. \A x \in es : a[x] = -x.day /\ b[x] = -x.moment /\ c[x] = -x.id
  OBVIOUS
<1> HIDE DEF a, b, c
<1>3. \A x \in es : a[x] \in Int /\ b[x] \in Int /\ c[x] \in Int
  BY <1>1, <1>2
<1>4. PICK x \in es : \A y \in es : Lex(a, b, c, x, y)
  BY <1>1, <1>3, LeastByThree
<1> DEFINE Before(u, v) == \/ u.day > v.day
                           \/ u.day = v.day /\ (u.moment > v.moment \/ (u.moment = v.moment /\ u.id >= v.id))
<1>5. \A y \in es : Before(x, y)
  <2> SUFFICES ASSUME NEW y \in es PROVE Before(x, y)
    OBVIOUS
  <2>1. Lex(a, b, c, x, y)
    BY <1>4
  <2>2. QED
    BY <1>1, <1>2, <2>1 DEF Lex
<1>6. Adm!Latest(es) = CHOOSE u \in es : \A v \in es : Before(u, v)
  BY DEF Adm!Latest, Adm!Least
<1> HIDE DEF Before
<1>7. QED
  BY <1>5, <1>6

\* Somebody of the people is the least loaded, of the day and in all, or in all alone.
LEMMA LoadedIn ==
  ASSUME NEW people \in SUBSET Adm!People, people # {}, NEW given, IsFiniteSet(given), NEW day
  PROVE  Adm!LeastLoaded(people, given, day) \in people /\ Adm!LeastOfAll(people, given) \in people
<1> DEFINE a == [p \in people |-> Adm!Load(given, p, day)]
           b == [p \in people |-> Adm!Total(given, p)]
           c == [p \in people |-> p]
<1>1. IsFiniteSet(people) /\ \A p \in people : p \in Int
  BY FS_Subset, TeamAssumption DEF TeamAssumption, Adm!People
<1>2. \A p \in people : Adm!Load(given, p, day) \in Int /\ Adm!Total(given, p) \in Int
  <2> SUFFICES ASSUME NEW p \in people PROVE Adm!Load(given, p, day) \in Int /\ Adm!Total(given, p) \in Int
    OBVIOUS
  <2> DEFINE A == {x \in given : x.who = p /\ x.day = day}
             B == {x \in given : x.who = p}
  <2>1. IsFiniteSet(A) /\ IsFiniteSet(B)
    BY FS_Subset
  <2>2. Adm!Load(given, p, day) = Cardinality(A) /\ Adm!Total(given, p) = Cardinality(B)
    BY LibraryIs DEF Adm!Load, Adm!Total
  <2> HIDE DEF A, B
  <2>3. Cardinality(A) \in Int /\ Cardinality(B) \in Int
    BY <2>1, FS_CardinalityType
  <2>4. QED
    BY <2>2, <2>3
<1>3. \A p \in people : a[p] = Adm!Load(given, p, day) /\ b[p] = Adm!Total(given, p) /\ c[p] = p
  OBVIOUS
<1> HIDE DEF a, b, c
<1>4. \A x \in people : a[x] \in Int /\ b[x] \in Int /\ c[x] \in Int
  BY <1>1, <1>2, <1>3
<1>5. PICK x \in people : \A y \in people : Lex(a, b, c, x, y)
  BY <1>1, <1>4, LeastByThree
<1>6. PICK z \in people : \A y \in people : Lex(b, b, c, z, y)
  BY <1>1, <1>4, LeastByThree
<1> DEFINE P(p, q) == \/ Adm!Load(given, p, day) < Adm!Load(given, q, day)
                      \/ /\ Adm!Load(given, p, day) = Adm!Load(given, q, day)
                         /\ \/ Adm!Total(given, p) < Adm!Total(given, q)
                            \/ Adm!Total(given, p) = Adm!Total(given, q) /\ p <= q
           Q(p, q) == Adm!Total(given, p) < Adm!Total(given, q) \/ (Adm!Total(given, p) = Adm!Total(given, q) /\ p <= q)
<1>7. \A y \in people : P(x, y) /\ Q(z, y)
  <2> SUFFICES ASSUME NEW y \in people PROVE P(x, y) /\ Q(z, y)
    OBVIOUS
  <2>1. Lex(a, b, c, x, y) /\ Lex(b, b, c, z, y)
    BY <1>5, <1>6
  <2>2. P(x, y)
    BY <1>2, <1>3, <2>1 DEF Lex
  <2>3. Q(z, y)
    BY <1>2, <1>3, <2>1 DEF Lex
  <2>4. QED
    BY <2>2, <2>3
<1>8. /\ Adm!LeastLoaded(people, given, day) = CHOOSE p \in people : \A q \in people : P(p, q)
      /\ Adm!LeastOfAll(people, given) = CHOOSE p \in people : \A q \in people : Q(p, q)
  BY DEF Adm!LeastLoaded, Adm!LeastOfAll, Adm!Least
<1> HIDE DEF P, Q
<1>9. QED
  BY <1>7, <1>8

\* Whatever has been given so far, an event goes to an administrator.
LEMMA AssignedIn ==
  ASSUME NEW admins \in SUBSET Adm!People, admins # {}, NEW given, IsFiniteSet(given), NEW e
  PROVE  Adm!Assigned(e, admins, given) \in admins
<1> DEFINE creator == Adm!Creator(e, admins)
           there == Adm!OnShift(admins, Adm!Local(e.moment))
           day == Adm!LocalDay(e.moment)
<1>1. there \subseteq admins
  BY DEF Adm!OnShift, Adm!ShiftsOf
<1>2. creator # Adm!Nobody => creator \in admins
  <2> DEFINE who == {p \in admins : Team[p].user = e.by /\ e.by # Adm!Null}
  <2>1. creator = IF who = {} THEN Adm!Nobody ELSE CHOOSE p \in who : TRUE
    BY DEF Adm!Creator
  <2>2. who \subseteq admins
    OBVIOUS
  <2> HIDE DEF who, creator
  <2>3. QED
    BY <2>1, <2>2
<1>3. Adm!Assigned(e, admins, given) =
        IF creator \in there THEN creator
        ELSE IF there # {} THEN Adm!LeastLoaded(there, given, day)
        ELSE IF creator # Adm!Nobody THEN creator
        ELSE Adm!LeastOfAll(admins, given)
  BY DEF Adm!Assigned
<1>4. there # {} => Adm!LeastLoaded(there, given, day) \in there
  BY <1>1, LoadedIn
<1>5. Adm!LeastOfAll(admins, given) \in admins
  BY LoadedIn
<1> HIDE DEF creator, there, day
<1>6. QED
  BY <1>1, <1>2, <1>3, <1>4, <1>5

\* What is given away: of every event, to one administrator.
Entry(e, admins, before) ==
  [event |-> e.id, who |-> Adm!Assigned(e, admins, before), day |-> Adm!LocalDay(e.moment)]
Giving(h, events, admins) ==
  h = [es \in SUBSET events |->
         IF es = {} THEN {}
         ELSE h[es \ {Adm!Latest(es)}] \cup {Entry(Adm!Latest(es), admins, h[es \ {Adm!Latest(es)}])}]
Given(given, es, admins) ==
  /\ IsFiniteSet(given)
  /\ \A x \in given : x.who \in admins /\ \E e \in es : x.event = e.id
  /\ \A e \in es : \E x \in given : x.event = e.id /\ \A y \in given : y.event = e.id => y = x

\* Events can be given away one after the other.
LEMMA GivingExists ==
  ASSUME NEW events, Coming(events), NEW admins \in SUBSET Adm!People, admins # {}
  PROVE  \E h : Giving(h, events, admins)
<1> DEFINE R == [event : {e.id : e \in events}, who : admins, day : {Adm!LocalDay(e.moment) : e \in events}]
           V == {x \in SUBSET R : IsFiniteSet(x)}
           pick == [s \in SUBSET events |-> Adm!Latest(s)]
           step == [y \in (SUBSET events) \X V |-> y[2] \cup {Entry(Adm!Latest(y[1]), admins, y[2])}]
<1>1. \A s \in SUBSET events : s # {} => pick[s] \in s /\ pick[s] = Adm!Latest(s)
  BY LatestIn
<1>2. ASSUME NEW s \in SUBSET events, NEW v \in V, s # {}
      PROVE  step[<<s, v>>] = v \cup {Entry(Adm!Latest(s), admins, v)} /\ step[<<s, v>>] \in V
  <2>1. Adm!Latest(s) \in events /\ Adm!Assigned(Adm!Latest(s), admins, v) \in admins /\ IsFiniteSet(v) /\ v \subseteq R
    BY <1>2, LatestIn, AssignedIn
  <2>2. Entry(Adm!Latest(s), admins, v) \in R
    BY <2>1 DEF Entry
  <2>3. IsFiniteSet(v \cup {Entry(Adm!Latest(s), admins, v)})
    BY <2>1, FS_AddElement
  <2>4. step[<<s, v>>] = v \cup {Entry(Adm!Latest(s), admins, v)}
    OBVIOUS
  <2>5. QED
    BY <2>1, <2>2, <2>3, <2>4
<1>3. {} \in V
  BY FS_EmptySet
<1>4. IsFiniteSet(events)
  BY DEF Coming
<1> HIDE DEF pick, step, V
<1>5. PICK h \in [SUBSET events -> V] : Takes(h, events, {}, step, pick)
  <2>1. \A s \in SUBSET events : s # {} => pick[s] \in s
    BY <1>1
  <2>2. \A s \in SUBSET events : \A v \in V : s # {} => step[<<s, v>>] \in V
    BY <1>2
  <2>3. QED
    BY <1>3, <1>4, <2>1, <2>2, TakesExists
<1>6. ASSUME NEW s \in SUBSET events
      PROVE  h[s] = IF s = {} THEN {}
                    ELSE h[s \ {Adm!Latest(s)}] \cup {Entry(Adm!Latest(s), admins, h[s \ {Adm!Latest(s)}])}
  <2>1. h[s] = IF s = {} THEN {} ELSE step[<<s, h[s \ {pick[s]}]>>]
    BY <1>5 DEF Takes
  <2>2. CASE s = {}
    BY <2>1, <2>2
  <2>3. CASE s # {}
    <3> DEFINE v == h[s \ {pick[s]}]
    <3>1. pick[s] = Adm!Latest(s) /\ v \in V
      BY <1>1, <2>3
    <3>2. v = h[s \ {Adm!Latest(s)}] /\ h[s] = step[<<s, v>>]
      BY <2>1, <2>3, <3>1
    <3> HIDE DEF v
    <3>3. step[<<s, v>>] = v \cup {Entry(Adm!Latest(s), admins, v)}
      BY <1>2, <2>3, <3>1
    <3>4. QED
      BY <2>3, <3>2, <3>3
  <2>4. QED
    BY <2>2, <2>3
<1> DEFINE val(s) == IF s = {} THEN {}
                     ELSE h[s \ {Adm!Latest(s)}] \cup {Entry(Adm!Latest(s), admins, h[s \ {Adm!Latest(s)}])}
<1>7. \A s \in SUBSET events : h[s] = val(s)
  BY <1>6
<1>8. h = [s \in SUBSET events |-> h[s]]
  BY <1>5
<1>9. h = [s \in SUBSET events |-> val(s)]
  <2> HIDE DEF val
  <2>1. QED
    BY <1>7, <1>8
<1>10. Giving(h, events, admins)
  BY <1>9 DEF Giving
<1>11. QED
  BY <1>10

\* Every event is given away once.
LEMMA AssignmentsAre ==
  ASSUME NEW events, Coming(events), NEW admins \in SUBSET Adm!People, admins # {}
  PROVE  Given(Adm!Assignments(events, admins), events, admins)
<1> DEFINE h == CHOOSE k : Giving(k, events, admins)
           G == {es \in SUBSET events : Given(h[es], es, admins)}
<1>1. Adm!Assignments(events, admins) = h[events]
  BY DEF Adm!Assignments, Giving, Entry
<1>2. Giving(h, events, admins)
  BY GivingExists
<1> HIDE DEF h
<1>3. ASSUME NEW es \in SUBSET events, \A U \in SUBSET es : U # es => U \in G PROVE es \in G
  <2>1. CASE es = {}
    <3>1. h[es] = {}
      BY <1>2, <2>1 DEF Giving
    <3>2. QED
      BY <2>1, <3>1, FS_EmptySet DEF Given
  <2>2. CASE es # {}
    <3> DEFINE e == Adm!Latest(es)
               before == h[es \ {e}]
               new == Entry(e, admins, before)
    <3>1. e \in es
      BY <2>2, LatestIn
    <3>2. h[es] = before \cup {new}
      BY <1>2, <2>2 DEF Giving
    <3>3. Given(before, es \ {e}, admins)
      BY <1>3, <3>1
    <3>4. new.event = e.id /\ new.who \in admins
      BY <3>3, AssignedIn DEF Entry, Given
    <3> HIDE DEF e, before, new
    <3>5. \A f \in es : f # e => f.id # e.id
      BY <3>1 DEF Coming
    <3>6. \A x \in before : x.event # e.id
      BY <3>3, <3>5 DEF Given
    <3>7. IsFiniteSet(before \cup {new})
      BY <3>3, FS_AddElement DEF Given
    <3>8. Given(before \cup {new}, es, admins)
      <4>1. \A x \in before \cup {new} : x.who \in admins /\ \E f \in es : x.event = f.id
        BY <3>1, <3>3, <3>4 DEF Given
      <4>2. ASSUME NEW f \in es
            PROVE  \E x \in before \cup {new} : x.event = f.id /\ \A y \in before \cup {new} : y.event = f.id => y = x
        <5>1. CASE f = e
          BY <3>4, <3>6, <5>1
        <5>2. CASE f # e
          <6>1. PICK x \in before : x.event = f.id /\ \A y \in before : y.event = f.id => y = x
            BY <3>3, <5>2 DEF Given
          <6>2. new.event # f.id
            BY <3>4, <3>5, <5>2
          <6>3. QED
            BY <6>1, <6>2
        <5>3. QED
          BY <5>1, <5>2
      <4>3. QED
        BY <3>7, <4>1, <4>2 DEF Given
    <3>9. QED
      BY <3>2, <3>8
  <2>3. QED
    BY <2>1, <2>2
<1>4. events \in G
  <2> HIDE DEF G
  <2>1. QED
    BY <1>3, Smaller DEF Coming
<1>5. QED
  BY <1>1, <1>4

\* Where there are administrators, every event is credited to exactly one of them.
LEMMA CreditsAre ==
  ASSUME NEW events, Coming(events), NEW admins \in SUBSET Adm!People
  PROVE  /\ DOMAIN Adm!Credits(events, admins) = admins
         /\ \A p \in admins : Adm!Credits(events, admins)[p] \subseteq events
         /\ \A e \in events : admins # {} =>
              \E p \in admins : \A q \in admins : e \in Adm!Credits(events, admins)[q] <=> q = p
<1> DEFINE given == IF admins = {} THEN {} ELSE Adm!Assignments(events, admins)
<1>1. Adm!Credits(events, admins) = [p \in admins |-> {e \in events : \E x \in given : x.who = p /\ x.event = e.id}]
  BY DEF Adm!Credits
<1>2. ASSUME admins # {} PROVE Given(given, events, admins)
  BY <1>2, AssignmentsAre
<1> HIDE DEF given
<1>3. ASSUME NEW e \in events, admins # {}
      PROVE  \E p \in admins : \A q \in admins : e \in Adm!Credits(events, admins)[q] <=> q = p
  <2>1. PICK x \in given : x.event = e.id /\ \A y \in given : y.event = e.id => y = x
    BY <1>2, <1>3 DEF Given
  <2>2. x.who \in admins
    BY <1>2, <1>3 DEF Given
  <2>3. \A q \in admins : e \in Adm!Credits(events, admins)[q] <=> q = x.who
    BY <1>1, <2>1
  <2>4. QED
    BY <2>2, <2>3
<1>4. QED
  BY <1>1, <1>3

-----------------------------------------------------------------------------
(* The rebookings and the visits of a period. *)

\* A visit has one latest visit before it, so one booking makes one event.
LEMMA OneAnchor ==
  ASSUME Mirrored, Books, NEW b, NEW vs \in SUBSET appts,
         NEW v \in Adm!Anchors(b, vs), NEW u \in Adm!Anchors(b, vs)
  PROVE  v = u
<1>1. v \in appts /\ u \in appts /\ Adm!Later(v, u) /\ Adm!Later(u, v)
  BY DEF Adm!Anchors
<1>2. v.at \in Int /\ u.at \in Int /\ v.id \in Int /\ u.id \in Int
  BY <1>1 DEF Mirrored
<1>3. v.id = u.id
  BY <1>1, <1>2 DEF Adm!Later
<1>4. QED
  BY <1>1, <1>3 DEF Books

\* The rebookings of a period can be given away, and lie on its days.
LEMMA RebookingsCome ==
  ASSUME Mirrored, Books, NEW from \in Int, NEW to \in Int
  PROVE  Coming(Adm!Opz(from, to)) /\ \A e \in Adm!Opz(from, to) : e.day \in from .. to
<1> DEFINE cs == Adm!Candidates(from, to)
           vs == Adm!Visits(from, to, cs)
           rebooks == ReadPairs(from, to)
           A == {x \in rebooks : /\ Adm!LocalDay(x[1].made) >= from
                                 /\ \A y \in rebooks : y[2] = x[2] => Adm!Earlier(x[1], y[1])}
           event == [c \in A |-> Adm!Event(c[1], c[2], Adm!First(c[2], to))]
<1>1. Adm!Opz(from, to) = {event[c] : c \in A}
  BY DEF Adm!Opz, ReadPairs
<1>2. rebooks = {c \in cs \X vs : c[2] \in Adm!Anchors(c[1], vs)}
  BY DEF ReadPairs
<1>3. cs \subseteq appts /\ vs \in SUBSET appts
  BY DEF Adm!Candidates, Adm!Visits
<1> HIDE DEF cs, vs
<1>4. IsFiniteSet(A)
  <2>1. A \subseteq appts \X appts
    BY <1>2, <1>3
  <2>2. IsFiniteSet(appts \X appts)
    BY FS_Product DEF Books
  <2> HIDE DEF A
  <2>3. QED
    BY <2>1, <2>2, FS_Subset
<1>5. ASSUME NEW c \in A
      PROVE  /\ c[1] \in appts /\ c[2] \in Adm!Anchors(c[1], vs) /\ c = <<c[1], c[2]>>
             /\ event[c] = Adm!Event(c[1], c[2], Adm!First(c[2], to))
             /\ event[c].id = c[1].id /\ event[c].moment = c[1].made
             /\ event[c].id \in Int /\ event[c].moment \in Int
  <2>1. c \in rebooks /\ event[c] = Adm!Event(c[1], c[2], Adm!First(c[2], to))
    OBVIOUS
  <2>2. c[1] \in appts /\ c[2] \in Adm!Anchors(c[1], vs) /\ c = <<c[1], c[2]>>
    BY <1>2, <1>3, <2>1
  <2> HIDE DEF A, event, rebooks
  <2>3. event[c].id = c[1].id /\ event[c].moment = c[1].made
    BY <2>1 DEF Adm!Event
  <2>4. QED
    BY <2>1, <2>2, <2>3 DEF Mirrored
<1> HIDE DEF A, event, rebooks
<1>6. IsFiniteSet(Adm!Opz(from, to))
  BY <1>1, <1>4, ImageFinite
<1>7. \A e \in Adm!Opz(from, to) : e.day \in from .. to
  BY EventsOfPeriod
<1>8. \A e \in Adm!Opz(from, to) : e.id \in Int /\ e.moment \in Int
  BY <1>1, <1>5
<1>9. ASSUME NEW c \in A, NEW d \in A, event[c].id = event[d].id PROVE event[c] = event[d]
  <2>1. c[1] = d[1]
    BY <1>5, <1>9 DEF Books
  <2>2. c[2] = d[2]
    BY <1>3, <1>5, <2>1, OneAnchor
  <2>3. QED
    BY <1>5, <2>1, <2>2
<1>10. \A e, f \in Adm!Opz(from, to) : e.id = f.id => e = f
  BY <1>1, <1>9
<1>11. \A d \in from .. to : d \in Int
  OBVIOUS
<1>12. QED
  BY <1>6, <1>7, <1>8, <1>10, <1>11 DEF Coming

\* So can a part of what can be given away.
LEMMA ComingPart ==
  ASSUME NEW events, Coming(events), NEW es \in SUBSET events
  PROVE  Coming(es)
  BY FS_Subset DEF Coming

\* A visit as it is given away.
AsEvent(v) == [id |-> v.id, day |-> Adm!Day(v), moment |-> v.at, by |-> v.by]

\* Visits can be given away too.
LEMMA VisitsCome ==
  ASSUME Mirrored, Books, NEW vs \in SUBSET appts
  PROVE  Coming({AsEvent(v) : v \in vs})
<1> DEFINE event == [v \in vs |-> AsEvent(v)]
<1>1. \A v \in vs : /\ event[v] = AsEvent(v) /\ event[v].id = v.id /\ event[v].day = Adm!Day(v)
                    /\ event[v].moment = v.at
  BY DEF AsEvent
<1>2. {AsEvent(v) : v \in vs} = {event[v] : v \in vs}
  OBVIOUS
<1> HIDE DEF event
<1>3. \A v \in vs : v.id \in Int /\ Adm!Day(v) \in Int /\ v.at \in Int
  BY DaysOf DEF Mirrored
<1>4. IsFiniteSet(vs)
  BY FS_Subset DEF Books
<1>5. IsFiniteSet({event[v] : v \in vs})
  BY <1>4, ImageFinite
<1>6. \A v, u \in vs : event[v].id = event[u].id => v = u
  BY <1>1 DEF Books
<1>7. QED
  BY <1>1, <1>2, <1>3, <1>5, <1>6 DEF Coming

\* The visits of a part of a period are those of the period on its days.
LEMMA VisitsOfPart ==
  ASSUME Mirrored, NEW from \in Int, NEW to \in Int, NEW a \in Int, NEW b \in Int, from <= a, b <= to
  PROVE  Adm!CompletedVisits(a, b) = {v \in Adm!CompletedVisits(from, to) : Adm!Day(v) \in a .. b}
<1>1. \A v \in appts : Adm!Day(v) \in Int
  BY DaysOf
<1>2. \A d \in Int : d \in a .. b => d \in from .. to
  OBVIOUS
<1>3. QED
  BY <1>1, <1>2 DEF Adm!CompletedVisits

-----------------------------------------------------------------------------
(* A person's part of a segment, and of a period. *)

BarbersIn(people, m) == Adm!In(people, m, "barber")
OpzIn(p, s, people, events) ==
  IF p \in AdminsIn(people, s.month) THEN Adm!CreditedOpz(s, people, AdminsIn(people, s.month), events)[p]
  ELSE Adm!OwnOpz(p, s, events)
VisitsIn(p, s, people) ==
  IF p \in AdminsIn(people, s.month) THEN Adm!CreditedVisits(s, people, AdminsIn(people, s.month))[p]
  ELSE Adm!OwnVisits(p, s)

\* Everybody has one of two roles.
LEMMA TwoRoles ==
  ASSUME Books, NEW people \in SUBSET Adm!People, NEW m
  PROVE  BarbersIn(people, m) = people \ AdminsIn(people, m) /\ AdminsIn(people, m) \subseteq people
<1> SUFFICES ASSUME NEW p \in people PROVE Adm!RoleIn(p, m) \in KnownRoles
  BY DEF BarbersIn, AdminsIn, Adm!In, KnownRoles
<1> DEFINE saved == Adm!PlanRows(p, {m}, TRUE)
           rows == IF saved # {} THEN saved ELSE Adm!PlanRows(p, {m}, FALSE)
           row == CHOOSE r \in rows : TRUE
<1>1. Adm!RoleIn(p, m) = IF rows = {} THEN Team[p].role ELSE row.role
  BY DEF Adm!RoleIn
<1>2. rows \subseteq plans
  BY DEF Adm!PlanRows
<1>3. Team[p].role \in KnownRoles
  BY TeamAssumption DEF TeamAssumption, Adm!People
<1>4. \A r \in plans : r.role \in KnownRoles
  BY TeamAssumption DEF TeamAssumption, Books
<1>5. rows # {} => row \in rows
  <2> HIDE DEF rows
  <2>1. QED
    OBVIOUS
<1> HIDE DEF rows, row
<1>6. QED
  BY <1>1, <1>2, <1>3, <1>4, <1>5

\* Who has something of what he may have: the barber who saw it and, if there are administrators
\* and it was not somebody else's, one of those.
Shared(T, e, barber, barbers, admins) ==
  /\ \A p \in barbers : e \in T[p] <=> p = barber
  /\ IF admins # {} /\ (barbers = {} \/ barber \in barbers)
       THEN \E a \in admins : \A p \in admins : e \in T[p] <=> p = a
       ELSE \A p \in admins : e \notin T[p]
TimesOf(people, barbers, barber) ==
  (IF barber \in barbers THEN 1 ELSE 0)
  + (IF barbers # people /\ (barbers = {} \/ barber \in barbers) THEN 1 ELSE 0)

\* So many people have it.
LEMMA SharedTimes ==
  ASSUME NEW people, NEW admins \in SUBSET people, NEW barbers, barbers = people \ admins,
         NEW T, NEW e, NEW barber, Shared(T, e, barber, barbers, admins)
  PROVE  Cardinality({p \in people : e \in T[p]}) = TimesOf(people, barbers, barber)
<1> DEFINE H == {p \in people : e \in T[p]}
           open == admins # {} /\ (barbers = {} \/ barber \in barbers)
<1>1. (barbers # people <=> admins # {}) /\ \A p \in people : p \in barbers \/ p \in admins
  OBVIOUS
<1>2. /\ \A p \in barbers : e \in T[p] <=> p = barber
      /\ open => \E a \in admins : \A p \in admins : e \in T[p] <=> p = a
      /\ ~open => \A p \in admins : e \notin T[p]
  BY DEF Shared
<1>3. /\ ~open /\ barber \notin barbers => TimesOf(people, barbers, barber) = 0
      /\ ~open /\ barber \in barbers => TimesOf(people, barbers, barber) = 1
      /\ open /\ barber \notin barbers => TimesOf(people, barbers, barber) = 1
      /\ open /\ barber \in barbers => TimesOf(people, barbers, barber) = 2
  BY <1>1 DEF TimesOf
<1>4. \A p : p \in H <=> p \in people /\ e \in T[p]
  OBVIOUS
<1> HIDE DEF H, open
<1>5. CASE ~open /\ barber \notin barbers
  <2>1. \A p \in people : e \notin T[p]
    BY <1>1, <1>2, <1>5
  <2>2. H = {}
    BY <1>4, <2>1
  <2>3. Cardinality(H) = 0 /\ TimesOf(people, barbers, barber) = 0
    BY <1>3, <1>5, <2>2, FS_EmptySet
  <2>4. QED
    BY <2>3 DEF H
<1>6. CASE ~open /\ barber \in barbers
  <2>1. \A p \in people : e \in T[p] <=> p = barber
    BY <1>1, <1>2, <1>6
  <2>2. H = {barber}
    BY <1>4, <1>6, <2>1
  <2>3. Cardinality(H) = 1 /\ TimesOf(people, barbers, barber) = 1
    BY <1>3, <1>6, <2>2, FS_Singleton
  <2>4. QED
    BY <2>3 DEF H
<1>7. CASE open
  <2>1. PICK a \in admins : \A p \in admins : e \in T[p] <=> p = a
    BY <1>2, <1>7
  <2>2. CASE barber \notin barbers
    <3>1. \A p \in people : e \in T[p] <=> p = a
      BY <1>1, <1>2, <2>1, <2>2
    <3>2. H = {a}
      BY <1>4, <2>1, <3>1
    <3>3. Cardinality(H) = 1 /\ TimesOf(people, barbers, barber) = 1
      BY <1>3, <1>7, <2>2, <3>2, FS_Singleton
    <3>4. QED
      BY <3>3 DEF H
  <2>3. CASE barber \in barbers
    <3>1. \A p \in people : e \in T[p] <=> p = a \/ p = barber
      BY <1>1, <1>2, <2>1, <2>3
    <3> DEFINE one == {a}
    <3>2. H = one \cup {barber} /\ barber \notin one
      BY <1>4, <2>1, <2>3, <3>1
    <3>3. Cardinality(one) = 1 /\ IsFiniteSet(one)
      BY FS_Singleton
    <3> HIDE DEF one
    <3>4. Cardinality(one \cup {barber}) = Cardinality(one) + 1
      <4>1. barber \notin one
        BY <3>2
      <4>2. QED
        BY <3>3, <4>1, FS_AddElement
    <3>5. TimesOf(people, barbers, barber) = 2
      BY <1>3, <1>7, <2>3
    <3>6. Cardinality(H) = 2
      BY <3>2, <3>3, <3>4
    <3>7. QED
      BY <3>5, <3>6 DEF H
  <2>4. QED
    BY <2>2, <2>3
<1>8. QED
  BY <1>5, <1>6, <1>7

\* A rebooking on a day of the segment is shared among the people of the segment, and others are
\* nobody's there.
LEMMA OpzShared ==
  ASSUME Books, NEW people \in SUBSET Adm!People, NEW s, NEW events, Coming(events)
  PROVE  /\ \A p \in people : OpzIn(p, s, people, events) \subseteq {e \in events : e.day \in s.from .. s.to}
         /\ \A e \in events : e.day \in s.from .. s.to =>
              Shared([p \in people |-> OpzIn(p, s, people, events)], e, e.barber,
                     BarbersIn(people, s.month), AdminsIn(people, s.month))
<1> DEFINE admins == AdminsIn(people, s.month)
           barbers == BarbersIn(people, s.month)
           ofDays == {e \in events : e.day \in s.from .. s.to}
           theirs == Adm!OfBarbers(ofDays, barbers)
           credits == Adm!Credits(theirs, admins)
           T == [p \in people |-> OpzIn(p, s, people, events)]
<1>1. barbers = people \ admins /\ admins \in SUBSET people /\ admins \in SUBSET Adm!People
  BY TwoRoles
<1>2. theirs = {e \in ofDays : barbers = {} \/ e.barber \in barbers}
  BY DEF Adm!OfBarbers
<1>3. Coming(theirs)
  BY <1>2, ComingPart
<1>4. /\ \A p \in admins : T[p] = credits[p]
      /\ \A p \in barbers : T[p] = {e \in ofDays : e.barber = p}
  <2>1. Adm!CreditedOpz(s, people, admins, events) = credits
    BY DEF Adm!CreditedOpz, BarbersIn
  <2>2. \A p \in people : T[p] = IF p \in admins THEN credits[p] ELSE Adm!OwnOpz(p, s, events)
    BY <2>1 DEF OpzIn
  <2>3. \A p : Adm!OwnOpz(p, s, events) = {e \in ofDays : e.barber = p}
    BY DEF Adm!OwnOpz
  <2> HIDE DEF admins, barbers, ofDays, credits, T
  <2>4. QED
    BY <1>1, <2>2, <2>3
<1>5. /\ \A p \in admins : credits[p] \subseteq theirs
      /\ \A e \in theirs : admins # {} => \E a \in admins : \A q \in admins : e \in credits[q] <=> q = a
  <2> HIDE DEF admins, theirs
  <2>1. QED
    BY <1>1, <1>3, CreditsAre
<1>6. \A p \in people : T[p] = OpzIn(p, s, people, events)
  OBVIOUS
<1>7. ofDays \subseteq events /\ \A e \in events : e \in ofDays <=> e.day \in s.from .. s.to
  OBVIOUS
<1> HIDE DEF admins, barbers, ofDays, theirs, credits, T
<1>8. \A p \in people : T[p] \subseteq ofDays
  BY <1>1, <1>2, <1>4, <1>5
<1>9. ASSUME NEW e \in ofDays PROVE Shared(T, e, e.barber, barbers, admins)
  <2>1. \A p \in barbers : e \in T[p] <=> p = e.barber
    BY <1>4
  <2>2. CASE admins # {} /\ (barbers = {} \/ e.barber \in barbers)
    <3>1. \E a \in admins : \A q \in admins : e \in T[q] <=> q = a
      BY <1>2, <1>4, <1>5, <2>2
    <3>2. QED
      BY <2>1, <2>2, <3>1 DEF Shared
  <2>3. CASE ~(admins # {} /\ (barbers = {} \/ e.barber \in barbers))
    <3>1. \A p \in admins : e \notin T[p]
      BY <1>2, <1>4, <1>5, <2>3
    <3>2. QED
      BY <2>1, <2>3, <3>1 DEF Shared
  <2>4. QED
    BY <2>2, <2>3
<1>10. /\ \A p \in people : OpzIn(p, s, people, events) \subseteq ofDays
       /\ \A e \in events : e.day \in s.from .. s.to => Shared(T, e, e.barber, barbers, admins)
  BY <1>6, <1>7, <1>8, <1>9
<1>11. QED
  BY <1>10 DEF T, barbers, admins, ofDays

\* So is a finished visit.
LEMMA VisitsShared ==
  ASSUME Mirrored, Books, NEW people \in SUBSET Adm!People, NEW s
  PROVE  /\ \A p \in people : VisitsIn(p, s, people) \subseteq Adm!CompletedVisits(s.from, s.to)
         /\ \A v \in Adm!CompletedVisits(s.from, s.to) :
              Shared([p \in people |-> VisitsIn(p, s, people)], v, v.barber,
                     BarbersIn(people, s.month), AdminsIn(people, s.month))
<1> DEFINE admins == AdminsIn(people, s.month)
           barbers == BarbersIn(people, s.month)
           ofDays == Adm!CompletedVisits(s.from, s.to)
           vs == Adm!OfBarbers(ofDays, barbers)
           events == {AsEvent(v) : v \in vs}
           credits == Adm!Credits(events, admins)
           T == [p \in people |-> VisitsIn(p, s, people)]
<1>1. barbers = people \ admins /\ admins \in SUBSET people /\ admins \in SUBSET Adm!People
  BY TwoRoles
<1>2. vs = {v \in ofDays : barbers = {} \/ v.barber \in barbers} /\ ofDays \in SUBSET appts
  BY DEF Adm!OfBarbers, Adm!CompletedVisits
<1>3. Coming(events)
  BY <1>2, VisitsCome
<1>4. /\ \A p \in admins : T[p] = {v \in vs : \E e \in credits[p] : e.id = v.id}
      /\ \A p \in barbers : T[p] = {v \in ofDays : v.barber = p}
  <2>1. Adm!CreditedVisits(s, people, admins) = [p \in admins |-> {v \in vs : \E e \in credits[p] : e.id = v.id}]
    BY DEF Adm!CreditedVisits, BarbersIn, AsEvent
  <2>2. \A p \in people : T[p] = IF p \in admins THEN Adm!CreditedVisits(s, people, admins)[p] ELSE Adm!OwnVisits(p, s)
    BY DEF VisitsIn
  <2>3. \A p : Adm!OwnVisits(p, s) = {v \in ofDays : v.barber = p}
    BY DEF Adm!OwnVisits
  <2> HIDE DEF admins, barbers, ofDays, vs, credits, T
  <2>4. QED
    BY <1>1, <2>1, <2>2, <2>3
<1>5. /\ \A p \in admins : credits[p] \subseteq events
      /\ \A e \in events : admins # {} => \E a \in admins : \A q \in admins : e \in credits[q] <=> q = a
  <2> HIDE DEF admins, events
  <2>1. QED
    BY <1>1, <1>3, CreditsAre
<1>6. \A p \in people : T[p] = VisitsIn(p, s, people)
  OBVIOUS
<1>7. \A v \in vs : AsEvent(v) \in events /\ AsEvent(v).id = v.id
  BY DEF AsEvent
<1>8. \A e \in events : \E v \in vs : e = AsEvent(v)
  OBVIOUS
<1> HIDE DEF admins, barbers, ofDays, vs, events, credits, T
<1>9. ASSUME NEW v \in vs, NEW p \in admins PROVE v \in T[p] <=> AsEvent(v) \in credits[p]
  <2>1. ASSUME NEW e \in credits[p], e.id = v.id PROVE e = AsEvent(v)
    <3>1. e \in events /\ AsEvent(v) \in events /\ AsEvent(v).id = e.id
      BY <1>5, <1>7, <2>1
    <3>2. QED
      BY <1>3, <3>1 DEF Coming
  <2>2. QED
    BY <1>4, <1>7, <2>1
<1>10. \A p \in people : T[p] \subseteq ofDays
  BY <1>1, <1>2, <1>4
<1>11. ASSUME NEW v \in ofDays PROVE Shared(T, v, v.barber, barbers, admins)
  <2>1. \A p \in barbers : v \in T[p] <=> p = v.barber
    BY <1>4
  <2>2. CASE admins # {} /\ (barbers = {} \/ v.barber \in barbers)
    <3>1. v \in vs
      BY <1>2, <2>2
    <3>2. \E a \in admins : \A q \in admins : v \in T[q] <=> q = a
      BY <1>5, <1>7, <1>9, <2>2, <3>1
    <3>3. QED
      BY <2>1, <2>2, <3>2 DEF Shared
  <2>3. CASE ~(admins # {} /\ (barbers = {} \/ v.barber \in barbers))
    <3>1. \A p \in admins : v \notin T[p]
      BY <1>2, <1>4, <2>3
    <3>2. QED
      BY <2>1, <2>3, <3>1 DEF Shared
  <2>4. QED
    BY <2>2, <2>3
<1>12. /\ \A p \in people : VisitsIn(p, s, people) \subseteq ofDays
       /\ \A v \in ofDays : Shared(T, v, v.barber, barbers, admins)
  BY <1>6, <1>10, <1>11
<1>13. QED
  BY <1>12 DEF T, barbers, admins, ofDays

-----------------------------------------------------------------------------
(* The sums of the pages are sums of a function. *)

\* The sums of a row over its segments.
ClientsOf(S) == Adm!MapThenSumSet(LAMBDA f : f[2].clients, S)

\* That of finished visits.
LEMMA ClientsOfIs ==
  ASSUME NEW S, NEW g, \A f \in S : g[f] = f[2].clients
  PROVE  ClientsOf(S) = SumOf(g, S)
<1> DEFINE P(h) == h = [s \in SUBSET S |-> IF s = {} THEN 0 ELSE OneOf(s)[2].clients + h[s \ {OneOf(s)}]]
<1>1. ClientsOf(S) = (CHOOSE h : P(h))[S]
  BY DEF ClientsOf, Adm!MapThenSumSet, Adm!MapThenFoldSet, OneOf
<1>2. \A h : P(h) <=> Adds(h, g, S)
  <2>1. \A s \in SUBSET S : s # {} => g[OneOf(s)] = OneOf(s)[2].clients
    BY SomeIn
  <2>2. QED
    BY <2>1 DEF Adds
<1>3. (CHOOSE h : P(h)) = (CHOOSE h : Adds(h, g, S))
  BY <1>2
<1>4. QED
  BY <1>1, <1>3, SumIs

\* ... of its rebookings, ...
OpzOf(S) == Adm!MapThenSumSet(LAMBDA f : f[2].opz, S)

\* That of rebookings.
LEMMA OpzOfIs ==
  ASSUME NEW S, NEW g, \A f \in S : g[f] = f[2].opz
  PROVE  OpzOf(S) = SumOf(g, S)
<1> DEFINE P(h) == h = [s \in SUBSET S |-> IF s = {} THEN 0 ELSE OneOf(s)[2].opz + h[s \ {OneOf(s)}]]
<1>1. OpzOf(S) = (CHOOSE h : P(h))[S]
  BY DEF OpzOf, Adm!MapThenSumSet, Adm!MapThenFoldSet, OneOf
<1>2. \A h : P(h) <=> Adds(h, g, S)
  <2>1. \A s \in SUBSET S : s # {} => g[OneOf(s)] = OneOf(s)[2].opz
    BY SomeIn
  <2>2. QED
    BY <2>1 DEF Adds
<1>3. (CHOOSE h : P(h)) = (CHOOSE h : Adds(h, g, S))
  BY <1>2
<1>4. QED
  BY <1>1, <1>3, SumIs

\* ... and of the typed ones.
TopUpOf(S) == Adm!MapThenSumSet(LAMBDA f : f[2].topUp, S)

\* That of typed ones.
LEMMA TopUpOfIs ==
  ASSUME NEW S, NEW g, \A f \in S : g[f] = f[2].topUp
  PROVE  TopUpOf(S) = SumOf(g, S)
<1> DEFINE P(h) == h = [s \in SUBSET S |-> IF s = {} THEN 0 ELSE OneOf(s)[2].topUp + h[s \ {OneOf(s)}]]
<1>1. TopUpOf(S) = (CHOOSE h : P(h))[S]
  BY DEF TopUpOf, Adm!MapThenSumSet, Adm!MapThenFoldSet, OneOf
<1>2. \A h : P(h) <=> Adds(h, g, S)
  <2>1. \A s \in SUBSET S : s # {} => g[OneOf(s)] = OneOf(s)[2].topUp
    BY SomeIn
  <2>2. QED
    BY <2>1 DEF Adds
<1>3. (CHOOSE h : P(h)) = (CHOOSE h : Adds(h, g, S))
  BY <1>2
<1>4. QED
  BY <1>1, <1>3, SumIs

\* The sums over the rows: of rebookings, ...
AllOpz(rows, S) == Adm!MapThenSumSet(LAMBDA p : rows[p].opz, S)

\* That of all rows' rebookings.
LEMMA AllOpzIs ==
  ASSUME NEW rows, NEW S, NEW g, \A p \in S : g[p] = rows[p].opz
  PROVE  AllOpz(rows, S) = SumOf(g, S)
<1> DEFINE P(h) == h = [s \in SUBSET S |-> IF s = {} THEN 0 ELSE rows[OneOf(s)].opz + h[s \ {OneOf(s)}]]
<1>1. AllOpz(rows, S) = (CHOOSE h : P(h))[S]
  BY DEF AllOpz, Adm!MapThenSumSet, Adm!MapThenFoldSet, OneOf
<1>2. \A h : P(h) <=> Adds(h, g, S)
  <2>1. \A s \in SUBSET S : s # {} => g[OneOf(s)] = rows[OneOf(s)].opz
    BY SomeIn
  <2>2. QED
    BY <2>1 DEF Adds
<1>3. (CHOOSE h : P(h)) = (CHOOSE h : Adds(h, g, S))
  BY <1>2
<1>4. QED
  BY <1>1, <1>3, SumIs

\* ... of finished visits, ...
AllClients(rows, S) == Adm!MapThenSumSet(LAMBDA p : rows[p].clients, S)

\* That of all rows' visits.
LEMMA AllClientsIs ==
  ASSUME NEW rows, NEW S, NEW g, \A p \in S : g[p] = rows[p].clients
  PROVE  AllClients(rows, S) = SumOf(g, S)
<1> DEFINE P(h) == h = [s \in SUBSET S |-> IF s = {} THEN 0 ELSE rows[OneOf(s)].clients + h[s \ {OneOf(s)}]]
<1>1. AllClients(rows, S) = (CHOOSE h : P(h))[S]
  BY DEF AllClients, Adm!MapThenSumSet, Adm!MapThenFoldSet, OneOf
<1>2. \A h : P(h) <=> Adds(h, g, S)
  <2>1. \A s \in SUBSET S : s # {} => g[OneOf(s)] = rows[OneOf(s)].clients
    BY SomeIn
  <2>2. QED
    BY <2>1 DEF Adds
<1>3. (CHOOSE h : P(h)) = (CHOOSE h : Adds(h, g, S))
  BY <1>2
<1>4. QED
  BY <1>1, <1>3, SumIs

\* ... and of the typed ones.
AllTopUps(rows, S) == Adm!MapThenSumSet(LAMBDA p : rows[p].topUp, S)

\* That of all rows' typed rebookings.
LEMMA AllTopUpsIs ==
  ASSUME NEW rows, NEW S, NEW g, \A p \in S : g[p] = rows[p].topUp
  PROVE  AllTopUps(rows, S) = SumOf(g, S)
<1> DEFINE P(h) == h = [s \in SUBSET S |-> IF s = {} THEN 0 ELSE rows[OneOf(s)].topUp + h[s \ {OneOf(s)}]]
<1>1. AllTopUps(rows, S) = (CHOOSE h : P(h))[S]
  BY DEF AllTopUps, Adm!MapThenSumSet, Adm!MapThenFoldSet, OneOf
<1>2. \A h : P(h) <=> Adds(h, g, S)
  <2>1. \A s \in SUBSET S : s # {} => g[OneOf(s)] = rows[OneOf(s)].topUp
    BY SomeIn
  <2>2. QED
    BY <2>1 DEF Adds
<1>3. (CHOOSE h : P(h)) = (CHOOSE h : Adds(h, g, S))
  BY <1>2
<1>4. QED
  BY <1>1, <1>3, SumIs

\* The sums over the days: of rebookings, ...
DaysOpz(days, S) == Adm!MapThenSumSet(LAMBDA d : days[d].opz, S)

\* That of the days' rebookings.
LEMMA DaysOpzIs ==
  ASSUME NEW days, NEW S, NEW g, \A d \in S : g[d] = days[d].opz
  PROVE  DaysOpz(days, S) = SumOf(g, S)
<1> DEFINE P(h) == h = [s \in SUBSET S |-> IF s = {} THEN 0 ELSE days[OneOf(s)].opz + h[s \ {OneOf(s)}]]
<1>1. DaysOpz(days, S) = (CHOOSE h : P(h))[S]
  BY DEF DaysOpz, Adm!MapThenSumSet, Adm!MapThenFoldSet, OneOf
<1>2. \A h : P(h) <=> Adds(h, g, S)
  <2>1. \A s \in SUBSET S : s # {} => g[OneOf(s)] = days[OneOf(s)].opz
    BY SomeIn
  <2>2. QED
    BY <2>1 DEF Adds
<1>3. (CHOOSE h : P(h)) = (CHOOSE h : Adds(h, g, S))
  BY <1>2
<1>4. QED
  BY <1>1, <1>3, SumIs

\* ... and of visits.
DaysVisits(days, S) == Adm!MapThenSumSet(LAMBDA d : days[d].visits, S)

\* That of the days' visits.
LEMMA DaysVisitsIs ==
  ASSUME NEW days, NEW S, NEW g, \A d \in S : g[d] = days[d].visits
  PROVE  DaysVisits(days, S) = SumOf(g, S)
<1> DEFINE P(h) == h = [s \in SUBSET S |-> IF s = {} THEN 0 ELSE days[OneOf(s)].visits + h[s \ {OneOf(s)}]]
<1>1. DaysVisits(days, S) = (CHOOSE h : P(h))[S]
  BY DEF DaysVisits, Adm!MapThenSumSet, Adm!MapThenFoldSet, OneOf
<1>2. \A h : P(h) <=> Adds(h, g, S)
  <2>1. \A s \in SUBSET S : s # {} => g[OneOf(s)] = days[OneOf(s)].visits
    BY SomeIn
  <2>2. QED
    BY <2>1 DEF Adds
<1>3. (CHOOSE h : P(h)) = (CHOOSE h : Adds(h, g, S))
  BY <1>2
<1>4. QED
  BY <1>1, <1>3, SumIs

\* The sums over the parts of an overview: of visits, ...
PartsVisits(S) == Adm!MapThenSumSet(LAMBDA x : Adm!Cardinality(x.visits), S)

\* That of an overview's visits.
LEMMA PartsVisitsIs ==
  ASSUME NEW S, NEW g, \A x \in S : g[x] = Adm!Cardinality(x.visits)
  PROVE  PartsVisits(S) = SumOf(g, S)
<1> DEFINE P(h) == h = [s \in SUBSET S |-> IF s = {} THEN 0 ELSE Adm!Cardinality(OneOf(s).visits) + h[s \ {OneOf(s)}]]
<1>1. PartsVisits(S) = (CHOOSE h : P(h))[S]
  BY DEF PartsVisits, Adm!MapThenSumSet, Adm!MapThenFoldSet, OneOf
<1>2. \A h : P(h) <=> Adds(h, g, S)
  <2>1. \A s \in SUBSET S : s # {} => g[OneOf(s)] = Adm!Cardinality(OneOf(s).visits)
    BY SomeIn
  <2>2. QED
    BY <2>1 DEF Adds
<1>3. (CHOOSE h : P(h)) = (CHOOSE h : Adds(h, g, S))
  BY <1>2
<1>4. QED
  BY <1>1, <1>3, SumIs

\* ... and of first visits.
PartsFirst(S) == Adm!MapThenSumSet(LAMBDA x : Adm!Cardinality(Adm!FirstVisits(x.visits, x.s.to)), S)

\* That of its first visits.
LEMMA PartsFirstIs ==
  ASSUME NEW S, NEW g, \A x \in S : g[x] = Adm!Cardinality(Adm!FirstVisits(x.visits, x.s.to))
  PROVE  PartsFirst(S) = SumOf(g, S)
<1> DEFINE P(h) == h = [s \in SUBSET S |-> IF s = {} THEN 0 ELSE Adm!Cardinality(Adm!FirstVisits(OneOf(s).visits, OneOf(s).s.to)) + h[s \ {OneOf(s)}]]
<1>1. PartsFirst(S) = (CHOOSE h : P(h))[S]
  BY DEF PartsFirst, Adm!MapThenSumSet, Adm!MapThenFoldSet, OneOf
<1>2. \A h : P(h) <=> Adds(h, g, S)
  <2>1. \A s \in SUBSET S : s # {} => g[OneOf(s)] = Adm!Cardinality(Adm!FirstVisits(OneOf(s).visits, OneOf(s).s.to))
    BY SomeIn
  <2>2. QED
    BY <2>1 DEF Adds
<1>3. (CHOOSE h : P(h)) = (CHOOSE h : Adds(h, g, S))
  BY <1>2
<1>4. QED
  BY <1>1, <1>3, SumIs

\* The typed numbers of some people and months.
TypedIn(S) == Adm!MapThenSumSet(LAMBDA k : TopUps[k], S)

\* That of typed values.
LEMMA TypedInIs ==
  ASSUME NEW S, NEW g, \A k \in S : g[k] = TopUps[k]
  PROVE  TypedIn(S) = SumOf(g, S)
<1> DEFINE P(h) == h = [s \in SUBSET S |-> IF s = {} THEN 0 ELSE TopUps[OneOf(s)] + h[s \ {OneOf(s)}]]
<1>1. TypedIn(S) = (CHOOSE h : P(h))[S]
  BY DEF TypedIn, Adm!MapThenSumSet, Adm!MapThenFoldSet, OneOf
<1>2. \A h : P(h) <=> Adds(h, g, S)
  <2>1. \A s \in SUBSET S : s # {} => g[OneOf(s)] = TopUps[OneOf(s)]
    BY SomeIn
  <2>2. QED
    BY <2>1 DEF Adds
<1>3. (CHOOSE h : P(h)) = (CHOOSE h : Adds(h, g, S))
  BY <1>2
<1>4. QED
  BY <1>1, <1>3, SumIs

\* ... of people, in their months as administrators.
PeopleTopUps(from, to, months, S) == Adm!MapThenSumSet(LAMBDA p : Adm!TopUp(p, Adm!AdminMonths(p, from, to) \cap months), S)

\* That of what was typed in for some people.
LEMMA PeopleTopUpsIs ==
  ASSUME NEW from, NEW to, NEW months, NEW S, NEW g, \A p \in S : g[p] = Adm!TopUp(p, Adm!AdminMonths(p, from, to) \cap months)
  PROVE  PeopleTopUps(from, to, months, S) = SumOf(g, S)
<1> DEFINE P(h) == h = [s \in SUBSET S |-> IF s = {} THEN 0 ELSE Adm!TopUp(OneOf(s), Adm!AdminMonths(OneOf(s), from, to) \cap months) + h[s \ {OneOf(s)}]]
<1>1. PeopleTopUps(from, to, months, S) = (CHOOSE h : P(h))[S]
  BY DEF PeopleTopUps, Adm!MapThenSumSet, Adm!MapThenFoldSet, OneOf
<1>2. \A h : P(h) <=> Adds(h, g, S)
  <2>1. \A s \in SUBSET S : s # {} => g[OneOf(s)] = Adm!TopUp(OneOf(s), Adm!AdminMonths(OneOf(s), from, to) \cap months)
    BY SomeIn
  <2>2. QED
    BY <2>1 DEF Adds
<1>3. (CHOOSE h : P(h)) = (CHOOSE h : Adds(h, g, S))
  BY <1>2
<1>4. QED
  BY <1>1, <1>3, SumIs

\* The rebookings an editor shows of a person.
CreditedTo(p, S) == Adm!MapThenSumSet(LAMBDA c : (IF p \in DOMAIN c.to THEN Adm!Cardinality(c.to[p]) ELSE 0), S)

\* That of what the editor credits somebody with.
LEMMA CreditedToIs ==
  ASSUME NEW p, NEW S, NEW g, \A c \in S : g[c] = (IF p \in DOMAIN c.to THEN Adm!Cardinality(c.to[p]) ELSE 0)
  PROVE  CreditedTo(p, S) = SumOf(g, S)
<1> DEFINE P(h) == h = [s \in SUBSET S |-> IF s = {} THEN 0 ELSE (IF p \in DOMAIN OneOf(s).to THEN Adm!Cardinality(OneOf(s).to[p]) ELSE 0) + h[s \ {OneOf(s)}]]
<1>1. CreditedTo(p, S) = (CHOOSE h : P(h))[S]
  BY DEF CreditedTo, Adm!MapThenSumSet, Adm!MapThenFoldSet, OneOf
<1>2. \A h : P(h) <=> Adds(h, g, S)
  <2>1. \A s \in SUBSET S : s # {} => g[OneOf(s)] = (IF p \in DOMAIN OneOf(s).to THEN Adm!Cardinality(OneOf(s).to[p]) ELSE 0)
    BY SomeIn
  <2>2. QED
    BY <2>1 DEF Adds
<1>3. (CHOOSE h : P(h)) = (CHOOSE h : Adds(h, g, S))
  BY <1>2
<1>4. QED
  BY <1>1, <1>3, SumIs

\* The numbers of the months.
MonthsTell(counts, S) == Adm!MapThenSumSet(LAMBDA m : counts[m], S)

\* That of the months.
LEMMA MonthsTellIs ==
  ASSUME NEW counts, NEW S, NEW g, \A m \in S : g[m] = counts[m]
  PROVE  MonthsTell(counts, S) = SumOf(g, S)
<1> DEFINE P(h) == h = [s \in SUBSET S |-> IF s = {} THEN 0 ELSE counts[OneOf(s)] + h[s \ {OneOf(s)}]]
<1>1. MonthsTell(counts, S) = (CHOOSE h : P(h))[S]
  BY DEF MonthsTell, Adm!MapThenSumSet, Adm!MapThenFoldSet, OneOf
<1>2. \A h : P(h) <=> Adds(h, g, S)
  <2>1. \A s \in SUBSET S : s # {} => g[OneOf(s)] = counts[OneOf(s)]
    BY SomeIn
  <2>2. QED
    BY <2>1 DEF Adds
<1>3. (CHOOSE h : P(h)) = (CHOOSE h : Adds(h, g, S))
  BY <1>2
<1>4. QED
  BY <1>1, <1>3, SumIs

\* How many rows have a rebooking, and a visit, of all.
OpzTimes(people, S) == Adm!MapThenSumSet(LAMBDA e : TimesOf(people, BarbersIn(people, Adm!Month(e.day)), e.barber), S)

\* That of how often rebookings are in rows.
LEMMA OpzTimesIs ==
  ASSUME NEW people, NEW S, NEW g, \A e \in S : g[e] = TimesOf(people, BarbersIn(people, Adm!Month(e.day)), e.barber)
  PROVE  OpzTimes(people, S) = SumOf(g, S)
<1> DEFINE P(h) == h = [s \in SUBSET S |-> IF s = {} THEN 0 ELSE TimesOf(people, BarbersIn(people, Adm!Month(OneOf(s).day)), OneOf(s).barber) + h[s \ {OneOf(s)}]]
<1>1. OpzTimes(people, S) = (CHOOSE h : P(h))[S]
  BY DEF OpzTimes, Adm!MapThenSumSet, Adm!MapThenFoldSet, OneOf
<1>2. \A h : P(h) <=> Adds(h, g, S)
  <2>1. \A s \in SUBSET S : s # {} => g[OneOf(s)] = TimesOf(people, BarbersIn(people, Adm!Month(OneOf(s).day)), OneOf(s).barber)
    BY SomeIn
  <2>2. QED
    BY <2>1 DEF Adds
<1>3. (CHOOSE h : P(h)) = (CHOOSE h : Adds(h, g, S))
  BY <1>2
<1>4. QED
  BY <1>1, <1>3, SumIs

\* ... and a visit.
VisitTimes(people, S) == Adm!MapThenSumSet(LAMBDA v : TimesOf(people, BarbersIn(people, Adm!Month(Adm!Day(v))), v.barber), S)

\* That of how often visits are.
LEMMA VisitTimesIs ==
  ASSUME NEW people, NEW S, NEW g, \A v \in S : g[v] = TimesOf(people, BarbersIn(people, Adm!Month(Adm!Day(v))), v.barber)
  PROVE  VisitTimes(people, S) = SumOf(g, S)
<1> DEFINE P(h) == h = [s \in SUBSET S |-> IF s = {} THEN 0 ELSE TimesOf(people, BarbersIn(people, Adm!Month(Adm!Day(OneOf(s)))), OneOf(s).barber) + h[s \ {OneOf(s)}]]
<1>1. VisitTimes(people, S) = (CHOOSE h : P(h))[S]
  BY DEF VisitTimes, Adm!MapThenSumSet, Adm!MapThenFoldSet, OneOf
<1>2. \A h : P(h) <=> Adds(h, g, S)
  <2>1. \A s \in SUBSET S : s # {} => g[OneOf(s)] = TimesOf(people, BarbersIn(people, Adm!Month(Adm!Day(OneOf(s)))), OneOf(s).barber)
    BY SomeIn
  <2>2. QED
    BY <2>1 DEF Adds
<1>3. (CHOOSE h : P(h)) = (CHOOSE h : Adds(h, g, S))
  BY <1>2
<1>4. QED
  BY <1>1, <1>3, SumIs

-----------------------------------------------------------------------------
(* What a person has of a period. *)

Gathered(piece, p, segs) == UNION {piece[<<p, s>>] : s \in segs}

\* Parts of what lies on the days of a period, by segments; and what follows of them: of each
\* event the segments have what the one has in which it lies.
DayParts(piece, people, segs, E, day, from, to) ==
  /\ \A e \in E : day[e] \in from .. to
  /\ \A p \in people, s \in segs : piece[<<p, s>>] \subseteq {e \in E : day[e] \in s.from .. s.to}
PartsApart(piece, p, segs) == \A s \in segs, t \in segs : s # t => piece[<<p, s>>] \cap piece[<<p, t>>] = {}
LiesIn(e, s, piece, people, segs, day) ==
  /\ day[e] \in s.from .. s.to
  /\ AdminsIn(people, Adm!Month(day[e])) = AdminsIn(people, s.month)
  /\ \A p \in people : e \in Gathered(piece, p, segs) <=> e \in piece[<<p, s>>]

\* What falls on one day falls into one segment, and into no other.
LEMMA InOneSegment ==
  ASSUME NEW people, NEW from, NEW to, NEW segs, Cuts(people, from, to, segs),
         NEW E, NEW day, NEW piece, DayParts(piece, people, segs, E, day, from, to)
  PROVE  /\ \A p \in people : Gathered(piece, p, segs) \subseteq E /\ PartsApart(piece, p, segs)
         /\ \A e \in E : \E s \in segs : LiesIn(e, s, piece, people, segs, day)
<1>0. /\ \A e \in E : day[e] \in from .. to
      /\ \A p \in people, s \in segs : piece[<<p, s>>] \subseteq {e \in E : day[e] \in s.from .. s.to}
  BY DEF DayParts
<1>1. \A s \in segs, t \in segs : s # t => (s.from .. s.to) \cap (t.from .. t.to) = {}
  BY DEF Cuts
<1>2. \A p \in people : PartsApart(piece, p, segs)
  <2> SUFFICES ASSUME NEW p \in people, NEW s \in segs, NEW t \in segs, s # t,
                      NEW e, e \in piece[<<p, s>>], e \in piece[<<p, t>>]
               PROVE  FALSE
    BY Zenon DEF PartsApart
  <2>1. day[e] \in s.from .. s.to /\ day[e] \in t.from .. t.to
    BY <1>0
  <2>2. QED
    BY <1>1, <2>1
<1>3. \A p \in people : Gathered(piece, p, segs) \subseteq E
  BY <1>0 DEF Gathered
<1>4. ASSUME NEW e \in E PROVE \E s \in segs : LiesIn(e, s, piece, people, segs, day)
  <2>1. PICK s \in segs : day[e] \in s.from .. s.to
    BY <1>0 DEF Cuts
  <2>2. AdminsIn(people, Adm!Month(day[e])) = AdminsIn(people, s.month)
    BY <2>1 DEF Cuts
  <2>3. ASSUME NEW p \in people, NEW t \in segs, e \in piece[<<p, t>>] PROVE t = s
    <3>1. day[e] \in t.from .. t.to
      BY <1>0, <2>3
    <3>2. QED
      BY <1>1, <2>1, <3>1
  <2>4. \A p \in people : e \in Gathered(piece, p, segs) <=> e \in piece[<<p, s>>]
    BY <2>3 DEF Gathered
  <2>5. QED
    BY <2>1, <2>2, <2>4 DEF LiesIn
<1>5. QED
  BY <1>2, <1>3, <1>4

\* The people of the rows, and their segments.
SegmentsOf(from, to) == Adm!RoleSegments(Adm!Listed(from, to), from, to)
OpzPart(from, to, events) ==
  [x \in Adm!Listed(from, to) \X SegmentsOf(from, to) |-> OpzIn(x[1], x[2], Adm!Listed(from, to), events)]
VisitPart(from, to) ==
  [x \in Adm!Listed(from, to) \X SegmentsOf(from, to) |-> VisitsIn(x[1], x[2], Adm!Listed(from, to))]
TheirOpz(p, from, to, events) == Gathered(OpzPart(from, to, events), p, SegmentsOf(from, to))
TheirVisits(p, from, to) == Gathered(VisitPart(from, to), p, SegmentsOf(from, to))

\* What may be given away of a period.
OfPeriod(events, from, to) == Coming(events) /\ \A e \in events : e.day \in from .. to

\* Every rebooking of a period is shared among all its rows.
LEMMA OpzGathered ==
  ASSUME Books, NEW from, NEW to, Period(from, to), NEW events, OfPeriod(events, from, to)
  PROVE  /\ \A p \in Adm!Listed(from, to) :
              /\ TheirOpz(p, from, to, events) \subseteq events
              /\ PartsApart(OpzPart(from, to, events), p, SegmentsOf(from, to))
         /\ \A e \in events :
              Shared([p \in Adm!Listed(from, to) |-> TheirOpz(p, from, to, events)], e, e.barber,
                     BarbersIn(Adm!Listed(from, to), Adm!Month(e.day)), AdminsIn(Adm!Listed(from, to), Adm!Month(e.day)))
<1> DEFINE people == Adm!Listed(from, to)
           segs == SegmentsOf(from, to)
           piece == OpzPart(from, to, events)
           day == [e \in events |-> e.day]
           whole == [p \in people |-> TheirOpz(p, from, to, events)]
<1>1. people \in SUBSET Adm!People
  BY DEF Adm!Listed
<1>2. Cuts(people, from, to, segs)
  BY SegmentsCut DEF SegmentsOf
<1>3. Coming(events) /\ \A e \in events : day[e] = e.day /\ day[e] \in from .. to
  BY DEF OfPeriod
<1>4. \A p \in people, s \in segs : piece[<<p, s>>] = OpzIn(p, s, people, events)
  BY DEF OpzPart
<1>5. \A p \in people : whole[p] = Gathered(piece, p, segs) /\ whole[p] = TheirOpz(p, from, to, events)
  BY DEF TheirOpz
<1> HIDE DEF people, segs, piece, day, whole
<1>6. ASSUME NEW s \in segs
      PROVE  /\ \A p \in people : piece[<<p, s>>] \subseteq {e \in events : day[e] \in s.from .. s.to}
             /\ \A e \in events : day[e] \in s.from .. s.to =>
                  Shared([p \in people |-> OpzIn(p, s, people, events)], e, e.barber,
                         BarbersIn(people, s.month), AdminsIn(people, s.month))
  <2>1. /\ \A p \in people : OpzIn(p, s, people, events) \subseteq {e \in events : e.day \in s.from .. s.to}
        /\ \A e \in events : e.day \in s.from .. s.to =>
             Shared([p \in people |-> OpzIn(p, s, people, events)], e, e.barber,
                    BarbersIn(people, s.month), AdminsIn(people, s.month))
    BY <1>1, <1>3, OpzShared
  <2>2. QED
    BY <1>3, <1>4, <2>1
<1>7. /\ \A p \in people : Gathered(piece, p, segs) \subseteq events /\ PartsApart(piece, p, segs)
      /\ \A e \in events : \E s \in segs : LiesIn(e, s, piece, people, segs, day)
  <2>1. DayParts(piece, people, segs, events, day, from, to)
    BY <1>3, <1>6 DEF DayParts
  <2>2. QED
    BY <1>2, <2>1, InOneSegment
<1>8. ASSUME NEW e \in events
      PROVE  Shared(whole, e, e.barber, BarbersIn(people, Adm!Month(e.day)), AdminsIn(people, Adm!Month(e.day)))
  <2>0. PICK s \in segs : LiesIn(e, s, piece, people, segs, day)
    BY <1>7
  <2>1. /\ day[e] \in s.from .. s.to
        /\ AdminsIn(people, Adm!Month(day[e])) = AdminsIn(people, s.month)
        /\ \A p \in people : e \in Gathered(piece, p, segs) <=> e \in piece[<<p, s>>]
    BY <2>0 DEF LiesIn
  <2> DEFINE one == [p \in people |-> OpzIn(p, s, people, events)]
             admins == AdminsIn(people, s.month)
             barbers == BarbersIn(people, s.month)
  <2>2. Shared(one, e, e.barber, barbers, admins)
    BY <1>6, <2>1
  <2>3. /\ BarbersIn(people, Adm!Month(e.day)) = barbers /\ AdminsIn(people, Adm!Month(e.day)) = admins
        /\ barbers \subseteq people /\ admins \subseteq people
    <3> DEFINE m == Adm!Month(e.day)
    <3>1. AdminsIn(people, m) = admins
      BY <1>3, <2>1
    <3>2. BarbersIn(people, m) = people \ AdminsIn(people, m) /\ barbers = people \ admins /\ admins \subseteq people
      BY <1>1, TwoRoles
    <3>3. QED
      BY <3>1, <3>2
  <2>4. \A p \in people : e \in whole[p] <=> e \in one[p]
    BY <1>4, <1>5, <2>1
  <2> HIDE DEF one, admins, barbers
  <2>5. Shared(whole, e, e.barber, barbers, admins)
    BY <2>2, <2>3, <2>4 DEF Shared
  <2>6. QED
    BY <2>3, <2>5
<1>9. /\ \A p \in people : /\ TheirOpz(p, from, to, events) \subseteq events
                           /\ PartsApart(piece, p, segs)
      /\ \A e \in events : Shared(whole, e, e.barber, BarbersIn(people, Adm!Month(e.day)),
                                  AdminsIn(people, Adm!Month(e.day)))
  BY <1>5, <1>7, <1>8
<1>10. QED
  BY <1>9 DEF people, segs, piece, whole

\* Every finished visit of a period is shared among all its rows.
LEMMA VisitsGathered ==
  ASSUME Mirrored, Books, NEW from, NEW to, Period(from, to)
  PROVE  /\ \A p \in Adm!Listed(from, to) :
              /\ TheirVisits(p, from, to) \subseteq Adm!CompletedVisits(from, to)
              /\ PartsApart(VisitPart(from, to), p, SegmentsOf(from, to))
         /\ \A v \in Adm!CompletedVisits(from, to) :
              Shared([p \in Adm!Listed(from, to) |-> TheirVisits(p, from, to)], v, v.barber,
                     BarbersIn(Adm!Listed(from, to), Adm!Month(Adm!Day(v))),
                     AdminsIn(Adm!Listed(from, to), Adm!Month(Adm!Day(v))))
<1> DEFINE people == Adm!Listed(from, to)
           segs == SegmentsOf(from, to)
           piece == VisitPart(from, to)
           visits == Adm!CompletedVisits(from, to)
           day == [v \in visits |-> Adm!Day(v)]
           whole == [p \in people |-> TheirVisits(p, from, to)]
<1>1. people \in SUBSET Adm!People
  BY DEF Adm!Listed
<1>2. Cuts(people, from, to, segs)
  BY SegmentsCut DEF SegmentsOf
<1>3. \A v \in visits : day[v] = Adm!Day(v) /\ day[v] \in from .. to
  BY DEF Adm!CompletedVisits
<1>4. \A p \in people, s \in segs : piece[<<p, s>>] = VisitsIn(p, s, people)
  BY DEF VisitPart
<1>5. \A p \in people : whole[p] = Gathered(piece, p, segs) /\ whole[p] = TheirVisits(p, from, to)
  BY DEF TheirVisits
<1>0. \A s \in segs : Adm!CompletedVisits(s.from, s.to) = {v \in visits : day[v] \in s.from .. s.to}
  <2> SUFFICES ASSUME NEW s \in segs
               PROVE  Adm!CompletedVisits(s.from, s.to) = {v \in visits : Adm!Day(v) \in s.from .. s.to}
    BY <1>3
  <2>1. from \in Int /\ to \in Int /\ s.from \in Int /\ s.to \in Int /\ from <= s.from /\ s.to <= to
    BY <1>2, PeriodIs DEF Cuts
  <2>2. QED
    BY <2>1, VisitsOfPart
<1> HIDE DEF people, segs, piece, visits, day, whole
<1>6. ASSUME NEW s \in segs
      PROVE  /\ \A p \in people : piece[<<p, s>>] \subseteq {v \in visits : day[v] \in s.from .. s.to}
             /\ \A v \in visits : day[v] \in s.from .. s.to =>
                  Shared([p \in people |-> VisitsIn(p, s, people)], v, v.barber,
                         BarbersIn(people, s.month), AdminsIn(people, s.month))
  <2>1. /\ \A p \in people : VisitsIn(p, s, people) \subseteq Adm!CompletedVisits(s.from, s.to)
        /\ \A v \in Adm!CompletedVisits(s.from, s.to) :
             Shared([p \in people |-> VisitsIn(p, s, people)], v, v.barber,
                    BarbersIn(people, s.month), AdminsIn(people, s.month))
    BY <1>1, VisitsShared
  <2>2. QED
    BY <1>0, <1>4, <2>1
<1>7. /\ \A p \in people : Gathered(piece, p, segs) \subseteq visits /\ PartsApart(piece, p, segs)
      /\ \A v \in visits : \E s \in segs : LiesIn(v, s, piece, people, segs, day)
  <2>1. DayParts(piece, people, segs, visits, day, from, to)
    BY <1>3, <1>6 DEF DayParts
  <2>2. QED
    BY <1>2, <2>1, InOneSegment
<1>8. ASSUME NEW v \in visits
      PROVE  Shared(whole, v, v.barber, BarbersIn(people, Adm!Month(Adm!Day(v))), AdminsIn(people, Adm!Month(Adm!Day(v))))
  <2>0. PICK s \in segs : LiesIn(v, s, piece, people, segs, day)
    BY <1>7
  <2>1. /\ day[v] \in s.from .. s.to
        /\ AdminsIn(people, Adm!Month(day[v])) = AdminsIn(people, s.month)
        /\ \A p \in people : v \in Gathered(piece, p, segs) <=> v \in piece[<<p, s>>]
    BY <2>0 DEF LiesIn
  <2> DEFINE one == [p \in people |-> VisitsIn(p, s, people)]
             admins == AdminsIn(people, s.month)
             barbers == BarbersIn(people, s.month)
  <2>2. Shared(one, v, v.barber, barbers, admins)
    BY <1>6, <2>1
  <2>3. /\ BarbersIn(people, Adm!Month(Adm!Day(v))) = barbers /\ AdminsIn(people, Adm!Month(Adm!Day(v))) = admins
        /\ barbers \subseteq people /\ admins \subseteq people
    <3> DEFINE m == Adm!Month(Adm!Day(v))
    <3>1. AdminsIn(people, m) = admins
      BY <1>3, <2>1
    <3>2. BarbersIn(people, m) = people \ AdminsIn(people, m) /\ barbers = people \ admins /\ admins \subseteq people
      BY <1>1, TwoRoles
    <3>3. QED
      BY <3>1, <3>2
  <2>4. \A p \in people : v \in whole[p] <=> v \in one[p]
    BY <1>4, <1>5, <2>1
  <2> HIDE DEF one, admins, barbers
  <2>5. Shared(whole, v, v.barber, barbers, admins)
    BY <2>2, <2>3, <2>4 DEF Shared
  <2>6. QED
    BY <2>3, <2>5
<1>9. /\ \A p \in people : /\ TheirVisits(p, from, to) \subseteq visits
                           /\ PartsApart(piece, p, segs)
      /\ \A v \in visits : Shared(whole, v, v.barber, BarbersIn(people, Adm!Month(Adm!Day(v))),
                                  AdminsIn(people, Adm!Month(Adm!Day(v))))
  BY <1>5, <1>7, <1>8
<1>10. QED
  BY <1>9 DEF people, segs, piece, visits, whole

-----------------------------------------------------------------------------
(* Typed rebookings. *)

\* The typed numbers of a person and months, where the branch had opened.
Keys(p, months) == {k \in DOMAIN TopUps : k[1] = p /\ k[2] \in months /\ Adm!LastDay(k[2]) >= opened}

\* Typed numbers can be added up.
LEMMA TypedSums ==
  ASSUME NEW S \in SUBSET DOMAIN TopUps
  PROVE  Summable(TopUps, S) /\ TypedIn(S) = SumOf(TopUps, S) /\ TypedIn(S) \in Nat
<1>1. IsFiniteSet(S) /\ \A k \in S : TopUps[k] \in Nat
  BY FS_Subset, TeamAssumption DEF TeamAssumption
<1>2. Summable(TopUps, S)
  BY <1>1 DEF Summable
<1>3. TypedIn(S) = SumOf(TopUps, S)
  BY TypedInIs
<1>4. SumOf(TopUps, S) \in Nat
  <2>1. Nat \in SUBSET Int /\ 0 \in Nat /\ \A a \in Nat, b \in Nat : a + b \in Nat
    OBVIOUS
  <2>2. QED
    BY <1>1, <2>1, SumIn
<1>5. QED
  BY <1>2, <1>3, <1>4

\* What is typed in for somebody is a natural number, the sum of his values.
LEMMA TopUpIs ==
  ASSUME NEW p, NEW months
  PROVE  /\ Adm!TopUp(p, months) = SumOf(TopUps, Keys(p, months)) /\ Adm!TopUp(p, months) \in Nat
         /\ Keys(p, months) \in SUBSET DOMAIN TopUps
<1>1. Keys(p, months) \in SUBSET DOMAIN TopUps
  BY DEF Keys
<1>2. Adm!TopUp(p, months) = TypedIn(Keys(p, months))
  BY DEF Adm!TopUp, TypedIn, Keys
<1>3. QED
  BY <1>1, <1>2, TypedSums

\* What is typed in for a person counts in the segments in which he is an administrator.
TopUpIn(p, s, people, countable) ==
  IF p \in AdminsIn(people, s.month) THEN Adm!TopUp(p, Adm!MonthsOf(s.from, s.to) \cap countable) ELSE 0

\* Over the segments it is what is typed in for his months as an administrator.
LEMMA TopUpGathered ==
  ASSUME NEW people, NEW from, NEW to, NEW segs, Cuts(people, from, to, segs), NEW p \in people, NEW countable,
         NEW w, \A s \in segs : w[s] = TopUpIn(p, s, people, countable)
  PROVE  /\ SumOf(w, segs) = Adm!TopUp(p, Adm!AdminMonths(p, from, to) \cap countable)
         /\ \A s \in segs : w[s] \in Int
<1> DEFINE all == Keys(p, Adm!AdminMonths(p, from, to) \cap countable)
           months(s) == Adm!MonthsOf(s.from, s.to)
           piece == [s \in segs |-> IF p \in AdminsIn(people, s.month) THEN Keys(p, months(s) \cap countable) ELSE {}]
<1>1. \A m : p \in AdminsIn(people, m) <=> Adm!RoleIn(p, m) = "administrator"
  BY DEF AdminsIn, Adm!In
<1>2. Summable(TopUps, all)
  BY TopUpIs, TypedSums
<1>3. ASSUME NEW s \in segs PROVE piece[s] \subseteq all /\ w[s] = SumOf(TopUps, piece[s])
  <2>1. \A m \in months(s) : m \in Adm!MonthsOf(from, to) /\ AdminsIn(people, m) = AdminsIn(people, s.month)
    BY DEF Cuts
  <2>2. CASE p \in AdminsIn(people, s.month)
    <3>1. piece[s] = Keys(p, months(s) \cap countable)
      BY <2>2
    <3>2. \A m \in months(s) : m \in Adm!AdminMonths(p, from, to)
      BY <1>1, <2>1, <2>2 DEF Adm!AdminMonths
    <3>3. piece[s] \subseteq all
      BY <3>1, <3>2 DEF Keys
    <3>4. w[s] = SumOf(TopUps, Keys(p, months(s) \cap countable))
      BY <2>2, TopUpIs DEF TopUpIn
    <3>5. QED
      BY <3>1, <3>3, <3>4
  <2>3. CASE p \notin AdminsIn(people, s.month)
    <3>1. piece[s] = {} /\ w[s] = 0
      BY <2>3 DEF TopUpIn
    <3> DEFINE none == {}
    <3>2. none \in SUBSET DOMAIN TopUps /\ none = {}
      OBVIOUS
    <3> HIDE DEF none
    <3>3. SumOf(TopUps, none) = 0
      BY <3>2, TypedSums, SumStep
    <3>4. QED
      BY <3>1, <3>2, <3>3
  <2>4. QED
    BY <2>2, <2>3
<1>4. ASSUME NEW s \in segs, NEW t \in segs, s # t PROVE piece[s] \cap piece[t] = {}
  <2>1. months(s) \cap months(t) = {}
    BY <1>4 DEF Cuts
  <2>2. (\A k \in piece[s] : k[2] \in months(s)) /\ \A k \in piece[t] : k[2] \in months(t)
    BY DEF Keys
  <2>3. QED
    BY <2>1, <2>2
<1>5. ASSUME NEW k \in all PROVE \E s \in segs : k \in piece[s]
  <2>1. /\ k \in DOMAIN TopUps /\ k[1] = p /\ k[2] \in countable /\ Adm!LastDay(k[2]) >= opened
        /\ k[2] \in Adm!MonthsOf(from, to) /\ Adm!RoleIn(p, k[2]) = "administrator"
    BY DEF Keys, Adm!AdminMonths
  <2>2. PICK s \in segs : k[2] \in months(s)
    BY <2>1 DEF Cuts
  <2>3. AdminsIn(people, k[2]) = AdminsIn(people, s.month)
    BY <2>2 DEF Cuts
  <2>4. p \in AdminsIn(people, s.month)
    BY <1>1, <2>1, <2>3
  <2>5. k \in Keys(p, months(s) \cap countable)
    BY <2>1, <2>2 DEF Keys
  <2>6. QED
    BY <2>4, <2>5
<1>6. IsFiniteSet(segs)
  BY DEF Cuts
<1>7. ASSUME NEW s \in segs PROVE w[s] \in Int
  <2> DEFINE typed == Adm!TopUp(p, months(s) \cap countable)
  <2>1. typed \in Nat
    BY TopUpIs
  <2>2. w[s] = IF p \in AdminsIn(people, s.month) THEN typed ELSE 0
    BY DEF TopUpIn
  <2> HIDE DEF typed
  <2>3. QED
    BY <2>1, <2>2
<1> HIDE DEF all, piece
<1>8. SumOf(TopUps, all) = SumOf(w, segs)
  BY <1>2, <1>3, <1>4, <1>5, <1>6, SumParts
<1>9. QED
  BY <1>7, <1>8, TopUpIs DEF all

-----------------------------------------------------------------------------
(* The rows of Plan/fact. *)

\* A segment of a row, as Plan/fact makes it.
PartOf(s, people, events) ==
  [s |-> s, opz |-> Adm!CreditedOpz(s, people, AdminsIn(people, s.month), events),
   visits |-> Adm!CreditedVisits(s, people, AdminsIn(people, s.month))]

\* It tells a person's piece of the segment.
LEMMA FactIs ==
  ASSUME NEW people, NEW s, NEW events, NEW countable, NEW p \in people
  PROVE  Adm!Fact(p, PartOf(s, people, events), events, countable) =
           [clients |-> Cardinality(VisitsIn(p, s, people)), opz |-> Cardinality(OpzIn(p, s, people, events)),
            topUp |-> TopUpIn(p, s, people, countable)]
<1> DEFINE admins == AdminsIn(people, s.month)
           x == PartOf(s, people, events)
<1>1. /\ x.s = s /\ x.opz = Adm!CreditedOpz(s, people, admins, events)
      /\ x.visits = Adm!CreditedVisits(s, people, admins)
  BY DEF PartOf
<1>2. DOMAIN x.opz = admins
  BY <1>1 DEF Adm!CreditedOpz, Adm!Credits
<1> HIDE DEF admins, x
<1>3. Adm!Fact(p, x, events, countable) =
        IF p \in admins
          THEN [clients |-> Cardinality(x.visits[p]), opz |-> Cardinality(x.opz[p]),
                topUp |-> Adm!TopUp(p, Adm!MonthsOf(x.s.from, x.s.to) \cap countable)]
          ELSE [clients |-> Cardinality(Adm!OwnVisits(p, x.s)), opz |-> Cardinality(Adm!OwnOpz(p, x.s, events)),
                topUp |-> 0]
  BY <1>2, LibraryIs DEF Adm!Fact
<1>4. CASE p \in admins
  BY <1>1, <1>3, <1>4 DEF VisitsIn, OpzIn, TopUpIn, admins, x
<1>5. CASE p \notin admins
  BY <1>1, <1>3, <1>5 DEF VisitsIn, OpzIn, TopUpIn, admins, x
<1>6. QED
  BY <1>4, <1>5

\* The facts a row adds up, one of each segment.
FactsOf(p, from, to, countable, events) ==
  {<<x.s, Adm!Fact(p, x, events, countable)>> :
     x \in {PartOf(s, Adm!Listed(from, to), events) : s \in SegmentsOf(from, to)}}

\* The rows of Plan/fact, by the names of the sums.
LEMMA RowsAre ==
  ASSUME NEW from, NEW to, NEW countable, NEW events
  PROVE  Adm!Rows(from, to, countable, events) =
           [p \in Adm!Listed(from, to) |->
              [clients |-> ClientsOf(FactsOf(p, from, to, countable, events)),
               opz |-> OpzOf(FactsOf(p, from, to, countable, events)),
               topUp |-> TopUpOf(FactsOf(p, from, to, countable, events))]]
  BY DEF Adm!Rows, FactsOf, ClientsOf, OpzOf, TopUpOf, PartOf, SegmentsOf, AdminsIn

\* A row tells what its person has of the period, and what was typed for the months in
\* which he was an administrator.
LEMMA RowIs ==
  ASSUME Mirrored, Books, NEW from, NEW to, Period(from, to), NEW events, OfPeriod(events, from, to),
         NEW countable, NEW p \in Adm!Listed(from, to)
  PROVE  LET row == Adm!Rows(from, to, countable, events)[p]
         IN  /\ row.opz = Cardinality(TheirOpz(p, from, to, events))
             /\ row.clients = Cardinality(TheirVisits(p, from, to))
             /\ row.topUp = Adm!TopUp(p, Adm!AdminMonths(p, from, to) \cap countable)
<1> DEFINE people == Adm!Listed(from, to)
           segs == SegmentsOf(from, to)
           fact == [s \in segs |-> [clients |-> Cardinality(VisitsIn(p, s, people)),
                                    opz |-> Cardinality(OpzIn(p, s, people, events)),
                                    topUp |-> TopUpIn(p, s, people, countable)]]
           row == [s \in segs |-> <<s, fact[s]>>]
           Facts == {row[s] : s \in segs}
           opz == [s \in segs |-> fact[s].opz]
           clients == [s \in segs |-> fact[s].clients]
           topUp == [s \in segs |-> fact[s].topUp]
           opzIn == [s \in segs |-> OpzPart(from, to, events)[<<p, s>>]]
           visitsIn == [s \in segs |-> VisitPart(from, to)[<<p, s>>]]
<1>1. FactsOf(p, from, to, countable, events) = Facts
  <2>1. \A s \in segs : PartOf(s, people, events).s = s
    BY DEF PartOf
  <2>2. \A s \in segs : Adm!Fact(p, PartOf(s, people, events), events, countable) = fact[s]
    BY FactIs
  <2> HIDE DEF fact
  <2>3. QED
    BY <2>1, <2>2 DEF FactsOf
<1>2. Cuts(people, from, to, segs)
  BY SegmentsCut DEF SegmentsOf
<1>3. IsFiniteSet(segs) /\ IsFiniteSet(events) /\ IsFiniteSet(Adm!CompletedVisits(from, to))
  BY <1>2, FS_Subset DEF Cuts, OfPeriod, Coming, Adm!CompletedVisits, Books
<1>4. \A s \in segs : /\ row[s] = <<s, fact[s]>> /\ row[s][2].opz = opz[s]
                      /\ row[s][2].clients = clients[s] /\ row[s][2].topUp = topUp[s]
  OBVIOUS
<1>5. \A s \in segs : /\ opz[s] = Cardinality(opzIn[s]) /\ clients[s] = Cardinality(visitsIn[s])
                      /\ topUp[s] = TopUpIn(p, s, people, countable)
  BY DEF OpzPart, VisitPart
<1>6. /\ TheirOpz(p, from, to, events) = UNION {opzIn[s] : s \in segs}
      /\ TheirVisits(p, from, to) = UNION {visitsIn[s] : s \in segs}
  BY DEF TheirOpz, TheirVisits, Gathered
<1>7. /\ TheirOpz(p, from, to, events) \subseteq events /\ PartsApart(OpzPart(from, to, events), p, segs)
      /\ TheirVisits(p, from, to) \subseteq Adm!CompletedVisits(from, to) /\ PartsApart(VisitPart(from, to), p, segs)
  BY OpzGathered, VisitsGathered
<1>8. Disjoint(opzIn, segs) /\ Disjoint(visitsIn, segs)
  BY <1>7 DEF Disjoint, PartsApart
<1>9. Adm!Rows(from, to, countable, events)[p] = [clients |-> ClientsOf(Facts), opz |-> OpzOf(Facts), topUp |-> TopUpOf(Facts)]
  <2> HIDE DEF Facts
  <2>1. QED
    BY <1>1, RowsAre
<1> DEFINE g1 == [f \in Facts |-> f[2].opz]
           g2 == [f \in Facts |-> f[2].clients]
           g3 == [f \in Facts |-> f[2].topUp]
<1>10. /\ \A f \in Facts : g1[f] = f[2].opz /\ g2[f] = f[2].clients /\ g3[f] = f[2].topUp
       /\ \A s \in segs : row[s] \in Facts
  OBVIOUS
<1>11. \A s \in segs, t \in segs : row[s] = row[t] => s = t
  OBVIOUS
<1> HIDE DEF people, segs, fact, row, opz, clients, topUp, opzIn, visitsIn, g1, g2, g3
<1>12. \A s \in segs : opzIn[s] \subseteq events /\ visitsIn[s] \subseteq Adm!CompletedVisits(from, to)
  BY <1>6, <1>7
<1>13. Counts(opz, opzIn, segs, events) /\ Counts(clients, visitsIn, segs, Adm!CompletedVisits(from, to))
  BY <1>3, <1>5, <1>12 DEF Counts
<1>14. /\ Summable(opz, segs) /\ SumOf(opz, segs) = Cardinality(TheirOpz(p, from, to, events))
       /\ Summable(clients, segs) /\ SumOf(clients, segs) = Cardinality(TheirVisits(p, from, to))
  BY <1>6, <1>8, <1>13, CountParts
<1>15. /\ SumOf(topUp, segs) = Adm!TopUp(p, Adm!AdminMonths(p, from, to) \cap countable)
       /\ \A s \in segs : topUp[s] \in Int
  <2>1. p \in people
    BY DEF people
  <2>2. \A s \in segs : topUp[s] = TopUpIn(p, s, people, countable)
    BY <1>5
  <2>3. QED
    BY <1>2, <2>1, <2>2, TopUpGathered
<1>16. OpzOf(Facts) = SumOf(opz, segs)
  <2>1. OpzOf(Facts) = SumOf(g1, Facts)
    <3> HIDE DEF Facts
    <3>1. QED
      BY <1>10, OpzOfIs
  <2>2. SumOf(g1, Facts) = SumOf(opz, segs)
    <3>1. \A s \in segs : g1[row[s]] = opz[s]
      BY <1>4, <1>10
    <3>2. \A s \in segs : opz[s] \in Int
      BY <1>14 DEF Summable
    <3>3. QED
      BY <1>3, <1>11, <3>1, <3>2, SumOfRows
  <2>3. QED
    BY <2>1, <2>2
<1>17. ClientsOf(Facts) = SumOf(clients, segs)
  <2>1. ClientsOf(Facts) = SumOf(g2, Facts)
    <3> HIDE DEF Facts
    <3>1. QED
      BY <1>10, ClientsOfIs
  <2>2. SumOf(g2, Facts) = SumOf(clients, segs)
    <3>1. \A s \in segs : g2[row[s]] = clients[s]
      BY <1>4, <1>10
    <3>2. \A s \in segs : clients[s] \in Int
      BY <1>14 DEF Summable
    <3>3. QED
      BY <1>3, <1>11, <3>1, <3>2, SumOfRows
  <2>3. QED
    BY <2>1, <2>2
<1>18. TopUpOf(Facts) = SumOf(topUp, segs)
  <2>1. TopUpOf(Facts) = SumOf(g3, Facts)
    <3> HIDE DEF Facts
    <3>1. QED
      BY <1>10, TopUpOfIs
  <2>2. SumOf(g3, Facts) = SumOf(topUp, segs)
    <3>1. \A s \in segs : g3[row[s]] = topUp[s]
      BY <1>4, <1>10
    <3>2. \A s \in segs : topUp[s] \in Int
      BY <1>15 DEF Summable
    <3>3. QED
      BY <1>3, <1>11, <3>1, <3>2, SumOfRows
  <2>3. QED
    BY <2>1, <2>2
<1>19. QED
  BY <1>9, <1>14, <1>15, <1>16, <1>17, <1>18

-----------------------------------------------------------------------------
(* The rows and the branch. *)

\* The people of the rows are finitely many.
LEMMA FewPeople ==
  ASSUME NEW people \in SUBSET Adm!People
  PROVE  IsFiniteSet(people)
  BY FS_Subset, TeamAssumption DEF TeamAssumption, Adm!People

\* A period somebody asks about.
LEMMA AskedIs ==
  ASSUME NEW w \in Asked
  PROVE  Period(w[1], w[2]) /\ w[1] \in Int /\ w[2] \in Int
<1>1. Period(w[1], w[2])
  BY CalendarAssumption DEF CalendarAssumption, Period
<1>2. QED
  BY <1>1, PeriodIs

\* The rows add up what everybody has, which is what each rebooking or visit is had by.
LEMMA RowsHave ==
  ASSUME NEW people \in SUBSET Adm!People, Books, NEW E, IsFiniteSet(E), NEW C, NEW c,
         \A p \in people : C[p] \subseteq E /\ c[p] = Cardinality(C[p]),
         NEW month, NEW barber, NEW n,
         \A e \in E : /\ Shared(C, e, barber[e], BarbersIn(people, month[e]), AdminsIn(people, month[e]))
                      /\ n[e] = TimesOf(people, BarbersIn(people, month[e]), barber[e])
  PROVE  SumOf(c, people) = SumOf(n, E)
<1>1. IsFiniteSet(people)
  BY FewPeople
<1>2. Counts(c, C, people, E)
  BY <1>1 DEF Counts
<1>3. ASSUME NEW e \in E PROVE n[e] = Cardinality({p \in people : e \in C[p]})
  <2> DEFINE admins == AdminsIn(people, month[e])
             barbers == BarbersIn(people, month[e])
  <2>1. barbers = people \ admins /\ admins \in SUBSET people
    BY TwoRoles
  <2>2. Shared(C, e, barber[e], barbers, admins) /\ n[e] = TimesOf(people, barbers, barber[e])
    OBVIOUS
  <2> HIDE DEF admins, barbers
  <2>3. QED
    BY <2>1, <2>2, SharedTimes
<1>4. QED
  BY <1>2, <1>3, CountTwice

\* The typed numbers of people in their months as administrators can be added up.
LEMMA TopUpsSum ==
  ASSUME NEW from, NEW to, NEW months, NEW people \in SUBSET Adm!People, NEW g,
         \A p \in people : g[p] = Adm!TopUp(p, Adm!AdminMonths(p, from, to) \cap months)
  PROVE  PeopleTopUps(from, to, months, people) = SumOf(g, people) /\ Summable(g, people)
<1>1. PeopleTopUps(from, to, months, people) = SumOf(g, people)
  BY PeopleTopUpsIs
<1>2. ASSUME NEW p \in people PROVE g[p] \in Int
  <2> DEFINE typed == Adm!TopUp(p, Adm!AdminMonths(p, from, to) \cap months)
  <2>1. typed \in Nat
    BY TopUpIs
  <2>2. g[p] = typed
    OBVIOUS
  <2> HIDE DEF typed
  <2>3. QED
    BY <2>1, <2>2
<1>3. QED
  BY <1>1, <1>2, FewPeople DEF Summable

\* The branch's typed rebookings, by the name of the sum.
LEMMA BranchTopUpIs ==
  ASSUME NEW from, NEW to, NEW countable
  PROVE  Adm!BranchTopUp(from, to, countable)
           = PeopleTopUps(from, to, countable, {p \in Adm!People : Adm!Relevant(p, from, to)})
  BY DEF Adm!BranchTopUp, PeopleTopUps

\* What AddUp says, by the names of the sums.
LEMMA AddUpIs ==
  ASSUME NEW rows, NEW branch, NEW visits, NEW events
  PROVE  Adm!AddUp(rows, branch, visits, events) <=>
           /\ AllOpz(rows, DOMAIN rows) = OpzTimes(DOMAIN rows, events)
           /\ AllClients(rows, DOMAIN rows) = VisitTimes(DOMAIN rows, visits)
           /\ gone = {} => AllTopUps(rows, DOMAIN rows) = branch.topUp
  BY DEF Adm!AddUp, AllOpz, OpzTimes, AllClients, VisitTimes, AllTopUps, TimesOf, BarbersIn

\* The rows of a period somebody asks about add up.
LEMMA EverythingIsInRows ==
  ASSUME Mirrored, Books, NEW w \in Asked
  PROVE  LET events == Adm!Opz(w[1], w[2])
         IN  Adm!AddUp(Adm!Rows(w[1], w[2], Adm!Countable(w[1], w[2]), events), Adm!BranchRow(w[1], w[2], events),
                       Adm!CompletedVisits(w[1], w[2]), events)
<1> DEFINE from == w[1]
           to == w[2]
           countable == Adm!Countable(from, to)
           events == Adm!Opz(from, to)
           visits == Adm!CompletedVisits(from, to)
           people == Adm!Listed(from, to)
           rows == Adm!Rows(from, to, countable, events)
           branch == Adm!BranchRow(from, to, events)
<1>1. Period(from, to) /\ from \in Int /\ to \in Int
  BY AskedIs
<1>2. people \in SUBSET Adm!People /\ DOMAIN rows = people
  BY RowsAre DEF Adm!Listed
<1>3. OfPeriod(events, from, to) /\ IsFiniteSet(events)
  BY <1>1, RebookingsCome DEF OfPeriod, Coming
<1>4. IsFiniteSet(visits)
  BY FS_Subset DEF Adm!CompletedVisits, Books
<1>5. branch.topUp = Adm!BranchTopUp(from, to, countable)
  BY DEF Adm!BranchRow
<1> HIDE DEF from, to, countable, events, visits, people, rows, branch
<1>6. \A p \in people : /\ rows[p].opz = Cardinality(TheirOpz(p, from, to, events))
                        /\ rows[p].clients = Cardinality(TheirVisits(p, from, to))
                        /\ rows[p].topUp = Adm!TopUp(p, Adm!AdminMonths(p, from, to) \cap countable)
  BY <1>1, <1>3, RowIs DEF people, rows
<1>7. AllOpz(rows, people) = OpzTimes(people, events)
  <2> DEFINE C == [p \in people |-> TheirOpz(p, from, to, events)]
             c == [p \in people |-> rows[p].opz]
             month == [e \in events |-> Adm!Month(e.day)]
             barber == [e \in events |-> e.barber]
             n == [e \in events |-> TimesOf(people, BarbersIn(people, Adm!Month(e.day)), e.barber)]
  <2>1. \A p \in people : TheirOpz(p, from, to, events) \subseteq events
    BY <1>1, <1>3, OpzGathered DEF people
  <2>2. \A e \in events : Shared(C, e, e.barber, BarbersIn(people, Adm!Month(e.day)), AdminsIn(people, Adm!Month(e.day)))
    BY <1>1, <1>3, OpzGathered DEF people
  <2>3. \A p \in people : C[p] = TheirOpz(p, from, to, events) /\ c[p] = rows[p].opz
    OBVIOUS
  <2>4. \A e \in events : /\ month[e] = Adm!Month(e.day) /\ barber[e] = e.barber
                          /\ n[e] = TimesOf(people, BarbersIn(people, Adm!Month(e.day)), e.barber)
    OBVIOUS
  <2> HIDE DEF C, c, month, barber, n
  <2>5. \A p \in people : C[p] \subseteq events /\ c[p] = Cardinality(C[p])
    BY <1>6, <2>1, <2>3
  <2>6. \A e \in events : /\ Shared(C, e, barber[e], BarbersIn(people, month[e]), AdminsIn(people, month[e]))
                          /\ n[e] = TimesOf(people, BarbersIn(people, month[e]), barber[e])
    BY <2>2, <2>4
  <2>7. SumOf(c, people) = SumOf(n, events)
    BY <1>2, <1>3, <2>5, <2>6, RowsHave
  <2>8. AllOpz(rows, people) = SumOf(c, people) /\ OpzTimes(people, events) = SumOf(n, events)
    BY <2>3, <2>4, AllOpzIs, OpzTimesIs
  <2>9. QED
    BY <2>7, <2>8
<1>8. AllClients(rows, people) = VisitTimes(people, visits)
  <2> DEFINE C == [p \in people |-> TheirVisits(p, from, to)]
             c == [p \in people |-> rows[p].clients]
             month == [v \in visits |-> Adm!Month(Adm!Day(v))]
             barber == [v \in visits |-> v.barber]
             n == [v \in visits |-> TimesOf(people, BarbersIn(people, Adm!Month(Adm!Day(v))), v.barber)]
  <2>1. \A p \in people : TheirVisits(p, from, to) \subseteq visits
    BY <1>1, VisitsGathered DEF people, visits
  <2>2. \A v \in visits :
          Shared(C, v, v.barber, BarbersIn(people, Adm!Month(Adm!Day(v))), AdminsIn(people, Adm!Month(Adm!Day(v))))
    BY <1>1, VisitsGathered DEF people, visits
  <2>3. \A p \in people : C[p] = TheirVisits(p, from, to) /\ c[p] = rows[p].clients
    OBVIOUS
  <2>4. \A v \in visits : /\ month[v] = Adm!Month(Adm!Day(v)) /\ barber[v] = v.barber
                          /\ n[v] = TimesOf(people, BarbersIn(people, Adm!Month(Adm!Day(v))), v.barber)
    OBVIOUS
  <2> HIDE DEF C, c, month, barber, n
  <2>5. \A p \in people : C[p] \subseteq visits /\ c[p] = Cardinality(C[p])
    BY <1>6, <2>1, <2>3
  <2>6. \A v \in visits : /\ Shared(C, v, barber[v], BarbersIn(people, month[v]), AdminsIn(people, month[v]))
                          /\ n[v] = TimesOf(people, BarbersIn(people, month[v]), barber[v])
    BY <2>2, <2>4
  <2>7. SumOf(c, people) = SumOf(n, visits)
    BY <1>2, <1>4, <2>5, <2>6, RowsHave
  <2>8. AllClients(rows, people) = SumOf(c, people) /\ VisitTimes(people, visits) = SumOf(n, visits)
    BY <2>3, <2>4, AllClientsIs, VisitTimesIs
  <2>9. QED
    BY <2>7, <2>8
<1>9. ASSUME gone = {} PROVE AllTopUps(rows, people) = branch.topUp
  <2> DEFINE relevant == {p \in Adm!People : Adm!Relevant(p, from, to)}
             g == [p \in people |-> rows[p].topUp]
  <2>1. people = relevant
    BY <1>9 DEF people, Adm!Listed, Adm!Relevant
  <2>2. \A p \in people : g[p] = rows[p].topUp
    OBVIOUS
  <2> HIDE DEF g, relevant
  <2>3. \A p \in people : g[p] = Adm!TopUp(p, Adm!AdminMonths(p, from, to) \cap countable)
    BY <1>6, <2>2
  <2>4. AllTopUps(rows, people) = SumOf(g, people)
    BY <2>2, AllTopUpsIs
  <2>5. PeopleTopUps(from, to, countable, people) = SumOf(g, people)
    BY <1>2, <2>3, TopUpsSum
  <2>6. branch.topUp = PeopleTopUps(from, to, countable, people)
    BY <1>5, <2>1, BranchTopUpIs DEF relevant
  <2>7. QED
    BY <2>4, <2>5, <2>6
<1>10. Adm!AddUp(rows, branch, visits, events)
  BY <1>2, <1>7, <1>8, <1>9, AddUpIs
<1>11. QED
  BY <1>10 DEF rows, branch, visits, events, countable, from, to

\* Every rebooking and every visit is in the rows it should be in, and what is typed in for
\* a branch where everybody stayed is in the rows of its administrators.
THEOREM EveryRebookingHasARow == PlansSpec => []RowsAddUp
<1>1. Mirrored /\ Books => RowsAddUp
  BY EverythingIsInRows DEF RowsAddUp, Adm!RowsAddUp
<1>2. QED
  BY <1>1, MirroredAlways, BooksAlways, PTL

-----------------------------------------------------------------------------
(* Typed rebookings by people, and by months. *)

KeysOf(people, from, to, months) ==
  {k \in DOMAIN TopUps : /\ k[1] \in people /\ k[2] \in Adm!AdminMonths(k[1], from, to) \cap months
                         /\ Adm!LastDay(k[2]) >= opened}

\* The sum over people is that over what was typed in for them.
LEMMA KeysOfPeople ==
  ASSUME NEW from, NEW to, NEW months, NEW people \in SUBSET Adm!People
  PROVE  PeopleTopUps(from, to, months, people) = SumOf(TopUps, KeysOf(people, from, to, months))
<1> DEFINE all == KeysOf(people, from, to, months)
           piece == [p \in people |-> Keys(p, Adm!AdminMonths(p, from, to) \cap months)]
           g == [p \in people |-> Adm!TopUp(p, Adm!AdminMonths(p, from, to) \cap months)]
<1>1. all \in SUBSET DOMAIN TopUps
  BY DEF KeysOf
<1>2. Summable(TopUps, all)
  BY <1>1, TypedSums
<1>3. \A p \in people : piece[p] \subseteq all /\ g[p] = SumOf(TopUps, piece[p])
  BY TopUpIs DEF Keys, KeysOf
<1>4. \A p \in people, q \in people : p # q => piece[p] \cap piece[q] = {}
  BY DEF Keys
<1>5. \A k \in all : \E p \in people : k \in piece[p]
  BY DEF Keys, KeysOf
<1>6. \A p \in people : g[p] = Adm!TopUp(p, Adm!AdminMonths(p, from, to) \cap months)
  OBVIOUS
<1> HIDE DEF all, piece, g
<1>7. PeopleTopUps(from, to, months, people) = SumOf(g, people) /\ IsFiniteSet(people)
  BY <1>6, TopUpsSum, FewPeople
<1>8. SumOf(TopUps, all) = SumOf(g, people)
  BY <1>2, <1>3, <1>4, <1>5, <1>7, SumParts
<1>9. QED
  BY <1>7, <1>8 DEF all

\* It is the sum over the months, too.
MonthByMonth(g, people, from, to, months) == \A m \in months : g[m] = SumOf(TopUps, KeysOf(people, from, to, {m}))

\* The values of some months are those of each of them.
LEMMA KeysByMonth ==
  ASSUME NEW from, NEW to, NEW months, IsFiniteSet(months), NEW people, NEW g,
         MonthByMonth(g, people, from, to, months)
  PROVE  SumOf(TopUps, KeysOf(people, from, to, months)) = SumOf(g, months)
<1> DEFINE all == KeysOf(people, from, to, months)
           piece == [m \in months |-> KeysOf(people, from, to, {m})]
<1>1. all \in SUBSET DOMAIN TopUps
  BY DEF KeysOf
<1>2. Summable(TopUps, all)
  BY <1>1, TypedSums
<1>3. \A m \in months : piece[m] \subseteq all /\ g[m] = SumOf(TopUps, piece[m])
  BY DEF KeysOf, MonthByMonth
<1>4. \A m \in months, n \in months : m # n => piece[m] \cap piece[n] = {}
  BY DEF KeysOf
<1>5. \A k \in all : \E m \in months : k \in piece[m]
  BY DEF KeysOf
<1> HIDE DEF all, piece
<1>6. SumOf(TopUps, all) = SumOf(g, months)
  BY <1>2, <1>3, <1>4, <1>5, SumParts
<1>7. QED
  BY <1>6 DEF all

\* Nothing was typed in for people who hold nothing.
LEMMA NothingTyped ==
  ASSUME NEW p \in Adm!People, NEW months, p \notin Adm!Holders(months), NEW some \in SUBSET months
  PROVE  Adm!TopUp(p, some) = 0
<1> DEFINE S == Keys(p, some)
<1>1. S \in SUBSET DOMAIN TopUps /\ Adm!TopUp(p, some) = SumOf(TopUps, S)
  BY TopUpIs
<1>2. ASSUME NEW k \in S PROVE TopUps[k] = 0
  <2>1. k \in DOMAIN TopUps /\ k[1] = p /\ k[2] \in months
    BY DEF Keys
  <2>2. k = <<p, k[2]>>
    BY <2>1, TeamAssumption DEF TeamAssumption
  <2>3. QED
    BY <2>1, <2>2 DEF Adm!Holders
<1> HIDE DEF S
<1> DEFINE none == {}
<1>3. none \in SUBSET S /\ none \in SUBSET DOMAIN TopUps /\ none = {} /\ \A k \in S \ none : TopUps[k] = 0
  BY <1>2
<1> HIDE DEF none
<1>4. SumOf(TopUps, S) = SumOf(TopUps, none)
  BY <1>1, <1>3, TypedSums, SumWithout
<1>5. SumOf(TopUps, none) = 0
  BY <1>3, TypedSums, SumStep
<1>6. QED
  BY <1>1, <1>4, <1>5

\* The overview of the branch adds up what Plan/fact does, though it asks about fewer people.
Holding(from, to, countable) == {p \in Adm!Holders(countable) : Adm!Relevant(p, from, to)}

\* Those for whom nothing was typed in hold nothing that is missing.
LEMMA HoldersHoldAll ==
  ASSUME NEW from, NEW to, NEW countable
  PROVE  /\ Adm!BranchTopUp(from, to, countable) = PeopleTopUps(from, to, countable, Holding(from, to, countable))
         /\ Holding(from, to, countable) \in SUBSET Adm!People
<1> DEFINE relevant == {p \in Adm!People : Adm!Relevant(p, from, to)}
           people == Holding(from, to, countable)
           g == [p \in relevant |-> Adm!TopUp(p, Adm!AdminMonths(p, from, to) \cap countable)]
<1>1. relevant \in SUBSET Adm!People /\ people \in SUBSET relevant /\ people \in SUBSET Adm!People
  BY DEF Holding, Adm!Holders
<1>2. \A p \in relevant : g[p] = Adm!TopUp(p, Adm!AdminMonths(p, from, to) \cap countable)
  OBVIOUS
<1>3. \A p \in relevant \ people : p \in Adm!People /\ p \notin Adm!Holders(countable)
  BY DEF Holding
<1>4. Adm!BranchTopUp(from, to, countable) = PeopleTopUps(from, to, countable, relevant)
  BY BranchTopUpIs
<1> HIDE DEF relevant, people, g
<1>5. \A p \in relevant \ people : g[p] = 0
  BY <1>2, <1>3, NothingTyped
<1>6. /\ PeopleTopUps(from, to, countable, relevant) = SumOf(g, relevant) /\ Summable(g, relevant)
  BY <1>1, <1>2, TopUpsSum
<1>7. PeopleTopUps(from, to, countable, people) = SumOf(g, people)
  <2>1. \A p \in people : g[p] = Adm!TopUp(p, Adm!AdminMonths(p, from, to) \cap countable)
    BY <1>1, <1>2
  <2>2. QED
    BY <1>1, <2>1, TopUpsSum
<1>8. SumOf(g, relevant) = SumOf(g, people)
  BY <1>1, <1>5, <1>6, SumWithout
<1>9. QED
  BY <1>1, <1>4, <1>6, <1>7, <1>8 DEF people

\* So the branch's overview has what its row in Plan/fact has.
LEMMA ScopeTopUpIs ==
  ASSUME NEW from, NEW to
  PROVE  Adm!ScopeTopUp(from, to) = Adm!BranchTopUp(from, to, Adm!Countable(from, to))
<1> DEFINE countable == Adm!Countable(from, to)
<1>1. Adm!ScopeTopUp(from, to) = PeopleTopUps(from, to, countable, Holding(from, to, countable))
  BY DEF Adm!ScopeTopUp, PeopleTopUps, Holding
<1>2. QED
  BY <1>1, HoldersHoldAll

-----------------------------------------------------------------------------
(* The months of a period. *)

\* The month of a day of a period is a month of the period.
LEMMA MonthOfDay ==
  ASSUME NEW from, NEW to, Period(from, to), NEW d \in from .. to
  PROVE  Adm!Month(d) \in Adm!MonthsOf(from, to) /\ d \in Int
<1>1. d \in Int /\ from \in Int /\ to \in Int /\ from <= d /\ d <= to /\ from \in Days /\ to \in Days /\ d \in Days
  BY PeriodIs DEF Period
<1>2. Period(from, d) /\ Period(d, to)
  BY <1>1 DEF Period
<1>3. /\ Adm!Month(from) <= Adm!Month(d) /\ Adm!Month(d) <= Adm!Month(to)
      /\ Adm!MonthsOf(from, to) = Adm!Month(from) .. Adm!Month(to)
  BY <1>2, MonthsOfPeriod DEF Period
<1>4. QED
  BY <1>1, <1>3, MonthIs

\* A period has finitely many months, which are numbers.
LEMMA FewMonths ==
  ASSUME NEW from, NEW to, Period(from, to)
  PROVE  IsFiniteSet(Adm!MonthsOf(from, to)) /\ \A m \in Adm!MonthsOf(from, to) : m \in Int
<1>1. Adm!Month(from) \in Int /\ Adm!Month(to) \in Int
  BY PeriodIs, MonthIs DEF Period
<1>2. QED
  BY <1>1, MonthsOfPeriod, FS_Interval

\* The months of a period tell of as many rebookings, made and typed in, as its total.
LEMMA MonthsMakeThePeriod ==
  ASSUME NEW from, NEW to, Period(from, to), NEW events, OfPeriod(events, from, to)
  PROVE  LET counts == Adm!MonthCounts(from, to, events)
         IN  MonthsTell(counts, DOMAIN counts)
               = Cardinality(events) + Adm!BranchTopUp(from, to, Adm!Countable(from, to))
<1> DEFINE counts == Adm!MonthCounts(from, to, events)
           ms == Adm!MonthsOf(from, to)
           countable == Adm!Countable(from, to)
           people == Holding(from, to, countable)
           ofMonth == [m \in ms |-> {e \in events : Adm!Month(e.day) = m}]
           f == [m \in ms |-> Cardinality(ofMonth[m])]
           g == [m \in ms |-> IF m \in countable THEN PeopleTopUps(from, to, {m}, people) ELSE 0]
<1>1. DOMAIN counts = ms /\ \A m \in ms : counts[m] = f[m] + g[m]
  <2>1. Adm!TopUpsByMonth(from, to) = [m \in countable |-> PeopleTopUps(from, to, {m}, people)]
    BY DEF Adm!TopUpsByMonth, PeopleTopUps, Holding
  <2>2. counts = [m \in ms |-> Cardinality({e \in events : Adm!Month(e.day) = m})
                               + (IF m \in DOMAIN Adm!TopUpsByMonth(from, to)
                                    THEN Adm!TopUpsByMonth(from, to)[m] ELSE 0)]
    BY LibraryIs DEF Adm!MonthCounts
  <2> HIDE DEF countable, people, ms, counts
  <2>3. \A m \in ms : counts[m] = Cardinality({e \in events : Adm!Month(e.day) = m})
                                  + (IF m \in countable THEN PeopleTopUps(from, to, {m}, people) ELSE 0)
    BY <2>1, <2>2
  <2>4. QED
    BY <2>2, <2>3
<1>2. \A m \in ms : /\ ofMonth[m] = {e \in events : Adm!Month(e.day) = m} /\ f[m] = Cardinality(ofMonth[m])
                    /\ g[m] = IF m \in countable THEN PeopleTopUps(from, to, {m}, people) ELSE 0
  OBVIOUS
<1>3. IsFiniteSet(ms) /\ IsFiniteSet(events) /\ \A e \in events : Adm!Month(e.day) \in ms
  BY FewMonths, MonthOfDay DEF OfPeriod, Coming
<1>4. countable \in SUBSET ms /\ people \in SUBSET Adm!People
  BY HoldersHoldAll DEF Adm!Countable
<1>5. IsFiniteSet(countable)
  BY <1>3, <1>4, FS_Subset
<1> HIDE DEF counts, ms, countable, people, ofMonth, f, g
<1>6. Summable(f, ms) /\ SumOf(f, ms) = Cardinality(events)
  <2>1. Counts(f, ofMonth, ms, events) /\ Disjoint(ofMonth, ms)
    BY <1>2, <1>3 DEF Counts, Disjoint
  <2>2. UNION {ofMonth[m] : m \in ms} = events
    BY <1>2, <1>3
  <2>3. QED
    BY <2>1, <2>2, CountParts
<1>7. \A m \in countable : PeopleTopUps(from, to, {m}, people) = SumOf(TopUps, KeysOf(people, from, to, {m}))
  BY <1>4, KeysOfPeople
<1>8. \A m \in countable : g[m] = SumOf(TopUps, KeysOf(people, from, to, {m}))
  BY <1>2, <1>4, <1>7
<1>9. Summable(g, ms)
  <2>1. \A m : SumOf(TopUps, KeysOf(people, from, to, {m})) \in Int
    <3> SUFFICES ASSUME NEW m PROVE SumOf(TopUps, KeysOf(people, from, to, {m})) \in Int
      OBVIOUS
    <3> DEFINE S == KeysOf(people, from, to, {m})
    <3>1. S \in SUBSET DOMAIN TopUps
      BY DEF KeysOf
    <3> HIDE DEF S
    <3>2. SumOf(TopUps, S) = TypedIn(S) /\ TypedIn(S) \in Nat
      BY <3>1, TypedSums
    <3>3. \A n : n = TypedIn(S) => n \in Int
      BY <3>2
    <3>4. QED
      BY <3>2, <3>3 DEF S
  <2>2. \A m \in ms : g[m] \in Int
    <3> SUFFICES ASSUME NEW m \in ms PROVE g[m] \in Int
      OBVIOUS
    <3>1. CASE m \in countable
      <4> DEFINE t == SumOf(TopUps, KeysOf(people, from, to, {m}))
      <4>1. t \in Int /\ g[m] = t
        BY <1>8, <2>1, <3>1
      <4> HIDE DEF t
      <4>2. QED
        BY <4>1
    <3>2. CASE m \notin countable
      <4>1. g[m] = 0
        BY <1>2, <3>2
      <4>2. QED
        BY <4>1
    <3>3. QED
      BY <3>1, <3>2
  <2>3. QED
    BY <1>3, <2>2 DEF Summable
<1>10. SumOf(g, ms) = Adm!BranchTopUp(from, to, countable)
  <2>1. \A m \in ms \ countable : g[m] = 0
    BY <1>2
  <2>2. SumOf(g, ms) = SumOf(g, countable)
    BY <1>4, <1>9, <2>1, SumWithout
  <2>3. SumOf(g, countable) = SumOf(TopUps, KeysOf(people, from, to, countable))
    <3>1. MonthByMonth(g, people, from, to, countable)
      BY <1>8 DEF MonthByMonth
    <3>2. QED
      BY <1>5, <3>1, KeysByMonth
  <2>4. PeopleTopUps(from, to, countable, people) = SumOf(TopUps, KeysOf(people, from, to, countable))
    BY <1>4, KeysOfPeople
  <2>5. Adm!BranchTopUp(from, to, countable) = PeopleTopUps(from, to, countable, people)
    BY HoldersHoldAll DEF people
  <2>6. QED
    BY <2>2, <2>3, <2>4, <2>5
<1>11. SumOf(counts, ms) = SumOf(f, ms) + SumOf(g, ms)
  BY <1>1, <1>6, <1>9, SumAdd
<1>12. MonthsTell(counts, ms) = SumOf(counts, ms)
  BY MonthsTellIs
<1>13. MonthsTell(counts, DOMAIN counts) = Cardinality(events) + Adm!BranchTopUp(from, to, countable)
  BY <1>1, <1>6, <1>10, <1>11, <1>12
<1>14. QED
  BY <1>13 DEF counts, countable

-----------------------------------------------------------------------------
(* The overview of one person. *)

CardOf(p, s, people, events) ==
  [s |-> s, events |-> OpzIn(p, s, people, events), visits |-> VisitsIn(p, s, people)]

\* It is made of what he has of each segment.
LEMMA OverviewIs ==
  ASSUME NEW from, NEW to, NEW events, NEW p \in Adm!Listed(from, to)
  PROVE  Adm!OpzSegments(p, from, to, events)
           = {CardOf(p, s, Adm!Listed(from, to), events) : s \in SegmentsOf(from, to)}
<1> DEFINE people == Adm!Listed(from, to)
           card(s) == IF p \in AdminsIn(people, s.month)
                        THEN [s |-> s, events |-> Adm!CreditedOpz(s, people, AdminsIn(people, s.month), events)[p],
                              visits |-> Adm!CreditedVisits(s, people, AdminsIn(people, s.month))[p]]
                        ELSE [s |-> s, events |-> Adm!OwnOpz(p, s, events), visits |-> Adm!OwnVisits(p, s)]
<1>1. Adm!OpzSegments(p, from, to, events) = {card(s) : s \in SegmentsOf(from, to)}
  BY DEF Adm!OpzSegments, Adm!Spread, AdminsIn, SegmentsOf
<1>2. ASSUME NEW s PROVE card(s) = CardOf(p, s, people, events)
  BY DEF CardOf, OpzIn, VisitsIn
<1> HIDE DEF people, card
<1>3. {card(s) : s \in SegmentsOf(from, to)} = {CardOf(p, s, people, events) : s \in SegmentsOf(from, to)}
  BY <1>2
<1>4. QED
  BY <1>1, <1>3 DEF people

\* Together they are all that he has of the period.
LEMMA OverviewGathers ==
  ASSUME NEW from, NEW to, NEW events, NEW p \in Adm!Listed(from, to)
  PROVE  LET parts == Adm!OpzSegments(p, from, to, events)
         IN  /\ UNION {x.events : x \in parts} = TheirOpz(p, from, to, events)
             /\ UNION {x.visits : x \in parts} = TheirVisits(p, from, to)
<1> DEFINE people == Adm!Listed(from, to)
           segs == SegmentsOf(from, to)
           card(s) == CardOf(p, s, people, events)
           parts == {card(s) : s \in segs}
<1>1. \A s \in segs : /\ card(s).events = OpzPart(from, to, events)[<<p, s>>]
                      /\ card(s).visits = VisitPart(from, to)[<<p, s>>]
  BY DEF CardOf, OpzPart, VisitPart
<1>2. Adm!OpzSegments(p, from, to, events) = parts
  BY OverviewIs
<1> HIDE DEF people, segs, card
<1>3. /\ {x.events : x \in parts} = {OpzPart(from, to, events)[<<p, s>>] : s \in segs}
      /\ {x.visits : x \in parts} = {VisitPart(from, to)[<<p, s>>] : s \in segs}
  BY <1>1
<1> HIDE DEF parts
<1>4. QED
  BY <1>2, <1>3 DEF TheirOpz, TheirVisits, Gathered, segs

\* So its visits add up to those, and no more of them are first visits.
LEMMA OverviewAddsUp ==
  ASSUME Mirrored, Books, NEW from, NEW to, Period(from, to), NEW events, NEW p \in Adm!Listed(from, to)
  PROVE  LET parts == Adm!OpzSegments(p, from, to, events)
         IN  /\ PartsVisits(parts) = Cardinality(TheirVisits(p, from, to))
             /\ PartsFirst(parts) <= PartsVisits(parts)
<1> DEFINE people == Adm!Listed(from, to)
           segs == SegmentsOf(from, to)
           card == [s \in segs |-> CardOf(p, s, people, events)]
           parts == {card[s] : s \in segs}
           visitsIn == [s \in segs |-> VisitPart(from, to)[<<p, s>>]]
           visits == [s \in segs |-> Cardinality(visitsIn[s])]
           g1 == [x \in parts |-> Adm!Cardinality(x.visits)]
           g2 == [x \in parts |-> Adm!Cardinality(Adm!FirstVisits(x.visits, x.s.to))]
<1>1. Adm!OpzSegments(p, from, to, events) = parts
  BY OverviewIs
<1>2. Cuts(people, from, to, segs)
  BY SegmentsCut DEF SegmentsOf
<1>3. IsFiniteSet(segs) /\ IsFiniteSet(Adm!CompletedVisits(from, to))
  BY <1>2, FS_Subset DEF Cuts, Adm!CompletedVisits, Books
<1>4. \A s \in segs : card[s].visits = visitsIn[s] /\ card[s].s = s /\ card[s] \in parts
  BY DEF VisitPart, CardOf
<1>5. \A s \in segs : visits[s] = Cardinality(visitsIn[s])
  OBVIOUS
<1>6. TheirVisits(p, from, to) = UNION {visitsIn[s] : s \in segs}
  BY DEF TheirVisits, Gathered
<1>7. TheirVisits(p, from, to) \subseteq Adm!CompletedVisits(from, to) /\ PartsApart(VisitPart(from, to), p, segs)
  BY VisitsGathered
<1>8. Disjoint(visitsIn, segs)
  BY <1>7 DEF Disjoint, PartsApart
<1>9. \A x \in parts : g1[x] = Adm!Cardinality(x.visits) /\ g2[x] = Adm!Cardinality(Adm!FirstVisits(x.visits, x.s.to))
  OBVIOUS
<1>10. \A x \in parts : \E s \in segs : x = card[s]
  OBVIOUS
<1> HIDE DEF people, segs, card, visitsIn, visits, g1, g2
<1>11. \A s \in segs : visitsIn[s] \subseteq Adm!CompletedVisits(from, to)
  BY <1>6, <1>7
<1>12. Counts(visits, visitsIn, segs, Adm!CompletedVisits(from, to))
  BY <1>3, <1>5, <1>11 DEF Counts
<1>13. Summable(visits, segs) /\ SumOf(visits, segs) = Cardinality(TheirVisits(p, from, to))
  BY <1>6, <1>8, <1>12, CountParts
<1>14. SumOf(g1, parts) = SumOf(visits, segs) /\ IsFiniteSet(parts)
  <2>1. \A s \in segs, t \in segs : card[s] = card[t] => s = t
    BY <1>4
  <2>2. \A s \in segs : g1[card[s]] = visits[s]
    BY <1>4, <1>5, <1>9, LibraryIs
  <2>3. \A s \in segs : visits[s] \in Int
    BY <1>13 DEF Summable
  <2>4. QED
    BY <1>3, <2>1, <2>2, <2>3, SumOfRows, ImageFinite
<1>15. \A x \in parts : g1[x] \in Int /\ g2[x] \in Int /\ g2[x] <= g1[x]
  <2> SUFFICES ASSUME NEW x \in parts PROVE g1[x] \in Int /\ g2[x] \in Int /\ g2[x] <= g1[x]
    OBVIOUS
  <2> DEFINE all == x.visits
             some == Adm!FirstVisits(all, x.s.to)
  <2>1. PICK s \in segs : x = card[s]
    BY <1>10
  <2>2. all \subseteq Adm!CompletedVisits(from, to)
    BY <1>4, <1>11, <2>1
  <2>3. some \subseteq all
    BY DEF Adm!FirstVisits
  <2>4. g1[x] = Cardinality(all) /\ g2[x] = Cardinality(some)
    BY <1>9, LibraryIs
  <2> HIDE DEF all, some
  <2>5. IsFiniteSet(all)
    BY <1>3, <2>2, FS_Subset
  <2>6. IsFiniteSet(some) /\ Cardinality(some) <= Cardinality(all)
    BY <2>3, <2>5, FS_Subset
  <2>7. Cardinality(all) \in Nat /\ Cardinality(some) \in Nat
    BY <2>5, <2>6, FS_CardinalityType
  <2>8. QED
    BY <2>4, <2>6, <2>7
<1>16. SumOf(g2, parts) <= SumOf(g1, parts)
  <2>1. Summable(g1, parts) /\ Summable(g2, parts)
    BY <1>14, <1>15 DEF Summable
  <2>2. QED
    BY <1>15, <2>1, SumAtMost
<1>17. PartsVisits(parts) = SumOf(g1, parts) /\ PartsFirst(parts) = SumOf(g2, parts)
  <2> HIDE DEF parts
  <2>1. QED
    BY <1>9, PartsVisitsIs, PartsFirstIs
<1>18. QED
  BY <1>1, <1>13, <1>14, <1>16, <1>17

-----------------------------------------------------------------------------
(* Its days. *)

\* The days of a period have what somebody has of it.
ByDay(c, E, day, from, to) ==
  /\ IsFiniteSet(E) /\ \A e \in E : day[e] \in from .. to
  /\ \A d \in from .. to : c[d] = Cardinality({e \in E : day[e] = d})

\* Days that have what fell on them have all of it.
LEMMA DaysAddUp ==
  ASSUME NEW from \in Int, NEW to \in Int, NEW E, NEW day, NEW c, ByDay(c, E, day, from, to)
  PROVE  SumOf(c, from .. to) = Cardinality(E)
<1> DEFINE A == [d \in from .. to |-> {e \in E : day[e] = d}]
<1>1. \A d \in from .. to : A[d] = {e \in E : day[e] = d}
  OBVIOUS
<1>2. IsFiniteSet(from .. to)
  BY FS_Interval
<1> HIDE DEF A
<1>3. Counts(c, A, from .. to, E) /\ Disjoint(A, from .. to)
  BY <1>1, <1>2 DEF Counts, Disjoint, ByDay
<1>4. UNION {A[d] : d \in from .. to} = E
  BY <1>1 DEF ByDay
<1>5. QED
  BY <1>3, <1>4, CountParts

\* The daily series of an overview has what the row of Plan/fact has.
LEMMA SeriesAddsUp ==
  ASSUME Mirrored, Books, NEW from, NEW to, Period(from, to), NEW events, OfPeriod(events, from, to),
         NEW p \in Adm!Listed(from, to)
  PROVE  LET days == Adm!DailySeries(Adm!OpzSegments(p, from, to, events), from, to)
         IN  /\ DaysOpz(days, DOMAIN days) = Cardinality(TheirOpz(p, from, to, events))
             /\ DaysVisits(days, DOMAIN days) = Cardinality(TheirVisits(p, from, to))
<1> DEFINE opz == TheirOpz(p, from, to, events)
           visits == TheirVisits(p, from, to)
           days == Adm!DailySeries(Adm!OpzSegments(p, from, to, events), from, to)
           c == [d \in from .. to |-> days[d].opz]
           v == [d \in from .. to |-> days[d].visits]
           opzDay == [e \in opz |-> e.day]
           visitDay == [x \in visits |-> Adm!Day(x)]
<1>1. days = [d \in from .. to |-> [opz |-> Cardinality({e \in opz : e.day = d}),
                                    visits |-> Cardinality({x \in visits : Adm!Day(x) = d})]]
  <2> DEFINE parts == Adm!OpzSegments(p, from, to, events)
             had == UNION {x.events : x \in parts}
             made == UNION {x.visits : x \in parts}
  <2>1. had = opz /\ made = visits
    BY OverviewGathers
  <2>2. days = [d \in from .. to |-> [opz |-> Cardinality({e \in had : e.day = d}),
                                      visits |-> Cardinality({x \in made : Adm!Day(x) = d})]]
    BY LibraryIs DEF Adm!DailySeries
  <2> HIDE DEF had, made, opz, visits, days
  <2>3. QED
    BY <2>1, <2>2
<1>2. from \in Int /\ to \in Int
  BY PeriodIs
<1>3. opz \subseteq events /\ IsFiniteSet(opz) /\ \A e \in opz : e.day \in from .. to
  <2>1. opz \subseteq events /\ IsFiniteSet(events)
    BY OpzGathered DEF OfPeriod, Coming
  <2>2. QED
    BY <2>1, FS_Subset DEF OfPeriod
<1>4. IsFiniteSet(visits) /\ \A x \in visits : Adm!Day(x) \in from .. to
  <2>1. visits \subseteq Adm!CompletedVisits(from, to)
    BY VisitsGathered
  <2>2. IsFiniteSet(Adm!CompletedVisits(from, to)) /\ \A x \in Adm!CompletedVisits(from, to) : Adm!Day(x) \in from .. to
    BY FS_Subset DEF Adm!CompletedVisits, Books
  <2>3. QED
    BY <2>1, <2>2, FS_Subset
<1> HIDE DEF opz, visits, days
<1>5. DOMAIN days = from .. to
  BY <1>1
<1>6. \A d \in from .. to : c[d] = days[d].opz /\ v[d] = days[d].visits
  OBVIOUS
<1>7. /\ \A e \in opz : opzDay[e] = e.day
      /\ \A x \in visits : visitDay[x] = Adm!Day(x)
  OBVIOUS
<1> HIDE DEF c, v, opzDay, visitDay
<1>8. \A d \in from .. to : {e \in opz : opzDay[e] = d} = {e \in opz : e.day = d}
  BY <1>7
<1>9. \A d \in from .. to : {x \in visits : visitDay[x] = d} = {x \in visits : Adm!Day(x) = d}
  BY <1>7
<1>10. \A d \in from .. to : c[d] = Cardinality({e \in opz : e.day = d}) /\ v[d] = Cardinality({x \in visits : Adm!Day(x) = d})
  BY <1>1, <1>6
<1>11. SumOf(c, from .. to) = Cardinality(opz)
  <2>1. \A d \in from .. to : c[d] = Cardinality({e \in opz : opzDay[e] = d})
    BY <1>8, <1>10
  <2>2. \A e \in opz : opzDay[e] \in from .. to
    BY <1>3, <1>7
  <2>3. ByDay(c, opz, opzDay, from, to)
    BY <1>3, <2>1, <2>2 DEF ByDay
  <2>4. QED
    BY <1>2, <2>3, DaysAddUp
<1>12. SumOf(v, from .. to) = Cardinality(visits)
  <2>1. \A d \in from .. to : v[d] = Cardinality({x \in visits : visitDay[x] = d})
    BY <1>9, <1>10
  <2>2. \A x \in visits : visitDay[x] \in from .. to
    BY <1>4, <1>7
  <2>3. ByDay(v, visits, visitDay, from, to)
    BY <1>4, <2>1, <2>2 DEF ByDay
  <2>4. QED
    BY <1>2, <2>3, DaysAddUp
<1>13. DaysOpz(days, from .. to) = SumOf(c, from .. to) /\ DaysVisits(days, from .. to) = SumOf(v, from .. to)
  <2> DEFINE S == from .. to
  <2>1. \A d \in S : c[d] = days[d].opz /\ v[d] = days[d].visits
    BY <1>6
  <2> HIDE DEF S
  <2>2. \A d \in S : c[d] = days[d].opz
    BY <2>1
  <2>3. \A d \in S : v[d] = days[d].visits
    BY <2>1
  <2>4. DaysOpz(days, S) = SumOf(c, S)
    BY <2>2, DaysOpzIs
  <2>5. DaysVisits(days, S) = SumOf(v, S)
    BY <2>3, DaysVisitsIs
  <2>6. QED
    BY <2>4, <2>5 DEF S
<1>14. QED
  BY <1>5, <1>11, <1>12, <1>13 DEF opz, visits, days

-----------------------------------------------------------------------------
(* A page about one month. *)

\* A period of one month lies in it.
LEMMA OneMonthIs ==
  ASSUME NEW w \in Asked, Adm!OneMonth(w)
  PROVE  /\ Adm!MonthsOf(w[1], w[2]) = {Adm!Month(w[1])} /\ Adm!Month(w[1]) \in Int
         /\ Adm!FirstDay(Adm!Month(w[1])) <= w[1] /\ w[2] <= Adm!LastDay(Adm!Month(w[1]))
<1> DEFINE ms == Adm!MonthsOf(w[1], w[2])
           m == Adm!Month(w[1])
           n == Adm!Month(w[2])
<1>1. Period(w[1], w[2]) /\ w[1] \in Int /\ w[2] \in Int
  BY AskedIs
<1>2. /\ m \in Int /\ n \in Int /\ Adm!FirstDay(m) <= w[1] /\ w[2] <= Adm!LastDay(n)
  <2>1. m \in Int /\ Adm!FirstDay(m) <= w[1]
    <3>1. m \in Int /\ (Adm!FirstDay(m) <= w[1] <=> m <= m)
      BY <1>1, MonthIs
    <3> HIDE DEF m
    <3>2. QED
      BY <3>1
  <2>2. n \in Int /\ w[2] <= Adm!LastDay(n)
    <3>1. /\ n \in Int /\ Adm!LastDay(n) \in Int /\ (Adm!LastDay(n) >= w[2] <=> n >= n)
      BY <1>1, MonthIs
    <3> HIDE DEF n
    <3>2. QED
      BY <1>1, <3>1
  <2>3. QED
    BY <2>1, <2>2
<1>3. ms = m .. n /\ m <= n
  BY <1>1, MonthsOfPeriod
<1>4. Cardinality(ms) = 1
  BY LibraryIs DEF Adm!OneMonth
<1> HIDE DEF ms, m, n
<1>5. m = n
  <2>1. Cardinality(m .. n) = n - m + 1
    BY <1>2, <1>3, FS_Interval
  <2>2. QED
    BY <1>2, <1>3, <1>4, <2>1
<1>6. ms = {m}
  BY <1>2, <1>3, <1>5
<1>7. QED
  BY <1>2, <1>5, <1>6 DEF ms, m, n

\* In it the editor adds to what the row of an administrator has.
CreditOf(s, people, events) ==
  [s |-> s, to |-> Adm!CreditedOpz(s, people, AdminsIn(people, s.month), events)]

CreditsOf(from, to, events) == {CreditOf(s, Adm!Listed(from, to), events) : s \in SegmentsOf(from, to)}

\* What the editor adds to, by the name of the sum.
LEMMA EditorIs ==
  ASSUME NEW from, NEW to, NEW events, NEW p \in Adm!Listed(from, to)
  PROVE  Adm!EditorOpz(from, to, events)[p] = CreditedTo(p, CreditsOf(from, to, events))
  BY DEF Adm!EditorOpz, CreditedTo, CreditsOf, CreditOf, SegmentsOf, AdminsIn

\* In a page about one month an administrator's editor starts from the number of his row.
LEMMA EditorAgrees ==
  ASSUME Books, NEW w \in Asked, Adm!OneMonth(w), NEW events, OfPeriod(events, w[1], w[2]),
         NEW p \in Adm!Listed(w[1], w[2]), Adm!RoleIn(p, Adm!Month(w[1])) = "administrator"
  PROVE  Adm!EditorOpz(w[1], w[2], events)[p] = Cardinality(TheirOpz(p, w[1], w[2], events))
<1> DEFINE from == w[1]
           to == w[2]
           people == Adm!Listed(from, to)
           segs == SegmentsOf(from, to)
           credit == [s \in segs |-> CreditOf(s, people, events)]
           credits == {credit[s] : s \in segs}
           opzIn == [s \in segs |-> OpzPart(from, to, events)[<<p, s>>]]
           opz == [s \in segs |-> Cardinality(opzIn[s])]
           g == [c \in credits |-> IF p \in DOMAIN c.to THEN Adm!Cardinality(c.to[p]) ELSE 0]
<1>1. Period(from, to)
  BY AskedIs
<1>2. Cuts(people, from, to, segs)
  BY <1>1, SegmentsCut DEF SegmentsOf
<1>3. IsFiniteSet(segs) /\ IsFiniteSet(events)
  BY <1>2 DEF Cuts, OfPeriod, Coming
<1>4. \A s \in segs : s.month = Adm!Month(from)
  BY <1>2, OneMonthIs DEF Cuts
<1>5. \A s \in segs : p \in AdminsIn(people, s.month)
  BY <1>4 DEF AdminsIn, Adm!In
<1>6. \A s \in segs : credit[s].s = s /\ credit[s].to = Adm!CreditedOpz(s, people, AdminsIn(people, s.month), events)
  BY DEF CreditOf
<1>7. \A s \in segs : opzIn[s] = Adm!CreditedOpz(s, people, AdminsIn(people, s.month), events)[p]
  BY <1>5 DEF OpzPart, OpzIn
<1>8. \A s \in segs : DOMAIN Adm!CreditedOpz(s, people, AdminsIn(people, s.month), events) = AdminsIn(people, s.month)
  BY DEF Adm!CreditedOpz, Adm!Credits
<1>9. \A s \in segs : opz[s] = Cardinality(opzIn[s]) /\ credit[s] \in credits
  OBVIOUS
<1>10. \A c \in credits : g[c] = IF p \in DOMAIN c.to THEN Adm!Cardinality(c.to[p]) ELSE 0
  OBVIOUS
<1>11. TheirOpz(p, from, to, events) = UNION {opzIn[s] : s \in segs}
  BY DEF TheirOpz, Gathered
<1>12. TheirOpz(p, from, to, events) \subseteq events /\ PartsApart(OpzPart(from, to, events), p, segs)
  BY <1>1, OpzGathered
<1>13. Disjoint(opzIn, segs)
  BY <1>12 DEF Disjoint, PartsApart
<1>14. Adm!EditorOpz(from, to, events)[p] = CreditedTo(p, credits)
  <2>1. credits = CreditsOf(from, to, events)
    BY DEF CreditsOf
  <2>2. Adm!EditorOpz(from, to, events)[p] = CreditedTo(p, CreditsOf(from, to, events))
    BY EditorIs
  <2> HIDE DEF credits
  <2>3. QED
    BY <2>1, <2>2
<1> HIDE DEF from, to, people, segs, credit, opzIn, opz, g
<1>15. \A s \in segs : opzIn[s] \subseteq events
  BY <1>11, <1>12
<1>16. Counts(opz, opzIn, segs, events)
  BY <1>3, <1>9, <1>15 DEF Counts
<1>17. Summable(opz, segs) /\ SumOf(opz, segs) = Cardinality(TheirOpz(p, from, to, events))
  BY <1>11, <1>13, <1>16, CountParts
<1>18. SumOf(g, credits) = SumOf(opz, segs)
  <2>1. \A s \in segs, t \in segs : credit[s] = credit[t] => s = t
    BY <1>6
  <2>2. \A s \in segs : g[credit[s]] = opz[s]
    BY <1>5, <1>6, <1>7, <1>8, <1>9, <1>10, LibraryIs
  <2>3. \A s \in segs : opz[s] \in Int
    BY <1>17 DEF Summable
  <2>4. QED
    BY <1>3, <2>1, <2>2, <2>3, SumOfRows
<1>19. CreditedTo(p, credits) = SumOf(g, credits)
  <2> HIDE DEF credits
  <2>1. QED
    BY <1>10, CreditedToIs
<1>20. QED
  BY <1>14, <1>17, <1>18, <1>19 DEF from, to

-----------------------------------------------------------------------------
(* What the editor of additional rebookings says of a month. *)

\* A row tells of typed rebookings only where the editor says that they count.
LEMMA TypedCounts ==
  ASSUME NEW w \in Asked, NEW p \in Adm!Listed(w[1], w[2]), NEW countable,
         Adm!TopUp(p, Adm!AdminMonths(p, w[1], w[2]) \cap countable) > 0, Adm!OneMonth(w) \/ p \notin gone
  PROVE  \E m \in Adm!MonthsOf(w[1], w[2]) : Adm!Counted(p, m)
<1> DEFINE from == w[1]
           to == w[2]
           months == Adm!AdminMonths(p, from, to) \cap countable
           S == Keys(p, months)
<1>1. S # {}
  <2>1. S \in SUBSET DOMAIN TopUps /\ Adm!TopUp(p, months) = SumOf(TopUps, S)
    BY TopUpIs
  <2> HIDE DEF S
  <2>2. Summable(TopUps, S)
    BY <2>1, TypedSums
  <2>3. S = {} => SumOf(TopUps, S) = 0
    BY <2>2, SumStep
  <2>4. QED
    BY <2>1, <2>3
<1>2. PICK k \in S : TRUE
  BY <1>1
<1> DEFINE m == k[2]
<1>3. m \in Adm!MonthsOf(from, to) /\ Adm!RoleIn(p, m) = "administrator" /\ Adm!LastDay(m) >= opened
  BY <1>2 DEF Keys, Adm!AdminMonths
<1>4. Adm!Relevant(p, Adm!FirstDay(m), Adm!LastDay(m))
  <2>1. CASE p \notin gone
    BY <2>1 DEF Adm!Relevant
  <2>2. CASE Adm!OneMonth(w)
    <3>1. /\ Adm!MonthsOf(from, to) = {m} /\ m \in Int
          /\ Adm!FirstDay(m) <= from /\ to <= Adm!LastDay(m)
      <4>1. Adm!MonthsOf(from, to) = {Adm!Month(from)}
        BY <2>2, OneMonthIs
      <4>2. m = Adm!Month(from)
        BY <1>3, <4>1
      <4>3. QED
        BY <2>2, <4>1, <4>2, OneMonthIs
    <3>2. from \in Int /\ to \in Int /\ Adm!FirstDay(m) \in Int /\ Adm!LastDay(m) \in Int
          /\ Adm!FirstDay(m) <= Adm!LastDay(m)
      BY <3>1, AskedIs, MonthIs
    <3>3. m \in Adm!MonthsOf(Adm!FirstDay(m), Adm!LastDay(m))
      BY <1>3, <3>2 DEF Adm!MonthsOf
    <3>4. Adm!Relevant(p, from, to)
      BY DEF Adm!Listed
    <3>5. from - 1 .. to \subseteq Adm!FirstDay(m) - 1 .. Adm!LastDay(m)
      <4> HIDE DEF from, to, m
      <4>1. QED
        BY <3>1, <3>2
    <3>6. QED
      BY <3>1, <3>3, <3>4, <3>5 DEF Adm!Relevant
  <2>3. QED
    BY <2>1, <2>2
<1>5. Adm!Counted(p, m)
  BY <1>3, <1>4 DEF Adm!Counted
<1>6. QED
  BY <1>3, <1>5

\* It says so of everybody it lists.
LEMMA ListedCount ==
  ASSUME Rosters, Books, NEW w \in Asked, NEW m \in Adm!MonthsOf(w[1], w[2]), NEW p \in Adm!EditorPeople(m)
  PROVE  Adm!Counted(p, m)
<1>1. p \in AdministratorsOf(m)
  BY EditorsAlike
<1>2. Adm!Relevant(p, Adm!FirstDay(m), Adm!LastDay(m)) /\ Adm!RoleIn(p, m) = "administrator"
  BY <1>1 DEF AdministratorsOf
<1>3. Period(w[1], w[2]) /\ w[1] \in Int /\ w[2] \in Int
  BY AskedIs
<1>4. m \in Int /\ Adm!LastDay(m) \in Int /\ Adm!LastDay(m) >= w[1]
  <2>1. m \in Int /\ Adm!LastDay(m) >= w[1]
    BY <1>3, FewMonths DEF Adm!MonthsOf
  <2>2. QED
    BY <1>3, <2>1, MonthIs
<1>5. opened \in Int /\ opened <= w[1]
  <2>1. Days # {} /\ Days \subseteq Int /\ IsFiniteSet(Days) /\ w[1] \in Days
    <3>1. PICK first \in Int, last \in Int : Days = first .. last
      BY CalendarAssumption, FactsAssumption DEF CalendarAssumption, FactsAssumption
    <3>2. QED
      BY <1>3, <3>1, FS_Interval DEF Period
  <2>2. \E x \in Days : \A y \in Days : x <= y
    BY <2>1, EndsOf
  <2>3. Min(Days) \in Days /\ \A y \in Days : Min(Days) <= y
    BY <2>2 DEF Min
  <2> DEFINE low == Min(Days)
  <2>4. low \in Int /\ low <= w[1] /\ opened = low - 1
    BY <2>1, <2>3 DEF Books
  <2> HIDE DEF low
  <2>5. QED
    BY <1>3, <2>4
<1>6. Adm!LastDay(m) >= opened
  BY <1>3, <1>4, <1>5
<1>7. QED
  BY <1>2, <1>6 DEF Adm!Counted

-----------------------------------------------------------------------------
(* The pages agree. *)

\* The two kinds of rebookings are all.
LEMMA SplitIs ==
  ASSUME NEW E, IsFiniteSet(E)
  PROVE  Adm!Split(E)[1] + Adm!Split(E)[2] = Cardinality(E)
<1> DEFINE A == {e \in E : e.first}
           B == {e \in E : ~e.first}
<1>1. Adm!Split(E)[1] = Cardinality(A) /\ Adm!Split(E)[2] = Cardinality(B)
  BY LibraryIs DEF Adm!Split
<1>2. A \subseteq E /\ B \subseteq E /\ A \cup B = E /\ A \cap B = {}
  OBVIOUS
<1> HIDE DEF A, B
<1>3. IsFiniteSet(A) /\ IsFiniteSet(B)
  BY <1>2, FS_Subset
<1>4. Cardinality(E) = Cardinality(A) + Cardinality(B) - Cardinality(A \cap B)
  <2>1. Cardinality(A \cup B) = Cardinality(A) + Cardinality(B) - Cardinality(A \cap B)
    BY <1>3, FS_Union
  <2>2. QED
    BY <1>2, <2>1
<1>5. Cardinality(A) \in Nat /\ Cardinality(B) \in Nat /\ Cardinality(A \cap B) = 0
  BY <1>2, <1>3, FS_CardinalityType, FS_EmptySet
<1>6. Cardinality(E) = Cardinality(A) + Cardinality(B)
  BY <1>4, <1>5
<1>7. QED
  BY <1>1, <1>6

\* What Agree says, by the names of the sums.
LEMMA AgreeIs ==
  ASSUME NEW w, NEW x, NEW p, NEW cards, NEW days,
         x.rows[p].opz = cards.first + cards.repeat,
         x.rows[p].clients = cards.visits, cards.firstVisits <= cards.visits,
         DaysOpz(days, DOMAIN days) = x.rows[p].opz, DaysVisits(days, DOMAIN days) = x.rows[p].clients,
         InSql(p, w[1], w[2]) = InPython(p, w[1], w[2]),
         Adm!OneMonth(w) /\ Adm!RoleIn(p, Adm!Month(w[1])) = "administrator" => x.editor[p] = x.rows[p].opz,
         x.rows[p].topUp > 0 /\ (Adm!OneMonth(w) \/ p \notin gone)
           => \E m \in Adm!MonthsOf(w[1], w[2]) : Adm!Counted(p, m)
  PROVE  Adm!Agree(w, x, p, cards, days)
  BY DEF Adm!Agree, DaysOpz, DaysVisits, InSql, InPython

\* Every person's pages agree.
LEMMA EverybodyAgrees ==
  ASSUME Mirrored, Books, Rosters, NEW w \in Asked, NEW p \in Adm!Listed(w[1], w[2])
  PROVE  LET x == Adm!Shown(w)
         IN  Adm!Agree(w, x, p, Adm!WindowFacts(x.parts[p]), Adm!DailySeries(x.parts[p], w[1], w[2]))
<1> DEFINE from == w[1]
           to == w[2]
           countable == Adm!Countable(from, to)
           events == Adm!Opz(from, to)
           parts == Adm!OpzSegments(p, from, to, events)
           cards == Adm!WindowFacts(parts)
           days == Adm!DailySeries(parts, from, to)
           row == Adm!Rows(from, to, countable, events)[p]
           opz == TheirOpz(p, from, to, events)
           visits == TheirVisits(p, from, to)
           x == Adm!Shown(w)
<1>1. Period(from, to) /\ from \in Int /\ to \in Int
  BY AskedIs
<1>2. OfPeriod(events, from, to) /\ IsFiniteSet(events)
  BY <1>1, RebookingsCome DEF OfPeriod, Coming
<1>3. x.rows[p] = row /\ x.editor[p] = Adm!EditorOpz(from, to, events)[p] /\ x.parts[p] = parts
  BY DEF Adm!Shown, Adm!Screens
<1>0. p \in Adm!Listed(from, to)
  OBVIOUS
<1> HIDE DEF from, to, countable, events, parts, days, row, x
<1>4. /\ row.opz = Cardinality(opz) /\ row.clients = Cardinality(visits)
      /\ row.topUp = Adm!TopUp(p, Adm!AdminMonths(p, from, to) \cap countable)
  BY <1>0, <1>1, <1>2, RowIs DEF row
<1>5. row.opz = cards.first + cards.repeat
  <2>1. UNION {y.events : y \in parts} = opz
    BY OverviewGathers DEF parts, from, to
  <2>2. cards.first = Adm!Split(opz)[1] /\ cards.repeat = Adm!Split(opz)[2]
    BY <2>1 DEF Adm!WindowFacts
  <2>3. opz \subseteq events
    BY <1>1, <1>2, OpzGathered DEF from, to
  <2> HIDE DEF opz
  <2>4. IsFiniteSet(opz)
    BY <1>2, <2>3, FS_Subset
  <2>5. QED
    BY <1>4, <2>2, <2>4, SplitIs
<1>6. row.clients = cards.visits /\ cards.firstVisits <= cards.visits
  <2>1. cards.visits = PartsVisits(parts) /\ cards.firstVisits = PartsFirst(parts)
    BY DEF Adm!WindowFacts, PartsVisits, PartsFirst
  <2>2. PartsVisits(parts) = Cardinality(visits) /\ PartsFirst(parts) <= PartsVisits(parts)
    BY <1>1, OverviewAddsUp DEF parts, from, to
  <2>3. QED
    BY <1>4, <2>1, <2>2
<1>7. DaysOpz(days, DOMAIN days) = row.opz /\ DaysVisits(days, DOMAIN days) = row.clients
  <2>1. DaysOpz(days, DOMAIN days) = Cardinality(opz) /\ DaysVisits(days, DOMAIN days) = Cardinality(visits)
    BY <1>1, <1>2, SeriesAddsUp DEF days, parts, from, to
  <2>2. QED
    BY <1>4, <2>1
<1>8. InSql(p, from, to) = InPython(p, from, to)
  BY ScopesAlike
<1>9. Adm!OneMonth(w) /\ Adm!RoleIn(p, Adm!Month(from)) = "administrator"
        => Adm!EditorOpz(from, to, events)[p] = row.opz
  BY <1>2, <1>4, EditorAgrees DEF from, to
<1>10. row.topUp > 0 /\ (Adm!OneMonth(w) \/ p \notin gone) => \E m \in Adm!MonthsOf(from, to) : Adm!Counted(p, m)
  BY <1>4, TypedCounts DEF from, to
<1> HIDE DEF cards, opz, visits
<1>11. Adm!Agree(w, x, p, cards, days)
  BY <1>3, <1>5, <1>6, <1>7, <1>8, <1>9, <1>10, AgreeIs DEF from, to
<1>12. QED
  BY <1>3, <1>11 DEF cards, days, x, from, to

\* So do the branch and the months of the period.
LEMMA PagesAgree ==
  ASSUME Mirrored, Books, Rosters, NEW w \in Asked
  PROVE  LET x == Adm!Shown(w)
         IN  /\ Adm!ScopeTopUp(w[1], w[2]) = x.branch.topUp
             /\ x.branch.opz + x.branch.topUp = MonthsTell(x.counts, DOMAIN x.counts)
             /\ DOMAIN x.rows = Adm!Listed(w[1], w[2])
<1> DEFINE from == w[1]
           to == w[2]
           countable == Adm!Countable(from, to)
           events == Adm!Opz(from, to)
           x == Adm!Shown(w)
<1>1. Period(from, to) /\ from \in Int /\ to \in Int
  BY AskedIs
<1>2. OfPeriod(events, from, to)
  BY <1>1, RebookingsCome DEF OfPeriod
<1>3. x.counts = Adm!MonthCounts(from, to, events) /\ x.branch = Adm!BranchRow(from, to, events)
      /\ x.rows = Adm!Rows(from, to, countable, events)
  BY DEF Adm!Shown, Adm!Screens
<1>4. x.branch.opz = Cardinality(events) /\ x.branch.topUp = Adm!BranchTopUp(from, to, countable)
  BY <1>3, LibraryIs DEF Adm!BranchRow
<1>5. Adm!ScopeTopUp(from, to) = Adm!BranchTopUp(from, to, countable)
  BY ScopeTopUpIs
<1> HIDE DEF from, to, countable, events, x
<1>6. MonthsTell(x.counts, DOMAIN x.counts) = Cardinality(events) + Adm!BranchTopUp(from, to, countable)
  BY <1>1, <1>2, <1>3, MonthsMakeThePeriod DEF countable
<1>7. DOMAIN x.rows = Adm!Listed(from, to)
  BY <1>3, RowsAre
<1>8. QED
  BY <1>4, <1>5, <1>6, <1>7 DEF from, to, x

\* Every page about a period tells of the same rebookings and visits.
THEOREM ScreensTellTheSame == PlansSpec => []ScreensAgree
<1>1. Mirrored /\ Books /\ Rosters => ScreensAgree
  <2> SUFFICES ASSUME Mirrored, Books, Rosters PROVE Adm!ScreensAgree
    BY DEF ScreensAgree
  <2>1. ASSUME NEW w \in Asked, NEW x, x = Adm!Shown(w)
        PROVE  /\ Adm!ScopeTopUp(w[1], w[2]) = x.branch.topUp
               /\ x.branch.opz + x.branch.topUp = MonthsTell(x.counts, DOMAIN x.counts)
               /\ \A p \in DOMAIN x.rows :
                    Adm!Agree(w, x, p, Adm!WindowFacts(x.parts[p]), Adm!DailySeries(x.parts[p], w[1], w[2]))
               /\ \A m \in Adm!MonthsOf(w[1], w[2]) : \A p \in Adm!EditorPeople(m) : Adm!Counted(p, m)
    BY <2>1, PagesAgree, EverybodyAgrees, ListedCount
  <2>2. QED
    BY <2>1 DEF Adm!ScreensAgree, MonthsTell
<1>2. QED
  BY <1>1, MirroredAlways, BooksAlways, RostersAlways, PTL
=============================================================================
