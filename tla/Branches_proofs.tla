--------------------------- MODULE Branches_proofs ---------------------------
(***************************************************************************)
(* Proofs about what a portal keeps of its branches.                       *)
(*                                                                         *)
(* StaffAccounts: an account whose id was never deleted has at most one    *)
(* row of YClients in a branch, only the sync fires a row of YClients, a   *)
(* repair settles any table, and no manual fact is lost.                   *)
(* What the portal writes to mirrors is of no interest but for never being *)
(* a row of YClients.  Between the claim of a row and its commit the lock  *)
(* of the account stands for the count of its links.                       *)
(*                                                                         *)
(* Figures: for any branches, people, rows and questions, a network is the *)
(* sum of its branches and a group the sum of its people, the payment      *)
(* report makes up the revenue, nobody counts as lost without having had   *)
(* the time to return, and rows out of the scope of a question are in none *)
(* of its figures.                                                         *)
(***************************************************************************)
EXTENDS StaffAccounts, MCOverview, Sums_proofs

-----------------------------------------------------------------------------
(* Staff accounts: what every state keeps.                                 *)

AccountType == [state : {"none", "live", "gone"}, personal : BOOLEAN, active : BOOLEAN, branches : SUBSET Companies]
RowType == [there : BOOLEAN, company : Companies \cup {NULL}, user : Users \cup {NULL}, fired : BOOLEAN]
WritesType == [add : SUBSET (Users \X Companies), wake : SUBSET Mirrors, fire : SUBSET Mirrors, sweep : SUBSET Users]
TxnKinds == {"none", "update", "delete", "repair", "link", "claimed", "stray", "unlink", "provision"}
TxnType == [kind : TxnKinds, user : Users \cup {NULL}, seen : AccountType, row : Crm \cup {NULL},
            rows : SUBSET Rows, writes : WritesType]

\* What each request knows of its account and row.
TxnOK(t) ==
  /\ t \in TxnType
  /\ t.kind \in {"update", "delete", "link", "claimed", "stray", "unlink"} => t.user \in Users
  /\ t.kind \in {"link", "claimed", "stray", "unlink", "provision"} => t.row \in Crm
  /\ t.kind \in {"claimed", "stray"} => t.row \in t.rows /\ t.rows \ {t.row} \subseteq Mirrors
  /\ t.kind \in {"update", "unlink"} => t.seen.state = "live"

TypeInv ==
  /\ user \in [Users -> AccountType]
  /\ staff \in [Rows -> RowType]
  /\ deleted \subseteq Users
  /\ txn \in [Procs -> TxnType]
  /\ \A p \in Procs : TxnOK(txn[p])

\* The rows of YClients stay where they work.
RowsAtHome == \A r \in Crm : staff[r].there /\ staff[r].company = Home[r]

\* An account that is not there has been deleted, or has never been linked.
NeverLinked ==
  \A u \in Users \ deleted : user[u].state # "live" => \A r \in Crm : staff[r].user # u

\* Requests outlive their account only by its deletion; one that has claimed a
\* row without an account to lock has.
Accounted ==
  /\ \A p \in Procs : txn[p].kind \in {"link", "claimed"} /\ txn[p].user \notin deleted
                         => user[txn[p].user].state = "live"
  /\ \A p \in Procs : txn[p].kind = "stray" => txn[p].user \in deleted
  /\ \A p \in Procs : Holder(p) => user[txn[p].user].state = "live"

\* One transaction at a time holds the row of an account.
OneHolder == \A p \in Procs, q \in Procs : Holder(p) /\ Holder(q) /\ txn[p].user = txn[q].user => p = q

\* Nobody links a second row behind a claim.
ClaimStands ==
  \A p \in Procs : txn[p].kind = "claimed" /\ txn[p].user \notin deleted =>
    \A r \in Crm : staff[r].user = txn[p].user => Home[r] # Home[txn[p].row]

OneLink ==
  \A u \in Users \ deleted : \A r \in Crm, s \in Crm :
    staff[r].user = u /\ staff[s].user = u /\ Home[r] = Home[s] => r = s

IInv == RowsAtHome /\ NeverLinked /\ Accounted /\ OneHolder /\ ClaimStands /\ OneLink

-----------------------------------------------------------------------------
(* Types.                                                                  *)

LEMMA MirrorsApart == Mirrors \cap Users = {} /\ Crm \subseteq Users /\ Mirrors \cap Crm = {} /\ NULL \notin Users
  BY ConstantsAssumption DEF ConstantsAssumption, Users

LEMMA NoTxnOK ==
  /\ TxnOK(NoTxn) /\ NoTxn \in TxnType
  /\ NoTxn.kind = "none" /\ NoTxn.rows = {}
  <1>1. NoUser \in AccountType
    BY DEF NoUser, AccountType
  <1>2. NoWrites \in WritesType
    BY DEF NoWrites, WritesType
  <1>3. NoTxn \in TxnType
    BY <1>1, <1>2 DEF NoTxn, TxnType, TxnKinds
  <1>4. NoTxn.kind = "none" /\ NoTxn.rows = {}
    BY DEF NoTxn
  <1>5. QED
    BY <1>3, <1>4 DEF TxnOK

LEMMA LinkedRows ==
  ASSUME NEW t, NEW u
  PROVE  Linked(t, u) \subseteq Rows /\ Linked(t, u) \ Crm \subseteq Mirrors
  BY DEF Linked, Rows

LEMMA RepairsType ==
  ASSUME NEW t \in [Rows -> RowType], NEW u \in Users, NEW account \in AccountType
  PROVE  Repairs(t, u, account) \in WritesType
  <1>1. NoWrites \in WritesType
    BY DEF NoWrites, WritesType
  <1>2. CASE ~Syncs(account) \/ account.branches = {}
    BY <1>1, <1>2 DEF Repairs, WritesType
  <1>3. CASE ~(~Syncs(account) \/ account.branches = {})
    <2> DEFINE rows == Linked(t, u)
               kept == {r \in rows \ Crm : t[r].company \in account.branches /\ Stands(t, u, r)}
               add == {u} \X (account.branches \ {t[r].company : r \in rows})
               wake == {r \in kept : t[r].fired}
               fire == {r \in (rows \ Crm) \ kept : ~t[r].fired}
    <2>1. rows \ Crm \subseteq Mirrors
      BY LinkedRows
    <2>2. add \subseteq Users \X Companies
      BY DEF AccountType
    <2>3. wake \subseteq Mirrors /\ fire \subseteq Mirrors
      BY <2>1
    <2>4. Repairs(t, u, account) = [add |-> add, wake |-> wake, fire |-> fire, sweep |-> {}]
      BY <1>3 DEF Repairs
    <2> HIDE DEF rows, kept, add, wake, fire
    <2>5. QED
      BY <2>2, <2>3, <2>4 DEF WritesType
  <1>4. QED
    BY <1>2, <1>3

LEMMA TogetherType ==
  ASSUME NEW ws \in SUBSET WritesType
  PROVE  Together(ws) \in WritesType
  BY DEF Together, WritesType

\* Whatever is repaired, no row of YClients is written.
LEMMA WrittenType ==
  ASSUME NEW t \in [Rows -> RowType], NEW w \in WritesType, NEW f \in Fresh(t, w)
  PROVE  /\ Written(t, w, f) \in [Rows -> RowType]
         /\ \A r \in Crm : Written(t, w, f)[r] = t[r]
  <1>1. \A a \in w.add : f[a] \in Mirrors
    BY DEF Fresh
  <1>2. w.add \subseteq Users \X Companies /\ w.wake \subseteq Mirrors /\ w.fire \subseteq Mirrors
    BY DEF WritesType
  <1>3. ASSUME NEW r \in Rows PROVE Written(t, w, f)[r] \in RowType
    <2>1. CASE \E a \in w.add : f[a] = r
      <3> DEFINE a == CHOOSE a \in w.add : f[a] = r
      <3>1. a \in w.add
        BY <2>1
      <3>2. a[1] \in Users /\ a[2] \in Companies
        BY <1>2, <3>1
      <3>3. Written(t, w, f)[r] = [there |-> TRUE, company |-> a[2], user |-> a[1], fired |-> FALSE]
        BY <2>1 DEF Written
      <3> HIDE DEF a
      <3>4. QED
        BY <3>2, <3>3 DEF RowType
    <2>2. CASE ~\E a \in w.add : f[a] = r
      <3>1. Written(t, w, f)[r] \in {[t[r] EXCEPT !.fired = FALSE], [t[r] EXCEPT !.fired = TRUE], t[r]}
        BY <2>2 DEF Written
      <3>2. t[r] \in RowType
        OBVIOUS
      <3>3. QED
        BY <3>1, <3>2 DEF RowType
    <2>3. QED
      BY <2>1, <2>2
  <1>4. ASSUME NEW r \in Crm PROVE Written(t, w, f)[r] = t[r]
    <2>1. r \in Rows /\ r \notin Mirrors
      BY MirrorsApart DEF Rows
    <2>2. QED
      BY <1>1, <1>2, <2>1 DEF Written
  <1>5. Written(t, w, f) = [r \in Rows |-> Written(t, w, f)[r]]
    BY DEF Written
  <1>6. QED
    BY <1>3, <1>4, <1>5

LEMMA BeginStep ==
  ASSUME TypeInv, NEW p \in Procs, NEW t, TxnOK(t), Begin(p, t)
  PROVE  /\ txn'[p] = t /\ \A q \in Procs \ {p} : txn'[q] = txn[q]
         /\ txn[p] = NoTxn
         /\ txn' \in [Procs -> TxnType] /\ \A q \in Procs : TxnOK(txn'[q])
  <1>1. txn' = [txn EXCEPT ![p] = t] /\ txn[p] = NoTxn
    BY DEF Begin
  <1>2. txn'[p] = t /\ \A q \in Procs \ {p} : txn'[q] = txn[q]
    BY <1>1 DEF TypeInv
  <1>3. txn' \in [Procs -> TxnType]
    BY <1>1 DEF TypeInv, TxnOK
  <1>4. QED
    BY <1>1, <1>2, <1>3 DEF TypeInv

LEMMA FinishStep ==
  ASSUME TypeInv, NEW p \in Procs, Finish(p)
  PROVE  /\ txn'[p] = NoTxn /\ \A q \in Procs \ {p} : txn'[q] = txn[q]
         /\ txn' \in [Procs -> TxnType] /\ \A q \in Procs : TxnOK(txn'[q])
  <1>1. txn' = [txn EXCEPT ![p] = NoTxn]
    BY DEF Finish
  <1>2. txn'[p] = NoTxn /\ \A q \in Procs \ {p} : txn'[q] = txn[q]
    BY <1>1 DEF TypeInv
  <1>3. txn' \in [Procs -> TxnType]
    BY <1>1, NoTxnOK DEF TypeInv
  <1>4. QED
    BY <1>2, <1>3, NoTxnOK DEF TypeInv

LEMMA InitTypeInv == Init => TypeInv
  <1> SUFFICES ASSUME Init PROVE TypeInv
    OBVIOUS
  <1>1. user \in [Users -> AccountType]
    <2>1. PICK seeded \in SUBSET Made :
            user = [u \in Users |-> IF u \in seeded
                      THEN [state |-> "live", personal |-> TRUE, active |-> TRUE, branches |-> Companies] ELSE NoUser]
      BY DEF Init
    <2>2. NoUser \in AccountType
      BY DEF NoUser, AccountType
    <2>3. [state |-> "live", personal |-> TRUE, active |-> TRUE, branches |-> Companies] \in AccountType
      BY DEF AccountType
    <2>4. QED
      BY <2>1, <2>2, <2>3
  <1>2. staff \in [Rows -> RowType]
    <2>1. NoRow \in RowType
      BY DEF NoRow, RowType
    <2>2. \A r \in Crm : [there |-> TRUE, company |-> Home[r], user |-> NULL, fired |-> FALSE] \in RowType
      BY ConstantsAssumption DEF ConstantsAssumption, RowType
    <2>3. QED
      BY <2>1, <2>2 DEF Init
  <1>3. QED
    BY <1>1, <1>2, NoTxnOK DEF Init, TypeInv

\* A request begins, about an account that is there.
Begun(p) ==
  /\ UNCHANGED <<user, staff, deleted>>
  /\ txn' \in [Procs -> TxnType] /\ \A q \in Procs : TxnOK(txn'[q])
  /\ \A q \in Procs \ {p} : txn'[q] = txn[q]
  /\ txn'[p].kind \in {"repair", "delete", "update", "link", "unlink", "provision"}
  /\ txn'[p].kind \in {"update", "link"} => user[txn'[p].user].state = "live"
  /\ txn'[p].kind = "update" => AccountFree(txn'[p].user)

LEMMA Requests ==
  ASSUME TypeInv, NEW p \in Procs, Request(p)
  PROVE  Begun(p)
  <1>0. NoTxn \in TxnType /\ NoUser \in AccountType /\ NoWrites \in WritesType
    BY NoTxnOK DEF NoUser, AccountType, NoWrites, WritesType
  <1>1. ASSUME NEW new, TxnOK(new), Begin(p, new),
               new.kind \in {"repair", "delete", "update", "link", "unlink", "provision"},
               new.kind \in {"update", "link"} => user[new.user].state = "live",
               new.kind = "update" => AccountFree(new.user),
               UNCHANGED <<user, staff, deleted>>
        PROVE  Begun(p)
    <2>1. /\ txn'[p] = new /\ \A q \in Procs \ {p} : txn'[q] = txn[q]
          /\ txn' \in [Procs -> TxnType] /\ \A q \in Procs : TxnOK(txn'[q])
      BY <1>1, BeginStep
    <2>2. QED
      BY <1>1, <2>1 DEF Begun
  <1>2. CASE RepairRead(p)
    <2> DEFINE w == Together({Repairs(staff, u, user[u]) : u \in {v \in Users : Syncs(user[v])}})
               new == [NoTxn EXCEPT !.kind = "repair", !.writes = w]
    <2>1. w \in WritesType
      <3>1. {Repairs(staff, u, user[u]) : u \in {v \in Users : Syncs(user[v])}} \subseteq WritesType
        BY RepairsType DEF TypeInv
      <3>2. QED
        BY <3>1, TogetherType
    <2>2. Begin(p, new)
      BY <1>2 DEF RepairRead
    <2> HIDE DEF w
    <2>3. new \in TxnType /\ new.kind = "repair"
      BY <1>0, <2>1 DEF TxnType, TxnKinds
    <2> HIDE DEF new
    <2>4. TxnOK(new)
      BY <2>3 DEF TxnOK
    <2>5. QED
      BY <1>1, <1>2, <2>2, <2>3, <2>4 DEF RepairRead
  <1>3. ASSUME NEW u \in Users, DeleteDetach(p, u) PROVE Begun(p)
    <2> DEFINE rs == Linked(staff, u)
               new == [NoTxn EXCEPT !.kind = "delete", !.user = u, !.rows = rs]
    <2>1. rs \in SUBSET Rows
      BY LinkedRows
    <2>2. Begin(p, new)
      BY <1>3 DEF DeleteDetach
    <2> HIDE DEF rs
    <2>3. new \in TxnType /\ new.kind = "delete" /\ new.user = u
      BY <1>0, <2>1 DEF TxnType, TxnKinds
    <2> HIDE DEF new
    <2>4. TxnOK(new)
      BY <2>3 DEF TxnOK
    <2>5. QED
      BY <1>1, <1>3, <2>2, <2>3, <2>4 DEF DeleteDetach
  <1>4. ASSUME NEW u \in Users, NEW a \in WorkingAccounts, UpdateFlush(p, u, a) PROVE Begun(p)
    <2> DEFINE w == Repairs(staff, u, a)
               new == [NoTxn EXCEPT !.kind = "update", !.user = u, !.seen = a, !.writes = w]
    <2>1. a \in AccountType /\ a.state = "live"
      BY DEF WorkingAccounts, AccountType
    <2>2. w \in WritesType
      BY <2>1, RepairsType DEF TypeInv
    <2>3. Begin(p, new) /\ user[u].state = "live" /\ AccountFree(u) /\ UNCHANGED <<user, staff, deleted>>
      BY <1>4 DEF UpdateFlush
    <2> HIDE DEF w
    <2>4. new \in TxnType /\ new.kind = "update" /\ new.user = u /\ new.seen = a
      BY <1>0, <2>1, <2>2 DEF TxnType, TxnKinds
    <2> HIDE DEF new
    <2>5. TxnOK(new)
      BY <2>1, <2>4 DEF TxnOK
    <2>6. QED
      BY <1>1, <2>3, <2>4, <2>5
  <1>5. ASSUME NEW u \in Users, NEW s \in Crm, LinkLoad(p, u, s) \/ UnlinkLoad(p, u, s) PROVE Begun(p)
    <2>1. user[u] \in AccountType /\ user[u].state = "live" /\ UNCHANGED <<user, staff, deleted>>
      BY <1>5 DEF TypeInv, LinkLoad, UnlinkLoad
    <2>2. ASSUME NEW kind \in {"link", "unlink"},
                 Begin(p, [NoTxn EXCEPT !.kind = kind, !.user = u, !.seen = user[u], !.row = s])
          PROVE  Begun(p)
      <3> DEFINE new == [NoTxn EXCEPT !.kind = kind, !.user = u, !.seen = user[u], !.row = s]
      <3>1. /\ new \in TxnType /\ new.kind = kind /\ new.user = u /\ new.seen = user[u]
            /\ new.row = s
        BY <1>0, <2>1 DEF TxnType, TxnKinds
      <3>2. Begin(p, new)
        BY <2>2
      <3> HIDE DEF new
      <3>3. TxnOK(new)
        BY <2>1, <3>1 DEF TxnOK
      <3>4. QED
        BY <1>1, <2>1, <3>1, <3>2, <3>3
    <2>3. QED
      BY <1>5, <2>2 DEF LinkLoad, UnlinkLoad
  <1>6. ASSUME NEW s \in Crm, ProvisionLoad(p, s) PROVE Begun(p)
    <2> DEFINE new == [NoTxn EXCEPT !.kind = "provision", !.user = s, !.row = s]
    <2>1. new \in TxnType /\ new.kind = "provision" /\ new.user = s /\ new.row = s
      BY <1>0, MirrorsApart DEF TxnType, TxnKinds
    <2>2. Begin(p, new) /\ UNCHANGED <<user, staff, deleted>>
      BY <1>6 DEF ProvisionLoad
    <2> HIDE DEF new
    <2>3. TxnOK(new)
      BY <2>1 DEF TxnOK
    <2>4. QED
      BY <1>1, <2>1, <2>2, <2>3
  <1>7. QED
    BY <1>2, <1>3, <1>4, <1>5, <1>6 DEF Request

\* A link is claimed: the row, and the mirrors it replaces.
Claims(p) ==
  LET t == txn[p]
  IN  /\ UNCHANGED <<user, staff, deleted>>
      /\ t.kind = "link" /\ AccountFree(t.user)
      /\ \A q \in Procs \ {p} : txn'[q] = txn[q]
      /\ txn' \in [Procs -> TxnType] /\ \A q \in Procs : TxnOK(txn'[q])
      /\ txn'[p].kind = IF user[t.user].state = "live" THEN "claimed" ELSE "stray"
      /\ txn'[p].user = t.user /\ txn'[p].row = t.row
      /\ Linkable(t.user, t.row, t.seen)

LEMMA ClaimStep ==
  ASSUME TypeInv, NEW p \in Procs, LinkClaim(p)
  PROVE  Claims(p) \/ (Finish(p) /\ UNCHANGED <<user, staff, deleted>>)
  <1> DEFINE u == txn[p].user
             s == txn[p].row
             mirrors == {r \in Linked(staff, u) \cap Mirrors : staff[r].company = staff[s].company}
             k == IF user[u].state = "live" THEN "claimed" ELSE "stray"
  <1>1. UNCHANGED <<user, staff, deleted>> /\ txn[p].kind = "link" /\ AccountFree(u)
    BY DEF LinkClaim
  <1>2. txn[p] \in TxnType /\ TxnOK(txn[p]) /\ txn \in [Procs -> TxnType]
    BY DEF TypeInv
  <1>3. u \in Users /\ s \in Crm
    BY <1>1, <1>2 DEF TxnOK
  <1>4. CASE Linkable(u, s, txn[p].seen)
    <2>1. txn' = [txn EXCEPT ![p].kind = k, ![p].rows = {s} \cup mirrors]
      BY <1>4 DEF LinkClaim
    <2>2. mirrors \subseteq Rows /\ {s} \subseteq Rows /\ k \in {"claimed", "stray"}
      BY <1>3 DEF Rows
    <2> DEFINE rs == {s} \cup mirrors
    <2>3. rs \in SUBSET Rows /\ s \in rs /\ rs \ {s} \subseteq Mirrors
      BY <2>2
    <2>4. txn' = [txn EXCEPT ![p].kind = k, ![p].rows = rs]
      BY <2>1
    <2> HIDE DEF mirrors, rs, k, u, s
    <2>5. /\ txn'[p].kind = k /\ txn'[p].rows = rs /\ txn'[p].user = txn[p].user
          /\ txn'[p].row = txn[p].row /\ txn'[p] \in TxnType
          /\ \A q \in Procs \ {p} : txn'[q] = txn[q]
          /\ txn' \in [Procs -> TxnType]
      BY <1>2, <2>2, <2>3, <2>4 DEF TxnType, TxnKinds
    <2> USE DEF u, s
    <2>6. TxnOK(txn'[p])
      BY <1>3, <2>2, <2>3, <2>5 DEF TxnOK
    <2>7. \A q \in Procs : TxnOK(txn'[q])
      BY <2>5, <2>6 DEF TypeInv
    <2>8. QED
      BY <1>1, <1>4, <2>5, <2>7 DEF Claims, k
  <1>5. CASE ~Linkable(u, s, txn[p].seen)
    BY <1>1, <1>5 DEF LinkClaim
  <1>6. QED
    BY <1>4, <1>5

\* Types, of a step that ends a request.
LEMMA TypeOfEnd ==
  ASSUME TypeInv, NEW p \in Procs, Finish(p),
         user' \in [Users -> AccountType], staff' \in [Rows -> RowType], deleted' \subseteq Users
  PROVE  TypeInv'
  BY FinishStep DEF TypeInv

\* How the rows of YClients change when a request ends.
LEMMA CommitTypes ==
  ASSUME TypeInv, NEW p \in Procs
  PROVE  /\ UpdateCommit(p) => /\ user' \in [Users -> AccountType]
                               /\ staff' \in [Rows -> RowType] /\ \A r \in Crm : staff'[r] = staff[r]
         /\ RepairCommit(p) => /\ staff' \in [Rows -> RowType] /\ \A r \in Crm : staff'[r] = staff[r]
         /\ DeleteCommit(p) => /\ user' \in [Users -> AccountType]
                               /\ staff' \in [Rows -> RowType]
                               /\ \A r \in Crm : /\ staff'[r].there = staff[r].there
                                                 /\ staff'[r].company = staff[r].company
                                                 /\ staff'[r].fired = staff[r].fired
                                                 /\ staff'[r].user \in {staff[r].user, NULL}
         /\ UnlinkCommit(p) => /\ staff' \in [Rows -> RowType]
                               /\ \A r \in Crm : /\ staff'[r].there = staff[r].there
                                                 /\ staff'[r].company = staff[r].company
                                                 /\ staff'[r].fired = staff[r].fired
                                                 /\ staff'[r].user \in {staff[r].user, NULL}
         /\ LinkCommit(p) => /\ staff' \in [Rows -> RowType]
                             /\ \A r \in Crm : /\ staff'[r].there = staff[r].there
                                               /\ staff'[r].company = staff[r].company
                                               /\ staff'[r].fired = staff[r].fired
                                               /\ r # txn[p].row => staff'[r].user \in {staff[r].user, NULL}
                             /\ staff'[txn[p].row].user = txn[p].user
         /\ ProvisionCommit(p) => /\ user' \in [Users -> AccountType]
                                  /\ staff' \in [Rows -> RowType]
  <1>1. /\ txn[p] \in TxnType /\ TxnOK(txn[p])
        /\ user \in [Users -> AccountType] /\ staff \in [Rows -> RowType]
    BY DEF TypeInv
  <1>2. Crm \subseteq Rows /\ txn[p].writes \in WritesType
    BY <1>1 DEF Rows, TxnType
  <1>3. ASSUME UpdateCommit(p)
        PROVE  /\ user' \in [Users -> AccountType]
               /\ staff' \in [Rows -> RowType] /\ \A r \in Crm : staff'[r] = staff[r]
    <2>1. txn[p].seen \in AccountType
      BY <1>1 DEF TxnType
    <2>2. PICK f \in Fresh(staff, txn[p].writes) : staff' = Written(staff, txn[p].writes, f)
      BY <1>3 DEF UpdateCommit
    <2>3. QED
      BY <1>1, <1>2, <1>3, <2>1, <2>2, WrittenType DEF UpdateCommit
  <1>4. ASSUME RepairCommit(p)
        PROVE  staff' \in [Rows -> RowType] /\ \A r \in Crm : staff'[r] = staff[r]
    <2>1. PICK f \in Fresh(staff, txn[p].writes) : staff' = Written(staff, txn[p].writes, f)
      BY <1>4 DEF RepairCommit
    <2>2. QED
      BY <1>1, <1>2, <2>1, WrittenType
  <1>5. ASSUME DeleteCommit(p)
        PROVE  /\ user' \in [Users -> AccountType]
               /\ staff' \in [Rows -> RowType]
               /\ \A r \in Crm : /\ staff'[r].there = staff[r].there
                                 /\ staff'[r].company = staff[r].company
                                 /\ staff'[r].fired = staff[r].fired
                                 /\ staff'[r].user \in {staff[r].user, NULL}
    <2>1. NoUser \in AccountType
      BY DEF NoUser, AccountType
    <2>2. [NoUser EXCEPT !.state = "gone"] \in AccountType
      BY <2>1 DEF AccountType
    <2>3. user' \in [Users -> AccountType]
      BY <1>1, <1>5, <2>2 DEF DeleteCommit
    <2>4. staff' = [r \in Rows |-> IF r \notin txn[p].rows THEN staff[r]
                                   ELSE IF r \in Crm THEN [staff[r] EXCEPT !.user = NULL]
                                   ELSE [staff[r] EXCEPT !.fired = TRUE]]
      BY <1>5 DEF DeleteCommit
    <2>5. ASSUME NEW r \in Rows
          PROVE  /\ staff'[r] \in RowType
                 /\ r \in Crm => /\ staff'[r].there = staff[r].there
                                 /\ staff'[r].company = staff[r].company
                                 /\ staff'[r].fired = staff[r].fired
                                 /\ staff'[r].user \in {staff[r].user, NULL}
      <3>1. staff[r] \in RowType
        BY <1>1
      <3>2. \/ staff'[r] = staff[r]
            \/ r \in Crm /\ staff'[r] = [staff[r] EXCEPT !.user = NULL]
            \/ r \notin Crm /\ staff'[r] = [staff[r] EXCEPT !.fired = TRUE]
        BY <2>4
      <3>3. QED
        BY <3>1, <3>2 DEF RowType
    <2>6. QED
      BY <1>2, <2>3, <2>4, <2>5
  <1>6. ASSUME UnlinkCommit(p)
        PROVE  /\ staff' \in [Rows -> RowType]
               /\ \A r \in Crm : /\ staff'[r].there = staff[r].there
                                 /\ staff'[r].company = staff[r].company
                                 /\ staff'[r].fired = staff[r].fired
                                 /\ staff'[r].user \in {staff[r].user, NULL}
    <2> DEFINE u == txn[p].user
               s == txn[p].row
               released == [staff EXCEPT ![s].user = NULL]
               w == Repairs(released, u, txn[p].seen)
    <2>1. u \in Users /\ s \in Crm /\ txn[p].seen \in AccountType
      BY <1>1, <1>6 DEF UnlinkCommit, TxnOK, TxnType
    <2>2. /\ released \in [Rows -> RowType]
          /\ \A r \in Crm : /\ released[r].there = staff[r].there
                            /\ released[r].company = staff[r].company
                            /\ released[r].fired = staff[r].fired
                            /\ released[r].user \in {staff[r].user, NULL}
      <3>1. released = [r \in Rows |-> IF r = s THEN [staff[r] EXCEPT !.user = NULL] ELSE staff[r]]
        BY <1>1
      <3> HIDE DEF s, released
      <3>2. ASSUME NEW r \in Rows
            PROVE  /\ released[r] \in RowType
                   /\ released[r].there = staff[r].there
                   /\ released[r].company = staff[r].company
                   /\ released[r].fired = staff[r].fired
                   /\ released[r].user \in {staff[r].user, NULL}
        <4>1. staff[r] \in RowType
          BY <1>1
        <4>2. released[r] = [staff[r] EXCEPT !.user = NULL] \/ released[r] = staff[r]
          BY <3>1
        <4>3. QED
          BY <4>1, <4>2 DEF RowType
      <3>3. QED
        BY <1>2, <3>1, <3>2
    <2>3. CASE staff[s].user = u
      <3>1. PICK f \in Fresh(released, w) : staff' = Written(released, w, f)
        BY <1>6, <2>3 DEF UnlinkCommit
      <3> HIDE DEF released
      <3>2. w \in WritesType
        BY <2>1, <2>2, RepairsType
      <3> HIDE DEF w
      <3>3. staff' \in [Rows -> RowType] /\ \A r \in Crm : staff'[r] = released[r]
        BY <2>2, <3>1, <3>2, WrittenType
      <3>4. QED
        BY <2>2, <3>3
    <2>4. CASE staff[s].user # u
      BY <1>1, <1>6, <2>4 DEF UnlinkCommit
    <2>5. QED
      BY <2>3, <2>4
  <1>7. ASSUME LinkCommit(p)
        PROVE  /\ staff' \in [Rows -> RowType]
               /\ \A r \in Crm : /\ staff'[r].there = staff[r].there
                                 /\ staff'[r].company = staff[r].company
                                 /\ staff'[r].fired = staff[r].fired
                                 /\ r # txn[p].row => staff'[r].user \in {staff[r].user, NULL}
               /\ staff'[txn[p].row].user = txn[p].user
    <2> DEFINE u == txn[p].user
               s == txn[p].row
               mirrors == txn[p].rows \ {s}
    <2>1. u \in Users /\ s \in Rows /\ mirrors \cap Crm = {}
      BY <1>1, <1>2, <1>7, MirrorsApart DEF LinkCommit, TxnOK
    <2>2. staff' = [r \in Rows |-> IF r = s THEN [staff[s] EXCEPT !.user = u]
                                   ELSE IF r \in mirrors THEN [staff[r] EXCEPT !.fired = TRUE, !.user = NULL]
                                   ELSE staff[r]]
      BY <1>7 DEF LinkCommit
    <2> HIDE DEF u, s, mirrors
    <2>3. ASSUME NEW r \in Rows
          PROVE  /\ staff'[r] \in RowType
                 /\ staff'[r].there = staff[r].there /\ staff'[r].company = staff[r].company
                 /\ r \in Crm => staff'[r].fired = staff[r].fired
                 /\ r # s => staff'[r].user \in {staff[r].user, NULL}
                 /\ r = s => staff'[r].user = u
      <3>1. staff[r] \in RowType
        BY <1>1
      <3>2. CASE r = s
        <4>1. staff'[r] = [staff[r] EXCEPT !.user = u]
          BY <2>2, <3>2
        <4>2. QED
          BY <2>1, <3>1, <3>2, <4>1 DEF RowType
      <3>3. CASE r # s
        <4>1. \/ r \notin Crm /\ staff'[r] = [staff[r] EXCEPT !.fired = TRUE, !.user = NULL]
              \/ staff'[r] = staff[r]
          BY <2>1, <2>2, <3>3
        <4>2. QED
          BY <3>1, <3>3, <4>1 DEF RowType
      <3>4. QED
        BY <3>2, <3>3
    <2>4. QED
      BY <1>2, <2>1, <2>2, <2>3 DEF u, s
  <1>8. ASSUME ProvisionCommit(p)
        PROVE  user' \in [Users -> AccountType] /\ staff' \in [Rows -> RowType]
    <2> DEFINE s == txn[p].row
    <2>1. s \in Crm /\ s \in Rows /\ s \in Users /\ Home[s] \in Companies
      BY <1>1, <1>2, <1>8, MirrorsApart, ConstantsAssumption DEF ProvisionCommit, TxnOK, ConstantsAssumption
    <2> DEFINE new == [state |-> "live", personal |-> TRUE, active |-> TRUE, branches |-> {Home[s]}]
    <2>2. new \in AccountType
      BY <2>1 DEF AccountType
    <2>3. \/ user' = user /\ staff' = staff
          \/ user' = [user EXCEPT ![s] = new] /\ staff' = [staff EXCEPT ![s].user = s]
      BY <1>8 DEF ProvisionCommit
    <2> HIDE DEF s, new
    <2>4. QED
      BY <1>1, <2>1, <2>2, <2>3 DEF RowType
  <1>9. QED
    BY <1>3, <1>4, <1>5, <1>6, <1>7, <1>8

\* The actions that are no step of a request.
LEMMA OtherTypes ==
  ASSUME TypeInv
  PROVE  /\ \A u \in Made, bs \in SUBSET Companies : CreateUser(u, bs) =>
              /\ user' \in [Users -> AccountType] /\ staff' \in [Rows -> RowType]
              /\ \A r \in Crm : staff'[r] = staff[r]
              /\ \A v \in Users : user[v].state = "live" => user'[v].state = "live"
         /\ \A b \in Companies : SyncStaff(b) =>
              /\ staff' \in [Rows -> RowType]
              /\ \A r \in Crm : /\ staff'[r].there = staff[r].there
                                /\ staff'[r].company = staff[r].company
                                /\ staff'[r].user = staff[r].user
  <1>1. user \in [Users -> AccountType] /\ staff \in [Rows -> RowType] /\ Crm \subseteq Rows
    BY DEF TypeInv, Rows
  <1>2. ASSUME NEW u \in Made, NEW bs \in SUBSET Companies, CreateUser(u, bs)
        PROVE  /\ user' \in [Users -> AccountType] /\ staff' \in [Rows -> RowType]
               /\ \A r \in Crm : staff'[r] = staff[r]
               /\ \A v \in Users : user[v].state = "live" => user'[v].state = "live"
    <2> DEFINE new == [state |-> "live", personal |-> FALSE, active |-> TRUE, branches |-> bs]
    <2>1. new \in AccountType /\ new.state = "live" /\ u \in Users
      BY DEF AccountType, Users
    <2>2. user' = [user EXCEPT ![u] = new]
      BY <1>2 DEF CreateUser
    <2> HIDE DEF new
    <2>3. /\ user' \in [Users -> AccountType] /\ user'[u] \in AccountType
          /\ \A v \in Users : user[v].state = "live" => user'[v].state = "live"
      BY <1>1, <2>1, <2>2
    <2>4. PICK f \in Fresh(staff, Repairs(staff, u, user'[u])) :
                 staff' = Written(staff, Repairs(staff, u, user'[u]), f)
      BY <1>2 DEF CreateUser
    <2>5. Repairs(staff, u, user'[u]) \in WritesType
      BY <1>1, <2>1, <2>3, RepairsType
    <2>6. QED
      BY <1>1, <2>3, <2>4, <2>5, WrittenType
  <1>3. ASSUME NEW b \in Companies, SyncStaff(b)
        PROVE  /\ staff' \in [Rows -> RowType]
               /\ \A r \in Crm : /\ staff'[r].there = staff[r].there
                                 /\ staff'[r].company = staff[r].company
                                 /\ staff'[r].user = staff[r].user
    <2> DEFINE rows == {r \in Crm : staff[r].there /\ staff[r].company = b}
    <2>1. staff' = [r \in Rows |-> IF r \in rows THEN [staff[r] EXCEPT !.fired = (r \notin hired)] ELSE staff[r]]
      BY <1>3 DEF SyncStaff
    <2> HIDE DEF rows
    <2>2. ASSUME NEW r \in Rows
          PROVE  /\ staff'[r] \in RowType
                 /\ staff'[r].there = staff[r].there
                 /\ staff'[r].company = staff[r].company
                 /\ staff'[r].user = staff[r].user
      <3>1. staff[r] \in RowType /\ (r \notin hired) \in BOOLEAN
        BY <1>1
      <3>2. staff'[r] = [staff[r] EXCEPT !.fired = (r \notin hired)] \/ staff'[r] = staff[r]
        BY <2>1
      <3>3. QED
        BY <3>1, <3>2 DEF RowType
    <2>3. QED
      BY <1>1, <2>1, <2>2
  <1>4. QED
    BY <1>2, <1>3

LEMMA NextTypeInv == TypeInv /\ [Next]_vars => TypeInv'
  <1> SUFFICES ASSUME TypeInv, [Next]_vars PROVE TypeInv'
    OBVIOUS
  <1>1. CASE UNCHANGED <<user, staff, deleted, txn>>
    BY <1>1 DEF TypeInv
  <1>2. ASSUME NEW p \in Procs, Request(p) PROVE TypeInv'
    BY <1>2, Requests DEF Begun, TypeInv
  <1>3. ASSUME NEW p \in Procs, LinkClaim(p) PROVE TypeInv'
    BY <1>3, ClaimStep, TypeOfEnd DEF Claims, TypeInv
  <1>4. ASSUME NEW p \in Procs, UpdateCommit(p) PROVE TypeInv'
    BY <1>4, CommitTypes, TypeOfEnd DEF UpdateCommit, TypeInv
  <1>5. ASSUME NEW p \in Procs, DeleteCommit(p) PROVE TypeInv'
    <2>1. txn[p].user \in Users
      BY <1>5 DEF DeleteCommit, TypeInv, TxnOK
    <2>2. QED
      BY <1>5, <2>1, CommitTypes, TypeOfEnd DEF DeleteCommit, TypeInv
  <1>6. ASSUME NEW p \in Procs, RepairCommit(p) PROVE TypeInv'
    BY <1>6, CommitTypes, TypeOfEnd DEF RepairCommit, TypeInv
  <1>7. ASSUME NEW p \in Procs, LinkCommit(p) PROVE TypeInv'
    BY <1>7, CommitTypes, TypeOfEnd DEF LinkCommit, TypeInv
  <1>8. ASSUME NEW p \in Procs, UnlinkCommit(p) PROVE TypeInv'
    BY <1>8, CommitTypes, TypeOfEnd DEF UnlinkCommit, TypeInv
  <1>9. ASSUME NEW p \in Procs, ProvisionCommit(p) PROVE TypeInv'
    BY <1>9, CommitTypes, TypeOfEnd DEF ProvisionCommit, TypeInv
  <1>10. ASSUME NEW u \in Made, NEW bs \in SUBSET Companies, CreateUser(u, bs) PROVE TypeInv'
    BY <1>10, OtherTypes DEF CreateUser, TypeInv
  <1>11. ASSUME NEW b \in Companies, SyncStaff(b) PROVE TypeInv'
    BY <1>11, OtherTypes DEF SyncStaff, TypeInv
  <1>12. CASE (\E r \in Rows : EnterFact(r)) \/ (\E s \in Crm : HireOrFire(s)) \/ UNCHANGED vars
    BY <1>1, <1>12 DEF EnterFact, HireOrFire, vars
  <1>13. QED
    BY <1>2, <1>3, <1>4, <1>5, <1>6, <1>7, <1>8, <1>9, <1>10, <1>11, <1>12 DEF Next, Proceed

-----------------------------------------------------------------------------
(* Links.                                                                  *)

LEMMA InitIInv == Init => IInv
  <1> SUFFICES ASSUME Init PROVE IInv
    OBVIOUS
  <1>1. \A r \in Crm : staff[r] = [there |-> TRUE, company |-> Home[r], user |-> NULL, fired |-> FALSE]
    BY DEF Init, Rows
  <1>2. \A r \in Crm : staff[r].there /\ staff[r].company = Home[r] /\ staff[r].user = NULL
    <2> TAKE r \in Crm
    <2>1. staff[r] = [there |-> TRUE, company |-> Home[r], user |-> NULL, fired |-> FALSE]
      BY <1>1
    <2>2. QED
      BY <2>1
  <1>3. \A p \in Procs : txn[p].kind = "none"
    BY NoTxnOK DEF Init
  <1>4. \A u \in Users : \A r \in Crm : staff[r].user # u
    BY <1>2, MirrorsApart
  <1>5. RowsAtHome /\ NeverLinked /\ OneLink
    BY <1>2, <1>4 DEF RowsAtHome, NeverLinked, OneLink
  <1>6. \A p \in Procs : txn[p].kind \notin {"link", "claimed", "stray", "update"}
    BY <1>3
  <1>7. Accounted /\ OneHolder /\ ClaimStands
    BY <1>6 DEF Accounted, OneHolder, ClaimStands, Holder
  <1>8. QED
    BY <1>5, <1>7 DEF IInv

\* Steps that link nobody, and take no account away: rows may be released, and
\* requests end.
Quiet ==
  /\ deleted' = deleted
  /\ \A r \in Crm : /\ staff'[r].there = staff[r].there /\ staff'[r].company = staff[r].company
                    /\ staff'[r].user \in {staff[r].user, NULL}
  /\ \A u \in Users : user[u].state = "live" => user'[u].state = "live"
  /\ \A q \in Procs : txn'[q] = txn[q] \/ txn'[q] = NoTxn

LEMMA QuietKeeps ==
  ASSUME TypeInv, IInv, Quiet
  PROVE  IInv'
  <1>1. \A q \in Procs : txn'[q].kind # "none" => txn'[q] = txn[q]
    BY NoTxnOK DEF Quiet
  <1>2. \A q \in Procs : TxnOK(txn[q])
    BY DEF TypeInv
  <1>3. NULL \notin Users
    BY MirrorsApart
  <1>4. RowsAtHome' /\ NeverLinked'
    BY <1>3 DEF Quiet, IInv, RowsAtHome, NeverLinked
  <1>5. Accounted'
    BY <1>1, <1>2 DEF Quiet, IInv, Accounted, Holder, TxnOK
  <1>6. OneHolder'
    BY <1>1 DEF IInv, OneHolder, Holder
  <1>7. ClaimStands'
    BY <1>1, <1>2, <1>3 DEF Quiet, IInv, ClaimStands, TxnOK
  <1>8. OneLink'
    BY <1>3 DEF Quiet, IInv, OneLink
  <1>9. QED
    BY <1>4, <1>5, <1>6, <1>7, <1>8 DEF IInv

LEMMA RequestKeeps ==
  ASSUME TypeInv, IInv, NEW p \in Procs, Request(p)
  PROVE  IInv'
  <1>1. Begun(p)
    BY Requests
  <1>2. UNCHANGED <<user, staff, deleted>> /\ \A q \in Procs \ {p} : txn'[q] = txn[q]
    BY <1>1 DEF Begun
  <1>3. RowsAtHome' /\ NeverLinked' /\ OneLink'
    BY <1>2 DEF IInv, RowsAtHome, NeverLinked, OneLink
  <1>4. Accounted'
    BY <1>1, <1>2 DEF IInv, Accounted, Holder, Begun
  <1>5. OneHolder'
    BY <1>1, <1>2 DEF IInv, OneHolder, Holder, Begun, AccountFree
  <1>6. ClaimStands'
    BY <1>1, <1>2 DEF IInv, ClaimStands, Begun
  <1>7. QED
    BY <1>3, <1>4, <1>5, <1>6 DEF IInv

LEMMA ClaimKeeps ==
  ASSUME TypeInv, IInv, NEW p \in Procs, LinkClaim(p)
  PROVE  IInv'
  <1>1. CASE Finish(p) /\ UNCHANGED <<user, staff, deleted>>
    <2>1. Quiet
      BY <1>1, FinishStep DEF Quiet
    <2>2. QED
      BY <2>1, QuietKeeps
  <1>2. CASE Claims(p)
    <2>1. UNCHANGED <<user, staff, deleted>> /\ \A q \in Procs \ {p} : txn'[q] = txn[q]
      BY <1>2 DEF Claims
    <2>2. RowsAtHome' /\ NeverLinked' /\ OneLink'
      BY <2>1 DEF IInv, RowsAtHome, NeverLinked, OneLink
    <2>3. Accounted'
      BY <1>2, <2>1 DEF IInv, Accounted, Holder, Claims
    <2>4. OneHolder'
      BY <1>2, <2>1 DEF IInv, OneHolder, Holder, Claims, AccountFree
    <2>5. ClaimStands'
      <3>1. TxnOK(txn[p]) /\ txn[p].kind = "link"
        BY <1>2 DEF TypeInv, Claims
      <3>2. txn[p].row \in Crm
        BY <3>1 DEF TxnOK
      <3>3. \A r \in Linked(staff, txn[p].user) \cap Crm : staff[r].company # staff[txn[p].row].company
        BY <1>2 DEF Claims, Linkable
      <3>4. \A r \in Crm : staff[r].user = txn[p].user => Home[r] # Home[txn[p].row]
        BY <3>2, <3>3 DEF Linked, IInv, RowsAtHome, Rows
      <3>5. QED
        BY <1>2, <2>1, <3>4 DEF IInv, ClaimStands, Claims
    <2>6. QED
      BY <2>2, <2>3, <2>4, <2>5 DEF IInv
  <1>3. QED
    BY <1>1, <1>2, ClaimStep

LEMMA DeleteKeeps ==
  ASSUME TypeInv, IInv, NEW p \in Procs, DeleteCommit(p)
  PROVE  IInv'
  <1> DEFINE u == txn[p].user
  <1>1. /\ u \in Users /\ AccountFree(u) /\ deleted' = deleted \cup {u}
        /\ \A v \in Users \ {u} : user'[v] = user[v]
    BY DEF DeleteCommit, TypeInv, TxnOK
  <1>2. \A r \in Crm : /\ staff'[r].there = staff[r].there /\ staff'[r].company = staff[r].company
                       /\ staff'[r].user \in {staff[r].user, NULL}
    BY CommitTypes
  <1>3. txn'[p] = NoTxn /\ \A q \in Procs \ {p} : txn'[q] = txn[q]
    BY FinishStep DEF DeleteCommit
  <1>4. /\ \A q \in Procs : txn'[q].kind # "none" => txn'[q] = txn[q]
        /\ \A q \in Procs : TxnOK(txn[q])
        /\ NULL \notin Users
    BY <1>3, NoTxnOK, MirrorsApart DEF TypeInv
  <1> HIDE DEF u
  <1>5. RowsAtHome' /\ NeverLinked' /\ OneLink'
    BY <1>1, <1>2, <1>4 DEF IInv, RowsAtHome, NeverLinked, OneLink
  <1>6. Accounted'
    <2>1. \A q \in Procs : Holder(q) => txn[q].user # u
      BY <1>1 DEF AccountFree
    <2>2. QED
      BY <1>1, <1>4, <2>1 DEF IInv, Accounted, Holder, TxnOK
  <1>7. OneHolder'
    BY <1>4 DEF IInv, OneHolder, Holder
  <1>8. ClaimStands'
    BY <1>1, <1>2, <1>4 DEF IInv, ClaimStands, TxnOK
  <1>9. QED
    BY <1>5, <1>6, <1>7, <1>8 DEF IInv

\* The row that was claimed is linked: nobody else has linked the account.
LEMMA LinkKeeps ==
  ASSUME TypeInv, IInv, NEW p \in Procs, LinkCommit(p)
  PROVE  IInv'
  <1> DEFINE u == txn[p].user
             s == txn[p].row
  <1>1. TxnOK(txn[p]) /\ txn[p].kind \in {"claimed", "stray"} /\ user' = user /\ deleted' = deleted
    BY DEF LinkCommit, TypeInv
  <1>2. u \in Users /\ s \in Crm
    BY <1>1 DEF TxnOK
  <1>3. /\ \A r \in Crm : staff'[r].there = staff[r].there /\ staff'[r].company = staff[r].company
        /\ \A r \in Crm \ {s} : staff'[r].user \in {staff[r].user, NULL}
        /\ staff'[s].user = u
    BY CommitTypes
  <1>4. txn'[p] = NoTxn /\ \A q \in Procs \ {p} : txn'[q] = txn[q]
    BY FinishStep DEF LinkCommit
  <1>5. /\ \A q \in Procs : txn'[q].kind # "none" => txn'[q] = txn[q] /\ q # p
        /\ \A q \in Procs : TxnOK(txn[q])
        /\ NULL \notin Users
    BY <1>4, NoTxnOK, MirrorsApart DEF TypeInv
  <1>6. u \notin deleted =>
          /\ txn[p].kind = "claimed" /\ user[u].state = "live"
          /\ \A r \in Crm : staff[r].user = u => Home[r] # Home[s]
    BY <1>1 DEF IInv, Accounted, ClaimStands
  <1>7. RowsAtHome'
    BY <1>3 DEF IInv, RowsAtHome
  <1>8. Accounted' /\ OneHolder'
    BY <1>1, <1>5 DEF IInv, Accounted, OneHolder, Holder
  <1>9. ClaimStands'
    <2>1. ASSUME NEW q \in Procs, txn'[q].kind = "claimed", txn'[q].user \notin deleted,
                 NEW r \in Crm, staff'[r].user = txn'[q].user
          PROVE  Home[r] # Home[txn'[q].row]
      <3>1. txn'[q] = txn[q] /\ q # p /\ txn[q].user \in Users
        BY <1>5, <2>1 DEF TxnOK
      <3>2. CASE r = s
        <4>1. txn[q].user = u /\ u \notin deleted /\ txn[p].kind = "claimed"
          BY <1>3, <1>6, <2>1, <3>1, <3>2
        <4>2. p = q
          BY <2>1, <3>1, <4>1 DEF IInv, OneHolder, Holder
        <4>3. QED
          BY <3>1, <4>2
      <3>3. CASE r # s
        <4>1. staff[r].user = txn[q].user
          BY <1>3, <1>5, <2>1, <3>1, <3>3
        <4>2. QED
          BY <2>1, <3>1, <4>1 DEF IInv, ClaimStands
      <3>4. QED
        BY <3>2, <3>3
    <2>2. QED
      BY <1>1, <2>1 DEF ClaimStands
  <1> HIDE DEF u, s
  <1>10. NeverLinked'
    BY <1>1, <1>2, <1>3, <1>5, <1>6 DEF IInv, NeverLinked
  <1>11. OneLink'
    BY <1>1, <1>2, <1>3, <1>5, <1>6 DEF IInv, OneLink
  <1>12. QED
    BY <1>7, <1>8, <1>9, <1>10, <1>11 DEF IInv

LEMMA ProvisionKeeps ==
  ASSUME TypeInv, IInv, NEW p \in Procs, ProvisionCommit(p)
  PROVE  IInv'
  <1> DEFINE s == txn[p].row
  <1>1. TxnOK(txn[p]) /\ txn[p].kind = "provision" /\ deleted' = deleted
    BY DEF ProvisionCommit, TypeInv
  <1>2. s \in Crm /\ s \in Rows /\ s \in Users
    BY <1>1, MirrorsApart DEF TxnOK, Rows
  <1>3. txn'[p] = NoTxn /\ \A q \in Procs \ {p} : txn'[q] = txn[q]
    BY FinishStep DEF ProvisionCommit
  <1>4. CASE user[s].state = "live"
    <2>1. user' = user /\ staff' = staff
      BY <1>4 DEF ProvisionCommit
    <2>2. Quiet
      BY <1>1, <1>3, <2>1 DEF Quiet
    <2>3. QED
      BY <2>2, QuietKeeps
  <1>5. CASE user[s].state # "live"
    <2>1. /\ user'[s].state = "live" /\ \A v \in Users \ {s} : user'[v] = user[v]
          /\ staff' = [staff EXCEPT ![s].user = s]
      BY <1>2, <1>5 DEF ProvisionCommit, TypeInv
    <2>2. /\ \A r \in Crm : staff'[r].there = staff[r].there /\ staff'[r].company = staff[r].company
          /\ \A r \in Crm \ {s} : staff'[r].user = staff[r].user
          /\ staff'[s].user = s
      BY <1>2, <2>1 DEF TypeInv, RowType, Rows
    <2>3. s \notin deleted => \A r \in Crm : staff[r].user # s
      BY <1>2, <1>5 DEF IInv, NeverLinked
    <2>4. /\ \A q \in Procs : txn'[q].kind # "none" => txn'[q] = txn[q]
          /\ \A q \in Procs : TxnOK(txn[q])
      BY <1>3, NoTxnOK DEF TypeInv
    <2> HIDE DEF s
    <2>5. RowsAtHome'
      BY <2>2 DEF IInv, RowsAtHome
    <2>6. NeverLinked'
      BY <1>1, <1>2, <2>1, <2>2 DEF IInv, NeverLinked
    <2>7. Accounted'
      BY <1>1, <2>1, <2>4 DEF IInv, Accounted, Holder, TxnOK
    <2>8. OneHolder'
      BY <2>4 DEF IInv, OneHolder, Holder
    <2>9. ClaimStands'
      <3>1. \A q \in Procs : txn[q].kind = "claimed" => txn[q].user # s
        BY <1>5 DEF IInv, Accounted, Holder
      <3>2. QED
        BY <1>1, <2>2, <2>4, <3>1 DEF IInv, ClaimStands
    <2>10. OneLink'
      BY <1>1, <2>2, <2>3 DEF IInv, OneLink
    <2>11. QED
      BY <2>5, <2>6, <2>7, <2>8, <2>9, <2>10 DEF IInv
  <1>6. QED
    BY <1>4, <1>5

LEMMA QuietSteps ==
  ASSUME TypeInv, IInv
  PROVE  /\ \A p \in Procs : UpdateCommit(p) \/ RepairCommit(p) \/ UnlinkCommit(p) => IInv'
         /\ \A u \in Made, bs \in SUBSET Companies : CreateUser(u, bs) => IInv'
         /\ \A b \in Companies : SyncStaff(b) => IInv'
         /\ UNCHANGED <<user, staff, deleted, txn>> => IInv'
  <1>1. ASSUME NEW p \in Procs, UpdateCommit(p) \/ RepairCommit(p) \/ UnlinkCommit(p) PROVE IInv'
    <2>1. deleted' = deleted /\ \A q \in Procs : txn'[q] = txn[q] \/ txn'[q] = NoTxn
      BY <1>1, FinishStep DEF UpdateCommit, RepairCommit, UnlinkCommit
    <2>2. \A r \in Crm : /\ staff'[r].there = staff[r].there /\ staff'[r].company = staff[r].company
                         /\ staff'[r].user \in {staff[r].user, NULL}
      BY <1>1, CommitTypes
    <2>3. \A u \in Users : user[u].state = "live" => user'[u].state = "live"
      <3>1. TxnOK(txn[p])
        BY DEF TypeInv
      <3>2. CASE UpdateCommit(p)
        BY <3>1, <3>2 DEF UpdateCommit, TxnOK, TypeInv
      <3>3. CASE RepairCommit(p) \/ UnlinkCommit(p)
        BY <3>3 DEF RepairCommit, UnlinkCommit
      <3>4. QED
        BY <1>1, <3>2, <3>3
    <2>4. Quiet
      BY <2>1, <2>2, <2>3 DEF Quiet
    <2>5. QED
      BY <2>4, QuietKeeps
  <1>2. ASSUME NEW u \in Made, NEW bs \in SUBSET Companies, CreateUser(u, bs) PROVE IInv'
    <2>1. Quiet
      BY <1>2, OtherTypes DEF Quiet, CreateUser
    <2>2. QED
      BY <2>1, QuietKeeps
  <1>3. ASSUME NEW b \in Companies, SyncStaff(b) PROVE IInv'
    <2>1. Quiet
      BY <1>3, OtherTypes DEF Quiet, SyncStaff
    <2>2. QED
      BY <2>1, QuietKeeps
  <1>4. ASSUME UNCHANGED <<user, staff, deleted, txn>> PROVE IInv'
    BY <1>4, QuietKeeps DEF Quiet
  <1>5. QED
    BY <1>1, <1>2, <1>3, <1>4

LEMMA NextIInv == TypeInv /\ IInv /\ [Next]_vars => IInv'
  <1> SUFFICES ASSUME TypeInv, IInv, [Next]_vars PROVE IInv'
    OBVIOUS
  <1>1. ASSUME NEW p \in Procs, Request(p) \/ Proceed(p) PROVE IInv'
    BY <1>1, RequestKeeps, ClaimKeeps, DeleteKeeps, LinkKeeps, ProvisionKeeps, QuietSteps DEF Proceed
  <1>2. CASE (\E r \in Rows : EnterFact(r)) \/ (\E s \in Crm : HireOrFire(s)) \/ UNCHANGED vars
    BY <1>2, QuietSteps DEF EnterFact, HireOrFire, vars
  <1>3. QED
    BY <1>1, <1>2, QuietSteps DEF Next

-----------------------------------------------------------------------------
(* What a repair leaves.                                                   *)

\* Of any mirrors there is a youngest.
LEMMA Youngest ==
  ASSUME NEW S \in SUBSET Mirrors, S # {}
  PROVE  \E m \in S : \A k \in S : k = m \/ m > k
  <1> DEFINE T == {MaxMirrors - k : k \in S}
  <1>1. MaxMirrors \in Nat /\ S \subseteq Nat /\ \A k \in S : MaxMirrors - k \in Nat
    BY ConstantsAssumption DEF ConstantsAssumption, Mirrors
  <1>2. T \in SUBSET Nat /\ T # {}
    BY <1>1
  <1>3. PICK t \in T : \A u \in T : t <= u
    BY <1>2, LeastIn
  <1>4. PICK m \in S : t = MaxMirrors - m
    OBVIOUS
  <1>5. \A k \in S : MaxMirrors - m <= MaxMirrors - k
    BY <1>3, <1>4
  <1>6. \A k \in S : k = m \/ m > k
    BY <1>1, <1>5
  <1>7. QED
    BY <1>6

\* Whom a repair is about, what it writes, and of the rows of one of them: the
\* branches without a row, the mirrors that stand, and the others.
Working == {v \in Users : Syncs(user[v])}
Repair == Together({Repairs(staff, v, user[v]) : v \in Working})
Missing(u) == user[u].branches \ {staff[r].company : r \in Linked(staff, u)}
Kept(u) == {r \in Linked(staff, u) \ Crm : staff[r].company \in user[u].branches /\ Stands(staff, u, r)}
Spare(u) == (Linked(staff, u) \ Crm) \ Kept(u)
Live(t, u) == {r \in Linked(t, u) \ Crm : ~t[r].fired}

\* The writes of one account, with and without branches.
LEMMA RepairsAre ==
  ASSUME NEW u \in Working
  PROVE  LET w == Repairs(staff, u, user[u])
         IN  /\ w.add = {u} \X Missing(u)
             /\ w.wake = {r \in Kept(u) : staff[r].fired}
             /\ w.fire = IF user[u].branches = {} THEN {} ELSE {r \in Spare(u) : ~staff[r].fired}
             /\ w.sweep = IF user[u].branches = {} /\ Live(staff, u) # {} THEN {u} ELSE {}
  <1>1. Syncs(user[u])
    BY DEF Working
  <1>2. CASE user[u].branches = {}
    <2>1. Missing(u) = {} /\ Kept(u) = {}
      BY <1>2 DEF Missing, Kept
    <2>2. (\E r \in Linked(staff, u) \ Crm : ~staff[r].fired) <=> Live(staff, u) # {}
      BY DEF Live
    <2>3. Repairs(staff, u, user[u])
            = [NoWrites EXCEPT !.sweep = IF Live(staff, u) # {} THEN {u} ELSE {}]
      BY <1>2, <2>2 DEF Repairs
    <2>4. QED
      BY <1>2, <2>1, <2>3 DEF NoWrites
  <1>3. CASE user[u].branches # {}
    <2>1. Repairs(staff, u, user[u])
            = [add |-> {u} \X Missing(u), wake |-> {r \in Kept(u) : staff[r].fired},
               fire |-> {r \in Spare(u) : ~staff[r].fired}, sweep |-> {}]
      BY <1>1, <1>3 DEF Repairs, Missing, Kept, Spare
    <2>2. QED
      BY <1>3, <2>1
  <1>4. QED
    BY <1>2, <1>3

\* What is written of an account's rows is what its own repair writes.
LEMMA RepairShares ==
  ASSUME NEW u \in Working
  PROVE  /\ \A a \in Repair.add : a[1] = u => \E b \in Missing(u) : a = <<u, b>>
         /\ \A b \in Missing(u) : <<u, b>> \in Repair.add
         /\ \A r \in Linked(staff, u) :
              /\ r \in Repair.wake <=> r \in Kept(u) /\ staff[r].fired
              /\ r \in Repair.fire <=> user[u].branches # {} /\ r \in Spare(u) /\ ~staff[r].fired
         /\ u \in Repair.sweep <=> user[u].branches = {} /\ Live(staff, u) # {}
  <1> DEFINE W(v) == Repairs(staff, v, user[v])
             ws == {W(v) : v \in Working}
  <1>0. /\ Repair.add = UNION {w.add : w \in ws} /\ Repair.wake = UNION {w.wake : w \in ws}
        /\ Repair.fire = UNION {w.fire : w \in ws} /\ Repair.sweep = UNION {w.sweep : w \in ws}
    BY DEF Repair, Together
  <1>1. /\ \A a : a \in Repair.add <=> \E v \in Working : a \in W(v).add
        /\ \A r : r \in Repair.wake <=> \E v \in Working : r \in W(v).wake
        /\ \A r : r \in Repair.fire <=> \E v \in Working : r \in W(v).fire
        /\ \A v : v \in Repair.sweep <=> \E x \in Working : v \in W(x).sweep
    <2> HIDE DEF W
    <2>1. QED
      BY <1>0
  <1>2. \A v \in Working :
          /\ W(v).add = {v} \X Missing(v)
          /\ W(v).wake = {r \in Kept(v) : staff[r].fired}
          /\ W(v).fire = IF user[v].branches = {} THEN {} ELSE {r \in Spare(v) : ~staff[r].fired}
          /\ W(v).sweep = IF user[v].branches = {} /\ Live(staff, v) # {} THEN {v} ELSE {}
    BY RepairsAre
  <1> HIDE DEF W, ws
  <1>3. \A v \in Working : \A r \in Linked(staff, u) : r \in Kept(v) \/ r \in Spare(v) => v = u
    BY DEF Kept, Spare, Linked
  <1>4. /\ \A a \in Repair.add : a[1] = u => \E b \in Missing(u) : a = <<u, b>>
        /\ \A b \in Missing(u) : <<u, b>> \in Repair.add
    <2>1. ASSUME NEW a \in Repair.add, a[1] = u PROVE \E b \in Missing(u) : a = <<u, b>>
      <3>0. PICK v \in Working : a \in W(v).add
        BY <1>1
      <3>1. a \in {v} \X Missing(v)
        BY <1>2, <3>0
      <3>2. PICK b \in Missing(v) : a = <<v, b>>
        BY <3>1
      <3>3. QED
        BY <2>1, <3>2
    <2>2. \A b \in Missing(u) : <<u, b>> \in W(u).add
      BY <1>2
    <2>3. QED
      BY <1>1, <2>1, <2>2
  <1>5. ASSUME NEW r \in Linked(staff, u)
        PROVE  r \in Repair.wake <=> r \in Kept(u) /\ staff[r].fired
    <2>1. ASSUME NEW v \in Working, r \in W(v).wake PROVE v = u
      BY <1>2, <1>3, <2>1
    <2>2. r \in Repair.wake <=> r \in W(u).wake
      BY <1>1, <2>1
    <2>3. W(u).wake = {x \in Kept(u) : staff[x].fired}
      BY <1>2
    <2>4. QED
      BY <2>2, <2>3
  <1>6. ASSUME NEW r \in Linked(staff, u)
        PROVE  r \in Repair.fire <=> user[u].branches # {} /\ r \in Spare(u) /\ ~staff[r].fired
    <2>1. ASSUME NEW v \in Working, r \in W(v).fire PROVE v = u
      <3>1. W(v).fire = {} \/ W(v).fire = {x \in Spare(v) : ~staff[x].fired}
        BY <1>2
      <3>2. QED
        BY <1>3, <2>1, <3>1
    <2>2. r \in Repair.fire <=> r \in W(u).fire
      BY <1>1, <2>1
    <2>3. W(u).fire = IF user[u].branches = {} THEN {} ELSE {x \in Spare(u) : ~staff[x].fired}
      BY <1>2
    <2>4. QED
      BY <2>2, <2>3
  <1>7. u \in Repair.sweep <=> user[u].branches = {} /\ Live(staff, u) # {}
    <2>1. \A v \in Working : W(v).sweep = IF user[v].branches = {} /\ Live(staff, v) # {} THEN {v} ELSE {}
      BY <1>2
    <2>2. u \in Repair.sweep <=> \E v \in Working : u \in W(v).sweep
      BY <1>1
    <2>3. QED
      BY <2>1, <2>2
  <1>8. QED
    BY <1>4, <1>5, <1>6, <1>7

\* The repair writes to mirrors of accounts.
LEMMA RepairType ==
  ASSUME TypeInv
  PROVE  /\ Repair \in WritesType /\ staff \in [Rows -> RowType]
         /\ Working \subseteq Users /\ \A u \in Working : user[u] \in AccountType
  <1>1. Working \subseteq Users /\ \A u \in Users : user[u] \in AccountType
    BY DEF Working, TypeInv
  <1>2. staff \in [Rows -> RowType]
    BY DEF TypeInv
  <1>3. {Repairs(staff, v, user[v]) : v \in Working} \in SUBSET WritesType
    BY <1>1, <1>2, RepairsType
  <1>4. QED
    BY <1>1, <1>2, <1>3, TogetherType DEF Repair

\* The table after a repair: one new mirror in each branch without a row, and of
\* the mirrors there were, those that stand are live.
After(t, f, u) ==
  /\ \A b \in Missing(u) :
       LET r == f[<<u, b>>]
       IN  r \in Linked(t, u) /\ r \notin Crm /\ t[r].company = b /\ ~t[r].fired
  /\ \A r \in Linked(staff, u) :
       /\ r \in Linked(t, u) /\ t[r].company = staff[r].company
       /\ r \notin Crm => (t[r].fired <=> r \notin Kept(u))
  /\ \A r \in Linked(t, u) : r \in Linked(staff, u) \/ \E b \in Missing(u) : r = f[<<u, b>>]

\* The rows of one account after the repair of all.
LEMMA TableAfter ==
  ASSUME TypeInv, NEW u \in Working, NEW f \in Fresh(staff, Repair)
  PROVE  After(Written(staff, Repair, f), f, u)
  <1> DEFINE t == Written(staff, Repair, f)
  <1>1. /\ Repair \in WritesType /\ staff \in [Rows -> RowType] /\ u \in Users
        /\ user[u] \in AccountType
    BY RepairType
  <1>2. /\ f \in [Repair.add -> {r \in Mirrors : ~staff[r].there}]
        /\ \A a, b \in Repair.add : a # b => f[a] # f[b]
    BY DEF Fresh
  <1>3. Mirrors \subseteq Rows /\ Mirrors \cap Crm = {} /\ Rows = Crm \cup Mirrors
    BY MirrorsApart DEF Rows
  <1>4. ASSUME NEW a \in Repair.add
        PROVE  /\ f[a] \in Mirrors /\ ~staff[f[a]].there
               /\ t[f[a]] = [there |-> TRUE, company |-> a[2], user |-> a[1], fired |-> FALSE]
    <2>1. f[a] \in Mirrors /\ ~staff[f[a]].there /\ f[a] \in Rows
      BY <1>2, <1>3
    <2> DEFINE c == CHOOSE c \in Repair.add : f[c] = f[a]
    <2>2. c \in Repair.add /\ f[c] = f[a]
      OBVIOUS
    <2>3. c = a
      BY <1>2, <2>2
    <2>4. t[f[a]] = [there |-> TRUE, company |-> c[2], user |-> c[1], fired |-> FALSE]
      BY <2>1 DEF Written
    <2> HIDE DEF c, t
    <2>5. QED
      BY <2>1, <2>3, <2>4
  <1>5. ASSUME NEW r \in Rows, ~\E a \in Repair.add : f[a] = r
        PROVE  LET out == r \in Repair.fire \/ (r \in Mirrors /\ staff[r].there /\ staff[r].user \in Repair.sweep)
               IN  /\ r \in Repair.wake => t[r] = [staff[r] EXCEPT !.fired = FALSE]
                   /\ r \notin Repair.wake /\ out => t[r] = [staff[r] EXCEPT !.fired = TRUE]
                   /\ r \notin Repair.wake /\ ~out => t[r] = staff[r]
    BY <1>5 DEF Written
  <1> HIDE DEF t
  <1>6. ASSUME NEW b \in Missing(u)
        PROVE  LET r == f[<<u, b>>]
               IN  r \in Linked(t, u) /\ r \notin Crm /\ t[r].company = b /\ ~t[r].fired
    <2> DEFINE r == f[<<u, b>>]
    <2>1. <<u, b>> \in Repair.add
      BY RepairShares
    <2>2. r \in Mirrors /\ t[r] = [there |-> TRUE, company |-> b, user |-> u, fired |-> FALSE]
      BY <1>4, <2>1
    <2> HIDE DEF r
    <2>3. t[r].there /\ t[r].user = u /\ t[r].company = b /\ ~t[r].fired
      BY <2>2
    <2>4. QED
      BY <1>3, <2>2, <2>3 DEF Linked, r
  <1>7. ASSUME NEW r \in Linked(staff, u)
        PROVE  /\ r \in Linked(t, u) /\ t[r].company = staff[r].company
               /\ r \notin Crm => (t[r].fired <=> r \notin Kept(u))
    <2>1. r \in Rows /\ staff[r].there /\ staff[r].user = u
      BY DEF Linked
    <2>2. ~\E a \in Repair.add : f[a] = r
      BY <1>4, <2>1
    <2>3. staff[r] \in RowType
      BY <1>1, <2>1
    <2>4. t[r] \in {staff[r], [staff[r] EXCEPT !.fired = TRUE], [staff[r] EXCEPT !.fired = FALSE]}
      BY <1>5, <2>1, <2>2
    <2>5. t[r].there /\ t[r].user = u /\ t[r].company = staff[r].company
      BY <2>1, <2>3, <2>4 DEF RowType
    <2>6. ASSUME r \notin Crm PROVE t[r].fired <=> r \notin Kept(u)
      <3>1. r \in Mirrors /\ (r \in Kept(u) \/ r \in Spare(u))
        BY <1>3, <2>1, <2>6 DEF Spare
      <3>2. /\ r \in Repair.wake <=> r \in Kept(u) /\ staff[r].fired
            /\ r \in Repair.fire <=> user[u].branches # {} /\ r \in Spare(u) /\ ~staff[r].fired
            /\ u \in Repair.sweep <=> user[u].branches = {} /\ Live(staff, u) # {}
        BY RepairShares
      <3>3. /\ [staff[r] EXCEPT !.fired = TRUE].fired
            /\ ~[staff[r] EXCEPT !.fired = FALSE].fired
        BY <2>3 DEF RowType
      <3>4. CASE r \in Kept(u)
        <4>1. user[u].branches # {} /\ r \notin Spare(u)
          BY <3>4 DEF Kept, Spare
        <4>2. r \notin Repair.fire /\ u \notin Repair.sweep
          BY <3>2, <4>1
        <4>3. CASE staff[r].fired
          BY <1>5, <2>1, <2>2, <3>2, <3>3, <3>4, <4>3
        <4>4. CASE ~staff[r].fired
          <5>1. t[r] = staff[r]
            BY <1>5, <2>1, <2>2, <3>2, <3>4, <4>2, <4>4
          <5>2. QED
            BY <3>4, <4>4, <5>1
        <4>5. QED
          BY <4>3, <4>4
      <3>5. CASE r \notin Kept(u)
        <4>1. r \in Spare(u) /\ r \notin Repair.wake
          BY <3>1, <3>2, <3>5
        <4>2. CASE staff[r].fired
          <5>1. t[r] = staff[r] \/ t[r] = [staff[r] EXCEPT !.fired = TRUE]
            BY <1>5, <2>1, <2>2, <4>1
          <5>2. QED
            BY <3>3, <3>5, <4>2, <5>1
        <4>3. CASE ~staff[r].fired
          <5>1. r \in Live(staff, u)
            BY <2>6, <4>3 DEF Live
          <5>2. r \in Repair.fire \/ u \in Repair.sweep
            BY <3>2, <4>1, <4>3, <5>1
          <5>3. t[r] = [staff[r] EXCEPT !.fired = TRUE]
            BY <1>5, <2>1, <2>2, <3>1, <4>1, <5>2
          <5>4. QED
            BY <3>3, <3>5, <5>3
        <4>4. QED
          BY <4>2, <4>3
      <3>6. QED
        BY <3>4, <3>5
    <2>7. QED
      BY <2>1, <2>5, <2>6 DEF Linked
  <1>8. ASSUME NEW r \in Linked(t, u)
        PROVE  r \in Linked(staff, u) \/ \E b \in Missing(u) : r = f[<<u, b>>]
    <2>1. r \in Rows /\ t[r].there /\ t[r].user = u
      BY DEF Linked
    <2>2. CASE \E a \in Repair.add : f[a] = r
      <3>1. PICK a \in Repair.add : f[a] = r
        BY <2>2
      <3>2. t[r] = [there |-> TRUE, company |-> a[2], user |-> a[1], fired |-> FALSE]
        BY <1>4, <3>1
      <3>3. a[1] = u
        BY <2>1, <3>2
      <3>4. \A c \in Repair.add : c[1] = u => \E b \in Missing(u) : c = <<u, b>>
        BY RepairShares
      <3>5. \E b \in Missing(u) : a = <<u, b>>
        BY <3>3, <3>4
      <3>6. QED
        BY <3>1, <3>5
    <2>3. CASE ~\E a \in Repair.add : f[a] = r
      <3>1. t[r] \in {staff[r], [staff[r] EXCEPT !.fired = TRUE], [staff[r] EXCEPT !.fired = FALSE]}
        BY <1>5, <2>1, <2>3
      <3>2. staff[r] \in RowType
        BY <1>1, <2>1
      <3>3. staff[r].there /\ staff[r].user = u
        BY <2>1, <3>1, <3>2 DEF RowType
      <3>4. QED
        BY <2>1, <3>3 DEF Linked
    <2>4. QED
      BY <2>2, <2>3
  <1>9. QED
    BY <1>6, <1>7, <1>8 DEF After, t

\* Of the mirrors of a branch at most one stands, none next to a row of
\* YClients, and one where there is no such row.
LEMMA OneStands ==
  ASSUME TypeInv, NEW u \in Working
  PROVE  /\ \A r \in Kept(u), s \in Linked(staff, u) :
              s # r /\ staff[s].company = staff[r].company => s \notin Crm /\ s \notin Kept(u)
         /\ \A b \in user[u].branches \ Missing(u) :
              \E r \in Linked(staff, u) : staff[r].company = b /\ (r \in Crm \/ r \in Kept(u))
  <1>0. /\ MaxMirrors \in Nat /\ Mirrors \subseteq Nat /\ Mirrors \cap Crm = {}
        /\ Linked(staff, u) \subseteq Rows /\ Rows = Crm \cup Mirrors
    BY MirrorsApart, LinkedRows, ConstantsAssumption DEF ConstantsAssumption, Rows, Mirrors
  <1>1. ASSUME NEW r \in Kept(u), NEW s \in Linked(staff, u), s # r, staff[s].company = staff[r].company
        PROVE  s \notin Crm /\ s \notin Kept(u)
    <2>1. r \in Linked(staff, u) /\ r \notin Crm /\ Stands(staff, u, r)
      BY DEF Kept
    <2>2. Ahead(staff, r, s)
      BY <1>1, <2>1 DEF Stands
    <2>3. s \notin Crm
      BY <2>1, <2>2 DEF Ahead
    <2>4. ASSUME s \in Kept(u) PROVE FALSE
      <3>1. Stands(staff, u, s)
        BY <2>4 DEF Kept
      <3>2. Ahead(staff, s, r)
        BY <1>1, <2>1, <3>1 DEF Stands
      <3>3. r \in Nat /\ s \in Nat
        BY <1>0, <2>1, <2>3
      <3>4. QED
        BY <2>1, <2>2, <2>3, <3>2, <3>3 DEF Ahead
    <2>5. QED
      BY <2>3, <2>4
  <1>2. ASSUME NEW b \in user[u].branches \ Missing(u)
        PROVE  \E r \in Linked(staff, u) : staff[r].company = b /\ (r \in Crm \/ r \in Kept(u))
    <2>1. PICK x \in Linked(staff, u) : staff[x].company = b
      BY DEF Missing
    <2> DEFINE S == {r \in Linked(staff, u) : staff[r].company = b}
               L == {r \in S : ~staff[r].fired}
    <2>2. CASE \E r \in S : r \in Crm
      BY <2>2
    <2>3. CASE S \cap Crm = {}
      <3>1. S \subseteq Mirrors /\ S # {} /\ L \subseteq S
        BY <1>0, <2>1, <2>3
      <3>2. PICK m \in S : IF L # {} THEN m \in L /\ (\A k \in L : k = m \/ m > k)
                                    ELSE \A k \in S : k = m \/ m > k
        <4>1. CASE L # {}
          <5>1. \E m \in L : \A k \in L : k = m \/ m > k
            BY <3>1, <4>1, Youngest
          <5>2. QED
            BY <4>1, <5>1
        <4>2. CASE L = {}
          BY <3>1, <4>2, Youngest
        <4>3. QED
          BY <4>1, <4>2
      <3>3. ASSUME NEW s \in Linked(staff, u), s # m, staff[s].company = staff[m].company
            PROVE  Ahead(staff, m, s)
        <4>1. s \in S /\ m \notin Crm /\ s \notin Crm
          BY <2>3, <3>3
        <4>2. CASE L # {}
          <5>1. CASE staff[s].fired
            BY <3>2, <4>1, <4>2, <5>1 DEF Ahead
          <5>2. CASE ~staff[s].fired
            BY <3>2, <3>3, <4>1, <4>2, <5>2 DEF Ahead
          <5>3. QED
            BY <5>1, <5>2
        <4>3. CASE L = {}
          <5>1. staff[s].fired /\ staff[m].fired /\ m > s
            BY <3>2, <3>3, <4>1, <4>3
          <5>2. QED
            BY <4>1, <5>1 DEF Ahead
        <4>4. QED
          BY <4>2, <4>3
      <3>4. Stands(staff, u, m)
        BY <3>3 DEF Stands
      <3>5. m \in Kept(u)
        BY <2>3, <3>4 DEF Kept
      <3>6. QED
        BY <3>5
    <2>4. QED
      BY <2>2, <2>3
  <1>3. QED
    BY <1>1, <1>2

\* In a settled table live mirrors stand alone, and each branch has a row.
Settled(t, u) ==
  /\ \A m \in Live(t, u) :
       /\ t[m].company \in user[u].branches
       /\ \A s \in Linked(t, u) : s # m /\ t[s].company = t[m].company => s \notin Crm /\ t[s].fired
  /\ \A b \in user[u].branches : \E r \in Linked(t, u) : t[r].company = b /\ (r \in Crm \/ ~t[r].fired)

\* That table is settled.
LEMMA AfterSettled ==
  ASSUME TypeInv, NEW u \in Working, NEW f, NEW t, After(t, f, u)
  PROVE  Settled(t, u)
  <1>1. /\ \A b \in Missing(u) :
             /\ f[<<u, b>>] \in Linked(t, u) /\ f[<<u, b>>] \notin Crm
             /\ t[f[<<u, b>>]].company = b /\ ~t[f[<<u, b>>]].fired
        /\ \A r \in Linked(staff, u) :
             /\ r \in Linked(t, u) /\ t[r].company = staff[r].company
             /\ r \notin Crm => (t[r].fired <=> r \notin Kept(u))
        /\ \A r \in Linked(t, u) : r \in Linked(staff, u) \/ \E b \in Missing(u) : r = f[<<u, b>>]
    BY DEF After
  <1>2. /\ Missing(u) \subseteq user[u].branches
        /\ \A r \in Linked(staff, u) : staff[r].company \notin Missing(u)
        /\ Kept(u) \subseteq Linked(staff, u) /\ \A r \in Kept(u) : staff[r].company \in user[u].branches
    BY DEF Missing, Kept
  <1>3. ASSUME NEW m \in Live(t, u)
        PROVE  /\ t[m].company \in user[u].branches
               /\ \A s \in Linked(t, u) : s # m /\ t[s].company = t[m].company => s \notin Crm /\ t[s].fired
    <2>1. m \in Linked(t, u) /\ m \notin Crm /\ ~t[m].fired
      BY DEF Live
    <2>2. CASE m \in Linked(staff, u)
      <3>1. m \in Kept(u) /\ t[m].company = staff[m].company
        BY <1>1, <2>1, <2>2
      <3>2. ASSUME NEW s \in Linked(t, u), s # m, t[s].company = t[m].company PROVE s \notin Crm /\ t[s].fired
        <4>1. s \in Linked(staff, u)
          <5>1. ASSUME NEW b \in Missing(u), s = f[<<u, b>>] PROVE FALSE
            <6>1. t[s].company = b
              BY <1>1, <5>1
            <6>2. QED
              BY <1>2, <2>2, <3>1, <3>2, <6>1
          <5>2. QED
            BY <1>1, <5>1
        <4>2. staff[s].company = staff[m].company
          BY <1>1, <3>1, <3>2, <4>1
        <4>3. s \notin Crm /\ s \notin Kept(u)
          BY OneStands, <3>1, <3>2, <4>1, <4>2
        <4>4. QED
          BY <1>1, <4>1, <4>3
      <3>3. QED
        BY <1>2, <3>1, <3>2
    <2>3. CASE m \notin Linked(staff, u)
      <3>1. PICK b \in Missing(u) : m = f[<<u, b>>]
        BY <1>1, <2>1, <2>3
      <3>2. t[m].company = b
        BY <1>1, <3>1
      <3>3. ASSUME NEW s \in Linked(t, u), s # m, t[s].company = t[m].company PROVE FALSE
        <4>1. CASE s \in Linked(staff, u)
          BY <1>1, <1>2, <3>2, <3>3, <4>1
        <4>2. CASE s \notin Linked(staff, u)
          <5>1. PICK c \in Missing(u) : s = f[<<u, c>>]
            BY <1>1, <4>2
          <5>2. t[s].company = c
            BY <1>1, <5>1
          <5>3. QED
            BY <3>1, <3>2, <3>3, <5>1, <5>2
        <4>3. QED
          BY <4>1, <4>2
      <3>4. QED
        BY <1>2, <3>2, <3>3
    <2>4. QED
      BY <2>2, <2>3
  <1>4. ASSUME NEW b \in user[u].branches
        PROVE  \E r \in Linked(t, u) : t[r].company = b /\ (r \in Crm \/ ~t[r].fired)
    <2>1. CASE b \in Missing(u)
      BY <1>1, <2>1
    <2>2. CASE b \notin Missing(u)
      <3>1. PICK r \in Linked(staff, u) : staff[r].company = b /\ (r \in Crm \/ r \in Kept(u))
        BY OneStands, <2>2
      <3>2. r \in Linked(t, u) /\ t[r].company = b /\ (r \notin Crm => ~t[r].fired)
        BY <1>1, <3>1
      <3>3. QED
        BY <3>2
    <2>3. QED
      BY <2>1, <2>2
  <1>5. QED
    BY <1>3, <1>4 DEF Settled

\* A settled table needs no repair.
LEMMA NothingLeft ==
  ASSUME NEW u \in Working, NEW t, Settled(t, u)
  PROVE  Repairs(t, u, user[u]) = NoWrites
  <1>1. Syncs(user[u])
    BY DEF Working
  <1>2. /\ \A m \in Linked(t, u) \ Crm : ~t[m].fired => t[m].company \in user[u].branches
        /\ \A m \in Linked(t, u) \ Crm, s \in Linked(t, u) :
             ~t[m].fired /\ s # m /\ t[s].company = t[m].company => s \notin Crm /\ t[s].fired
        /\ \A b \in user[u].branches : \E r \in Linked(t, u) : t[r].company = b /\ (r \in Crm \/ ~t[r].fired)
    BY DEF Settled, Live
  <1>3. CASE user[u].branches = {}
    <2>1. ~\E r \in Linked(t, u) \ Crm : ~t[r].fired
      BY <1>2, <1>3
    <2>2. Repairs(t, u, user[u]) = [NoWrites EXCEPT !.sweep = {}]
      BY <1>3, <2>1 DEF Repairs
    <2>3. QED
      BY <2>2 DEF NoWrites
  <1>4. CASE user[u].branches # {}
    <2> DEFINE rows == Linked(t, u)
               kept == {r \in rows \ Crm : t[r].company \in user[u].branches /\ Stands(t, u, r)}
               add == {u} \X (user[u].branches \ {t[r].company : r \in rows})
               wake == {r \in kept : t[r].fired}
               fire == {r \in (rows \ Crm) \ kept : ~t[r].fired}
    <2>1. Repairs(t, u, user[u]) = [add |-> add, wake |-> wake, fire |-> fire, sweep |-> {}]
      BY <1>1, <1>4 DEF Repairs
    <2>2. add = {}
      BY <1>2
    <2>3. ASSUME NEW m \in wake PROVE FALSE
      <3>1. PICK s \in rows : t[s].company = t[m].company /\ (s \in Crm \/ ~t[s].fired)
        BY <1>2
      <3>2. Ahead(t, m, s)
        BY <3>1 DEF Stands
      <3>3. QED
        BY <3>1, <3>2 DEF Ahead
    <2>4. ASSUME NEW m \in fire PROVE FALSE
      <3>1. m \in rows \ Crm /\ ~t[m].fired /\ t[m].company \in user[u].branches
        BY <1>2
      <3>2. ASSUME NEW s \in rows, s # m, t[s].company = t[m].company PROVE Ahead(t, m, s)
        BY <1>2, <3>1, <3>2 DEF Ahead
      <3>3. Stands(t, u, m)
        BY <3>2 DEF Stands
      <3>4. QED
        BY <3>1, <3>3
    <2>5. wake = {} /\ fire = {}
      BY <2>3, <2>4
    <2> HIDE DEF add, wake, fire
    <2>6. QED
      BY <2>1, <2>2, <2>5 DEF NoWrites
  <1>5. QED
    BY <1>3, <1>4

\* In a settled table one row stands for a branch.
LEMMA StandingRows ==
  ASSUME TypeInv, IInv, NEW u \in Working, NEW f \in Fresh(staff, Repair), NEW b,
         Settled(Written(staff, Repair, f), u)
  PROVE  LET rows == Standing(Written(staff, Repair, f), u, b)
         IN  IF b \in user[u].branches THEN StandsAlone(rows, u) ELSE rows \subseteq Crm
  <1> DEFINE t == Written(staff, Repair, f)
             rows == Standing(t, u, b)
  <1>1. \A r \in Crm : t[r] = staff[r]
    BY RepairType, WrittenType
  <1>2. Settled(t, u) /\ u \in Users
    BY RepairType
  <1> HIDE DEF t
  <1>3. /\ rows \subseteq Linked(t, u)
        /\ \A r \in rows : t[r].company = b /\ (r \in Crm \/ r \in Live(t, u))
        /\ \A r \in Linked(t, u) : t[r].company = b /\ (r \in Crm \/ ~t[r].fired) => r \in rows
    BY DEF Standing, Live
  <1> HIDE DEF rows
  <1>4. ASSUME NEW m \in rows, m \notin Crm PROVE rows = {m} /\ b \in user[u].branches
    <2>1. m \in Live(t, u) /\ t[m].company = b
      BY <1>3, <1>4
    <2>2. b \in user[u].branches
      BY <1>2, <2>1 DEF Settled
    <2>3. ASSUME NEW s \in rows, s # m PROVE FALSE
      <3>1. s \notin Crm /\ t[s].fired
        BY <1>2, <1>3, <2>1, <2>3 DEF Settled
      <3>2. QED
        BY <1>3, <3>1 DEF Live
    <2>4. QED
      BY <1>4, <2>2, <2>3
  <1>5. CASE b \notin user[u].branches
    BY <1>4, <1>5 DEF rows, t
  <1>6. CASE b \in user[u].branches
    <2>1. PICK r \in rows : TRUE
      <3>1. \E r \in Linked(t, u) : t[r].company = b /\ (r \in Crm \/ ~t[r].fired)
        BY <1>2, <1>6 DEF Settled
      <3>2. QED
        BY <1>3, <3>1
    <2>2. CASE \E m \in rows : m \notin Crm
      <3>1. StandsAlone(rows, u)
        BY <1>4, <2>2 DEF StandsAlone
      <3>2. QED
        BY <1>6, <3>1 DEF rows, t
    <2>3. CASE rows \subseteq Crm
      <3>1. ASSUME u \notin deleted, NEW s \in rows PROVE s = r
        <4>1. /\ s \in Crm /\ staff[s].user = u /\ staff[s].company = b
              /\ r \in Crm /\ staff[r].user = u /\ staff[r].company = b
          BY <1>1, <1>3, <2>3 DEF Linked
        <4>2. Home[r] = Home[s] /\ u \in Users \ deleted
          BY <1>2, <3>1, <4>1 DEF IInv, RowsAtHome
        <4>3. QED
          BY <4>1, <4>2 DEF IInv, OneLink
      <3>2. u \in deleted \/ rows = {r}
        BY <2>1, <3>1
      <3>3. StandsAlone(rows, u)
        BY <2>1, <2>3, <3>2 DEF StandsAlone
      <3>4. QED
        BY <1>6, <3>3 DEF rows, t
    <2>4. QED
      BY <2>2, <2>3
  <1>7. QED
    BY <1>5, <1>6

-----------------------------------------------------------------------------

\* «One linked row per branch» cannot be raced past, however administrators link,
\* unlink, change, provision and delete accounts at once, while the list repairs
\* mirrors: an account whose id was never deleted stands for one person a branch.
THEOREM OneLinkUntilDeleted == Spec => []LinkedOnceUntilDeleted
  <1>1. TypeInv /\ IInv => LinkedOnceUntilDeleted
    <2> SUFFICES ASSUME TypeInv, IInv, NEW u \in Users \ deleted,
                        NEW r \in Linked(staff, u) \cap Crm, NEW s \in Linked(staff, u) \cap Crm,
                        staff[r].company = staff[s].company
                 PROVE  r = s
      BY DEF LinkedOnceUntilDeleted, LinkedOnce
    <2>1. staff[r].user = u /\ staff[s].user = u /\ Home[r] = Home[s]
      BY DEF Linked, IInv, RowsAtHome
    <2>2. QED
      BY <2>1 DEF IInv, OneLink
  <1>2. Spec => [](TypeInv /\ IInv)
    BY InitTypeInv, NextTypeInv, InitIInv, NextIInv, PTL DEF Spec
  <1>3. QED
    BY <1>1, <1>2, PTL

\* A row of YClients is hired and fired by YClients: of everything the portal
\* does to accounts, links and mirrors, nothing changes whether it works, but for
\* the sync of its branch.
THEOREM FiredByTheSync ==
  Spec => [][\A r \in Crm : staff'[r].fired # staff[r].fired => SyncStaff(Home[r])]_vars
  <1> DEFINE A == \A r \in Crm : staff'[r].fired # staff[r].fired => SyncStaff(Home[r])
  <1>1. TypeInv /\ IInv /\ [Next]_vars => [A]_vars
    <2> SUFFICES ASSUME TypeInv, IInv, Next PROVE A
      OBVIOUS
    <2>1. ASSUME NEW p \in Procs, Request(p) \/ LinkClaim(p) PROVE A
      BY <2>1, Requests DEF Begun, LinkClaim
    <2>2. ASSUME NEW p \in Procs,
                 UpdateCommit(p) \/ DeleteCommit(p) \/ RepairCommit(p) \/ LinkCommit(p) \/ UnlinkCommit(p)
          PROVE  A
      BY <2>2, CommitTypes
    <2>3. ASSUME NEW p \in Procs, ProvisionCommit(p) PROVE A
      BY <2>3 DEF ProvisionCommit, TypeInv, RowType, Rows
    <2>4. ASSUME NEW u \in Made, NEW bs \in SUBSET Companies, CreateUser(u, bs) PROVE A
      BY <2>4, OtherTypes
    <2>5. ASSUME NEW b \in Companies, SyncStaff(b) PROVE A
      BY <2>5 DEF SyncStaff, IInv, RowsAtHome, Rows
    <2>6. CASE (\E r \in Rows : EnterFact(r)) \/ (\E s \in Crm : HireOrFire(s))
      BY <2>6 DEF EnterFact, HireOrFire
    <2>7. QED
      BY <2>1, <2>2, <2>3, <2>4, <2>5, <2>6 DEF Next, Proceed
  <1>2. Spec => [](TypeInv /\ IInv)
    BY InitTypeInv, NextTypeInv, InitIInv, NextIInv, PTL DEF Spec
  <1>3. QED
    BY <1>1, <1>2, PTL DEF Spec

\* Whatever races have made of the table, opening the list of accounts settles
\* it: each working account has one row per branch, a mirror only where YClients
\* has none for it, and the next repair finds nothing to write.
THEOREM RepairsSettle == Spec => []RepairSettles
  <1>1. TypeInv /\ IInv => RepairSettles
    <2> SUFFICES ASSUME TypeInv, IInv, NEW f \in Fresh(staff, Repair), NEW u \in Working
                 PROVE  /\ Repairs(Written(staff, Repair, f), u, user[u]) = NoWrites
                        /\ \A b \in Companies :
                             LET rows == Standing(Written(staff, Repair, f), u, b)
                             IN  IF b \in user[u].branches THEN StandsAlone(rows, u) ELSE rows \subseteq Crm
      BY DEF RepairSettles, Repair, Working
    <2>1. Settled(Written(staff, Repair, f), u)
      BY TableAfter, AfterSettled
    <2>2. QED
      BY <2>1, NothingLeft, StandingRows
  <1>2. Spec => [](TypeInv /\ IInv)
    BY InitTypeInv, NextTypeInv, InitIInv, NextIInv, PTL DEF Spec
  <1>3. QED
    BY <1>1, <1>2, PTL

-----------------------------------------------------------------------------

\* Every row has a number of facts.
FactsInv == facts \in [Rows -> Nat]

\* There are finitely many rows.
LEMMA RowsFinite == IsFiniteSet(Rows)
  <1>1. IsFiniteSet(Crm) /\ IsFiniteSet(Mirrors)
    BY FS_Subset, FS_Interval, ConstantsAssumption DEF ConstantsAssumption, Users, Mirrors
  <1>2. QED
    BY <1>1, FS_Union DEF Rows

\* A fact somebody enters adds one.
LEMMA Entered ==
  ASSUME FactsInv, NEW r \in Rows, EnterFact(r)
  PROVE  FactsInv' /\ SumOf(facts', Rows) = SumOf(facts, Rows) + 1
  <1>1. facts' = [facts EXCEPT ![r] = 1] /\ facts[r] = 0
    BY DEF EnterFact
  <1>2. FactsInv'
    BY <1>1 DEF FactsInv
  <1>3. /\ Summable(facts, Rows) /\ Summable(facts', Rows)
        /\ Summable(facts, Rows \ {r}) /\ facts'[r] = 1
        /\ \A x \in Rows \ {r} : facts[x] = facts'[x]
    BY <1>1, <1>2, RowsFinite, FS_RemoveElement DEF Summable, FactsInv
  <1>4. SumOf(facts, Rows \ {r}) = SumOf(facts', Rows \ {r})
    BY <1>3, SumAgrees
  <1>5. SumOf(facts, Rows) = facts[r] + SumOf(facts, Rows \ {r})
    BY <1>3, SumRemove
  <1>6. SumOf(facts', Rows) = facts'[r] + SumOf(facts', Rows \ {r})
    BY <1>3, SumRemove
  <1>7. SumOf(facts, Rows \ {r}) \in Int
    BY <1>3, SumStep
  <1>8. QED
    BY <1>1, <1>2, <1>3, <1>4, <1>5, <1>6, <1>7

\* The facts of the mirrors are added to those of the row, and gone.
LEMMA Merged ==
  ASSUME TypeInv, FactsInv, NEW p \in Procs, LinkCommit(p)
  PROVE  FactsInv' /\ SumOf(facts', Rows) = SumOf(facts, Rows)
  <1> DEFINE s == txn[p].row
             mine == txn[p].rows
  <1>1. /\ s \in mine /\ mine \subseteq Rows
        /\ facts' = [r \in Rows |-> IF r = s THEN SumOf(facts, mine)
                                    ELSE IF r \in mine \ {s} THEN 0 ELSE facts[r]]
    BY DEF LinkCommit, SumOf, TypeInv, TxnOK, TxnType
  <1> HIDE DEF s, mine
  <1>2. Summable(facts, Rows) /\ Summable(facts, mine) /\ IsFiniteSet(mine)
    BY <1>1, RowsFinite, FS_Subset DEF Summable, FactsInv
  <1>3. SumOf(facts, mine) \in Nat
    <2>1. \A r \in mine : facts[r] \in Nat
      BY <1>1 DEF FactsInv
    <2>2. Nat \in SUBSET Int /\ \A a \in Nat, b \in Nat : a + b \in Nat
      OBVIOUS
    <2>3. QED
      BY <1>2, <2>1, <2>2, SumIn
  <1>4. FactsInv'
    BY <1>1, <1>3 DEF FactsInv
  <1>5. Summable(facts', Rows) /\ Summable(facts', mine) /\ Summable(facts', Rows \ mine)
    BY <1>1, <1>4, RowsFinite, FS_Subset DEF Summable, FactsInv
  <1>6. SumOf(facts', mine) = SumOf(facts, mine)
    <2>1. SumOf(facts', mine) = facts'[s] + SumOf(facts', mine \ {s})
      BY <1>1, <1>5, SumRemove
    <2>2. IsFiniteSet(mine \ {s}) /\ \A r \in mine \ {s} : facts'[r] \in {0}
      BY <1>1, <1>2, FS_RemoveElement
    <2>3. SumOf(facts', mine \ {s}) \in {0}
      <3>1. {0} \in SUBSET Int /\ \A a \in {0}, b \in {0} : a + b \in {0}
        OBVIOUS
      <3>2. QED
        BY <2>2, <3>1, SumIn
    <2>4. facts'[s] = SumOf(facts, mine)
      BY <1>1
    <2>5. QED
      BY <1>3, <2>1, <2>3, <2>4
  <1>7. SumOf(facts', Rows \ mine) = SumOf(facts, Rows \ mine)
    BY <1>1, <1>5, SumAgrees
  <1>8. SumOf(facts, Rows) = SumOf(facts, mine) + SumOf(facts, Rows \ mine)
    BY <1>1, <1>2, SumSplit
  <1>9. SumOf(facts', Rows) = SumOf(facts', mine) + SumOf(facts', Rows \ mine)
    BY <1>1, <1>5, SumSplit
  <1>10. QED
    BY <1>4, <1>6, <1>7, <1>8, <1>9

\* Nothing but an editor and the merge of a link writes facts.
LEMMA OthersLeaveFacts ==
  ASSUME [Next]_vars
  PROVE  \/ UNCHANGED facts
         \/ \E r \in Rows : EnterFact(r)
         \/ \E p \in Procs : LinkCommit(p)
  <1>1. ASSUME NEW p \in Procs, Request(p) PROVE UNCHANGED facts
    BY <1>1 DEF Request, RepairRead, DeleteDetach, UpdateFlush, LinkLoad, UnlinkLoad, ProvisionLoad
  <1>2. ASSUME NEW p \in Procs, Proceed(p) PROVE UNCHANGED facts \/ LinkCommit(p)
    BY <1>2 DEF Proceed, UpdateCommit, DeleteCommit, RepairCommit, LinkClaim, UnlinkCommit, ProvisionCommit
  <1>3. QED
    BY <1>1, <1>2 DEF Next, CreateUser, HireOrFire, SyncStaff, vars

\* However the accounts of a person are linked, unlinked and repaired, a link moves the
\* manual facts of its mirrors to the row of YClients and loses none: link_staff, apply_moves.
THEOREM FactsAreConserved == Spec => FactsConserved
  <1> DEFINE A == SumOf(facts', Rows) = SumOf(facts, Rows) + (IF \E r \in Rows : EnterFact(r) THEN 1 ELSE 0)
  <1>1. Init => FactsInv
    BY DEF Init, FactsInv
  <1>2. ASSUME TypeInv, FactsInv, [Next]_vars PROVE FactsInv' /\ [A]_vars
    <2>1. SumOf(facts, Rows) \in Int
      <3>1. Summable(facts, Rows)
        BY <1>2, RowsFinite DEF Summable, FactsInv
      <3>2. QED
        BY <3>1, SumStep
    <2>2. CASE \E r \in Rows : EnterFact(r)
      <3>1. PICK r \in Rows : EnterFact(r)
        BY <2>2
      <3>2. FactsInv' /\ SumOf(facts', Rows) = SumOf(facts, Rows) + 1
        BY <1>2, <3>1, Entered
      <3>3. A
        BY <2>2, <3>2
      <3>4. QED
        BY <3>2, <3>3
    <2>3. CASE ~\E r \in Rows : EnterFact(r)
      <3>1. CASE UNCHANGED facts
        <4>1. FactsInv'
          BY <1>2, <3>1 DEF FactsInv
        <4>2. SumOf(facts', Rows) = SumOf(facts, Rows)
          BY <3>1
        <4>3. A
          BY <2>1, <2>3, <4>2
        <4>4. QED
          BY <4>1, <4>3
      <3>2. CASE \E p \in Procs : LinkCommit(p)
        BY <1>2, <2>1, <2>3, <3>2, Merged
      <3>3. QED
        BY <1>2, <2>3, <3>1, <3>2, OthersLeaveFacts
    <2>4. QED
      BY <2>2, <2>3
  <1>3. [A]_vars <=> [LET Sum(f) == MapThenSumSet(LAMBDA r : f[r], Rows)
                      IN  Sum(facts') = Sum(facts) + (IF \E r \in Rows : EnterFact(r) THEN 1 ELSE 0)]_vars
    BY DEF SumOf
  <1>4. Spec => [](TypeInv /\ IInv)
    BY InitTypeInv, NextTypeInv, InitIInv, NextIInv, PTL DEF Spec
  <1> HIDE DEF A
  <1>5. Spec => [][A]_vars
    BY <1>1, <1>2, <1>4, PTL DEF Spec
  <1>6. QED
    BY <1>3, <1>5, PTL DEF FactsConserved

-----------------------------------------------------------------------------
(* The figures of the dashboard.                                           *)

(* What is true of the rows whatever is mirrored. *)
RowsInv ==
  /\ IsFiniteSet(visits) /\ IsFiniteSet(payments) /\ IsFiniteSet(sales)
  /\ \A v \in visits : v.id \in Nat /\ AtHome(v.staff, v.co)
  /\ \A p \in payments : p.amount \in Int /\ AtHome(p.master, p.co)
  /\ \A g \in sales : g.id \in Nat /\ AtHome(g.master, g.co)

\* The row with the least id is one of the rows.
LEMMA ByIdIn ==
  ASSUME NEW S, S # {}, \A r \in S : r.id \in Nat
  PROVE  ById(S) \in S
  <1> DEFINE ids == {r.id : r \in S}
  <1>1. ids \in SUBSET Nat /\ ids # {}
    OBVIOUS
  <1> HIDE DEF ids
  <1>2. PICK n \in ids : \A k \in ids : n <= k
    BY <1>1, LeastIn
  <1>3. \E r \in S : \A x \in S : r.id <= x.id
    BY <1>2 DEF ids
  <1>4. QED
    BY <1>3 DEF ById

\* Among one more number than there are rows, one is no row's id.
LEMMA FreeIdIsFree ==
  ASSUME NEW S, IsFiniteSet(S)
  PROVE  FreeId(S) \in Nat
  <1> DEFINE ids == {r.id : r \in S}
             f == [r \in S |-> r.id]
             n == Cardinality(S)
  <1>1. f \in Surjection(S, ids)
    BY DEF Surjection
  <1>2. n \in Nat /\ IsFiniteSet(ids) /\ Cardinality(ids) <= n
    <2> HIDE DEF f, ids
    <2>1. QED
      BY <1>1, FS_Surjection, FS_CardinalityType
  <1>3. Cardinality(1..n + 1) = n + 1 /\ Cardinality(ids) \in Nat
    <2> HIDE DEF f, ids, n
    <2>1. Cardinality(1..n + 1) = IF 1 > n + 1 THEN 0 ELSE (n + 1) - 1 + 1
      BY <1>2, FS_Interval
    <2>2. QED
      BY <1>2, <2>1, FS_CardinalityType
  <1>4. \E k \in 1..n + 1 : k \notin ids
    <2> HIDE DEF f, ids, n
    <2>1. ASSUME 1..n + 1 \subseteq ids PROVE FALSE
      <3>1. Cardinality(1..n + 1) <= Cardinality(ids)
        BY <1>2, <2>1, FS_Subset
      <3>2. QED
        BY <1>2, <1>3, <3>1
    <2>2. QED
      BY <2>1
  <1>5. FreeId(S) \in 1..n + 1
    BY <1>4 DEF FreeId
  <1>6. QED
    BY <1>2, <1>5

\* What is already mirrored of a row is among the rows.
LEMMA KnownIn ==
  ASSUME NEW rows, NEW co, NEW ext, \A r \in rows : r.id \in Nat
  PROVE  /\ Known(rows, co, ext) \subseteq rows
         /\ Known(rows, co, ext) # {} => ById(Known(rows, co, ext)) \in rows
  <1>1. Known(rows, co, ext) \subseteq rows
    BY DEF Known
  <1>2. QED
    BY <1>1, ByIdIn

\* Every step of the mirror keeps the rows in order.
LEMMA RowsStep ==
  ASSUME RowsInv, RNext
  PROVE  RowsInv'
  <1> USE MirrorAssumption
  <1>1. ASSUME NEW r \in Records, MirrorRecord(r) PROVE RowsInv'
    <2> DEFINE old == Known(visits, r.co, r.ext)
               id == IF old = {} THEN NewId[<<r.co, r.ext>>] ELSE ById(old).id
               new == [id |-> id, ext |-> r.ext, co |-> r.co, staff |-> r.staff, client |-> r.client, by |-> r.by,
                       day |-> r.day, at |-> r.at, made |-> r.made, att |-> r.att, lines |-> r.lines]
    <2>1. id \in Nat
      BY KnownIn DEF RowsInv
    <2>2. visits' = (visits \ old) \cup {new} /\ UNCHANGED <<payments, sales>>
      BY <1>1 DEF MirrorRecord
    <2>3. new.id \in Nat /\ AtHome(new.staff, new.co)
      BY <2>1
    <2> HIDE DEF new, old, id
    <2>4. IsFiniteSet(visits \ old)
      BY FS_Subset DEF RowsInv
    <2>5. IsFiniteSet(visits')
      BY <2>2, <2>4, FS_AddElement
    <2>6. QED
      BY <2>2, <2>3, <2>5 DEF RowsInv, AtHome
  <1>2. ASSUME NEW v \in visits, PurgeVisit(v) PROVE RowsInv'
    <2>1. visits' = visits \ {v} /\ UNCHANGED <<payments, sales>>
      BY <1>2 DEF PurgeVisit
    <2>2. IsFiniteSet(visits')
      BY <2>1, FS_RemoveElement DEF RowsInv
    <2>3. QED
      BY <2>1, <2>2 DEF RowsInv, AtHome
  <1>3. ASSUME NEW t \in Transfers, MirrorTransfer(t) PROVE RowsInv'
    <2> DEFINE rest == {p \in payments : ~(p.co = t.co /\ p.ext = t.ext)}
    <2>1. payments' = rest \cup {t} /\ UNCHANGED <<visits, sales>>
      BY <1>3 DEF MirrorTransfer
    <2>2. IsFiniteSet(rest)
      BY FS_Subset DEF RowsInv
    <2>3. IsFiniteSet(payments')
      BY <2>1, <2>2, FS_AddElement
    <2>4. QED
      BY <2>1, <2>3 DEF RowsInv, AtHome
  <1>4. ASSUME NEW g \in Moves, MirrorMove(g) PROVE RowsInv'
    <2> DEFINE old == Known(sales, g.co, g.ext)
               id == IF old # {} THEN ById(old).id
                     ELSE IF g.ext \in {h.id : h \in sales} THEN FreeId(sales) ELSE g.ext
               new == [id |-> id, ext |-> g.ext, co |-> g.co, day |-> g.day, master |-> g.master, sale |-> g.sale,
                       qty |-> g.qty, good |-> g.good, cosmetics |-> g.cosmetics]
    <2>1. id \in Nat
      BY KnownIn, FreeIdIsFree DEF RowsInv
    <2>2. sales' = (sales \ old) \cup {new} /\ UNCHANGED <<visits, payments>>
      BY <1>4 DEF MirrorMove
    <2>3. new.id \in Nat /\ AtHome(new.master, new.co)
      BY <2>1
    <2> HIDE DEF new, old, id
    <2>4. IsFiniteSet(sales \ old)
      BY FS_Subset DEF RowsInv
    <2>5. IsFiniteSet(sales')
      BY <2>2, <2>4, FS_AddElement
    <2>6. QED
      BY <2>2, <2>3, <2>5 DEF RowsInv, AtHome
  <1>5. ASSUME UNCHANGED <<visits, payments, sales>> PROVE RowsInv'
    BY <1>5 DEF RowsInv, AtHome
  <1>6. ASSUME NEW c \in Typed, SaveYandexPay(c), UNCHANGED fvars PROVE RowsInv'
    BY <1>5, <1>6 DEF fvars
  <1>7. ASSUME NEW batch \in LabelChanges, SaveLabels(batch, Branches) PROVE RowsInv'
    BY <1>5, <1>7 DEF SaveLabels, mvars
  <1>8. QED
    BY <1>1, <1>2, <1>3, <1>4, <1>5, <1>6, <1>7 DEF RNext, FNext, MarkCovered, SetReportingWindow, Tick

\* Whatever is mirrored, purged and entered, the rows stay so.
LEMMA RowsInvariant == RSpec => []RowsInv
  <1>1. RInit => RowsInv
    BY MirrorAssumption, FS_EmptySet DEF RInit, FInit, MirrorInit, RowsInv
  <1>2. RowsInv /\ [RNext]_rvars => RowsInv'
    <2>1. CASE UNCHANGED rvars
      BY <2>1 DEF rvars, RowsInv, AtHome
    <2>2. QED
      BY <2>1, RowsStep
  <1>3. QED
    BY <1>1, <1>2, PTL DEF RSpec

-----------------------------------------------------------------------------
(* Whose money a row is.                                                   *)

\* A payment is paid for a visit of its own branch.
LEMMA PaysHere ==
  ASSUME NEW p, NEW v, Pays(p, v)
  PROVE  p.co = v.co
  BY DEF Pays, DirectMatch, FallbackMatch

\* Whoever a payment is credited to works in its branch.
LEMMA AttributedAtHome ==
  ASSUME RowsInv, NEW p \in payments
  PROVE  AtHome(Attributed(p), p.co)
  <1> USE MirrorAssumption
  <1>1. AtHome(Seller(p), p.co)
    <2> DEFINE linked == {g \in sales : SaleOf(p, g) /\ g.sale}
    <2>1. CASE linked # {} /\ ById(linked).master # Null
      <3>1. ById(linked) \in linked
        BY <2>1, ByIdIn DEF RowsInv
      <3>2. AtHome(ById(linked).master, ById(linked).co) /\ ById(linked).co = p.co
        BY <3>1 DEF RowsInv, SaleOf
      <3>3. Seller(p) = ById(linked).master
        BY <2>1 DEF Seller
      <3>4. QED
        BY <3>2, <3>3
    <2>2. CASE ~(linked # {} /\ ById(linked).master # Null)
      <3>1. Seller(p) = p.master
        BY <2>2 DEF Seller
      <3>2. QED
        BY <3>1 DEF RowsInv
    <2>3. QED
      BY <2>1, <2>2
  <1>2. CASE p.kind = "goods"
    BY <1>1, <1>2 DEF Attributed
  <1>3. CASE p.kind # "goods" /\ p.master # Null
    BY <1>3 DEF Attributed, RowsInv
  <1>4. CASE p.kind # "goods" /\ p.master = Null
    <2> DEFINE linked == {v \in visits : Pays(p, v) /\ Business(v.staff)}
    <2>1. CASE linked = {}
      <3>1. Attributed(p) = Null
        BY <1>4, <2>1 DEF Attributed
      <3>2. QED
        BY <3>1 DEF AtHome
    <2>2. CASE linked # {}
      <3>1. ById(linked) \in linked
        BY <2>2, ByIdIn DEF RowsInv
      <3>2. AtHome(ById(linked).staff, ById(linked).co) /\ ById(linked).co = p.co
        BY <3>1, PaysHere DEF RowsInv
      <3>3. Attributed(p) = ById(linked).staff
        BY <1>4, <2>2 DEF Attributed
      <3>4. QED
        BY <3>2, <3>3
    <2>3. QED
      BY <2>1, <2>2
  <1>5. QED
    BY <1>2, <1>3, <1>4

\* The pairs of the two joins are finitely many, each of a payment and a visit of one branch.
LEMMA PaidVisitsAre ==
  ASSUME RowsInv
  PROVE  /\ IsFiniteSet(PaidVisits)
         /\ \A x \in PaidVisits : x[2] \in payments /\ x[3] \in visits /\ x[2].co = x[3].co /\ x[2].amount \in Int
  <1> DEFINE all == ({"direct", "fallback"} \X payments) \X visits
             f == [k \in all |-> <<k[1][1], k[1][2], k[2]>>]
             S == {f[k] : k \in all}
  <1>1. IsFiniteSet(all)
    <2>1. IsFiniteSet({"direct", "fallback"})
      <3>1. IsFiniteSet({"direct"} \cup {"fallback"})
        BY FS_Singleton, FS_AddElement
      <3>2. {"direct"} \cup {"fallback"} = {"direct", "fallback"}
        OBVIOUS
      <3>3. QED
        BY <3>1, <3>2
    <2>2. IsFiniteSet({"direct", "fallback"} \X payments)
      BY <2>1, FS_Product DEF RowsInv
    <2>3. QED
      BY <2>2, FS_Product DEF RowsInv
  <1>2. IsFiniteSet(S)
    <2> HIDE DEF all, f
    <2>1. QED
      BY <1>1, ImageFinite
  <1>3. ASSUME NEW x \in PaidVisits
        PROVE  /\ x \in S /\ x[2] \in payments /\ x[3] \in visits
               /\ x[2].co = x[3].co
    <2>1. PICK p \in {y \in payments : y.rec # Null} :
            x \in {<<"direct", p, v>> : v \in {u \in visits : DirectMatch(p, u)}} \cup
                  {<<"fallback", p, v>> : v \in {u \in visits : FallbackMatch(p, u)}}
      BY <1>3 DEF PaidVisits
    <2>2. PICK tag \in {"direct", "fallback"}, v \in visits : x = <<tag, p, v>> /\ p.co = v.co
      BY <2>1 DEF DirectMatch, FallbackMatch
    <2>3. <<<<tag, p>>, v>> \in all /\ f[<<<<tag, p>>, v>>] = x
      BY <2>1, <2>2
    <2>4. x \in S
      BY <2>3
    <2>5. QED
      BY <2>1, <2>2, <2>4
  <1> HIDE DEF S
  <1>4. IsFiniteSet(PaidVisits)
    BY <1>2, <1>3, FS_Subset
  <1>5. QED
    BY <1>3, <1>4 DEF RowsInv

-----------------------------------------------------------------------------
(* Rows of a narrower question.                                            *)

\* The rows of one branch of a question are those of the question that are the branch's.
LEMMA OneBranch ==
  ASSUME RowsInv, NEW q, NEW r, NEW b,
         r.from = q.from, r.to = q.to, r.sel = q.sel, \A c : InScope(r, c) <=> InScope(q, c) /\ c = b
  PROVE  /\ CompletedVisits(r) = {v \in CompletedVisits(q) : v.co = b}
         /\ PaidServices(r) = {x \in PaidServices(q) : x[2].co = b}
         /\ GoodsPayments(r) = {p \in GoodsPayments(q) : p.co = b}
         /\ TopUpPayments(r) = {p \in TopUpPayments(q) : p.co = b}
  <1>1. \A d : Within(d, r) <=> Within(d, q)
    BY DEF Within
  <1>2. \A s : Chosen(r, s) <=> Chosen(q, s)
    BY DEF Chosen
  <1>3. CompletedVisits(r) = {v \in CompletedVisits(q) : v.co = b}
    BY <1>1, <1>2 DEF CompletedVisits, History
  <1>4. PaidServices(r) = {x \in PaidServices(q) : x[2].co = b}
    <2>1. \A x \in PaidVisits : x[2].co = x[3].co
      BY PaidVisitsAre
    <2>2. QED
      BY <1>1, <1>2, <2>1 DEF PaidServices
  <1>5. DirectPayments(r) = {p \in DirectPayments(q) : p.co = b}
    BY <1>1 DEF DirectPayments
  <1>6. \A p : Credited(r, p) <=> Credited(q, p)
    BY <1>2 DEF Credited
  <1>7. QED
    BY <1>3, <1>4, <1>5, <1>6 DEF GoodsPayments, TopUpPayments

\* What one person of a group earned is what the group earned by that person.
LEMMA OnePerson ==
  ASSUME RowsInv, NEW q, NEW r, NEW s \in Staff,
         r.from = q.from, r.to = q.to, q.sel.kind # "all", r.sel.kind # "all", s \in q.sel.ids, r.sel.ids = {s},
         \A c : InScope(r, c) <=> InScope(q, c) /\ c = WorksAt[s]
  PROVE  /\ PaidServices(r) = {x \in PaidServices(q) : x[3].staff = s}
         /\ GoodsPayments(r) = {p \in GoodsPayments(q) : Attributed(p) = s}
         /\ TopUpPayments(r) = {p \in TopUpPayments(q) : Attributed(p) = s}
  <1>1. \A d : Within(d, r) <=> Within(d, q)
    BY DEF Within
  <1>2. \A x : (Chosen(r, x) <=> x = s) /\ (Chosen(q, x) <=> x \in q.sel.ids)
    BY DEF Chosen
  <1>3. PaidServices(r) = {x \in PaidServices(q) : x[3].staff = s}
    <2>1. \A x \in PaidVisits : x[3].staff = s => x[3].co = WorksAt[s]
      BY PaidVisitsAre DEF RowsInv, AtHome
    <2>2. QED
      BY <1>1, <1>2, <2>1 DEF PaidServices
  <1>4. \A p : (Credited(r, p) <=> Attributed(p) = s) /\ (Credited(q, p) <=> Attributed(p) \in q.sel.ids)
    BY <1>2 DEF Credited
  <1>5. \A p \in payments : Attributed(p) = s => (p \in DirectPayments(r) <=> p \in DirectPayments(q))
    <2>1. \A p \in payments : Attributed(p) = s => p.co = WorksAt[s]
      BY AttributedAtHome DEF AtHome
    <2>2. QED
      BY <1>1, <2>1 DEF DirectPayments
  <1>6. DirectPayments(r) \subseteq payments /\ DirectPayments(q) \subseteq payments
    BY DEF DirectPayments
  <1>7. QED
    BY <1>3, <1>4, <1>5, <1>6 DEF GoodsPayments, TopUpPayments

-----------------------------------------------------------------------------
(* Sums of the model.                                                      *)

\* The money of payments and of pairs, and the sums of a page, as sums of a function.
LEMMA AmountIs ==
  ASSUME NEW S, NEW g, \A x \in S : g[x] = x.amount
  PROVE  Amount(S) = SumOf(g, S)
  <1> DEFINE P(h) == h = [s \in SUBSET S |-> IF s = {} THEN 0 ELSE OneOf(s).amount + h[s \ {OneOf(s)}]]
  <1>1. Amount(S) = (CHOOSE h : P(h))[S]
    BY DEF Amount, Total, MapThenSumSet, MapThenFoldSet, OneOf
  <1>2. \A h : P(h) <=> Adds(h, g, S)
    <2>1. \A s \in SUBSET S : s # {} => g[OneOf(s)] = OneOf(s).amount
      BY SomeIn
    <2>2. QED
      BY <2>1 DEF Adds
  <1>3. (CHOOSE h : P(h)) = (CHOOSE h : Adds(h, g, S))
    BY <1>2
  <1>4. QED
    BY <1>1, <1>3, SumIs

\* The same of visits paired with their payments.
LEMMA PairAmountIs ==
  ASSUME NEW S, NEW g, \A x \in S : g[x] = x[2].amount
  PROVE  PairAmount(S) = SumOf(g, S)
  <1> DEFINE P(h) == h = [s \in SUBSET S |-> IF s = {} THEN 0 ELSE OneOf(s)[2].amount + h[s \ {OneOf(s)}]]
  <1>1. PairAmount(S) = (CHOOSE h : P(h))[S]
    BY DEF PairAmount, Total, MapThenSumSet, MapThenFoldSet, OneOf
  <1>2. \A h : P(h) <=> Adds(h, g, S)
    <2>1. \A s \in SUBSET S : s # {} => g[OneOf(s)] = OneOf(s)[2].amount
      BY SomeIn
    <2>2. QED
      BY <2>1 DEF Adds
  <1>3. (CHOOSE h : P(h)) = (CHOOSE h : Adds(h, g, S))
    BY <1>2
  <1>4. QED
    BY <1>1, <1>3, SumIs

\* The elements of a set that a key files under i.
Filed(S, key, i) == {x \in S : key[x] = i}

\* Money of payments, and of pairs, is the money of the groups they fall into.
LEMMA AmountParts ==
  ASSUME RowsInv, NEW S \in SUBSET payments, NEW K, IsFiniteSet(K), NEW key, NEW s,
         \A p \in S : key[p] \in K, \A i \in K : s[i] = Amount(Filed(S, key, i))
  PROVE  Amount(S) = SumOf(s, K) /\ Amount(S) \in Int /\ \A i \in K : s[i] \in Int
  <1> DEFINE g == [p \in payments |-> p.amount]
             part == [i \in K |-> Filed(S, key, i)]
  <1>1. \A T \in SUBSET payments : Summable(g, T) /\ Amount(T) = SumOf(g, T) /\ SumOf(g, T) \in Int
    <2>1. \A p \in payments : g[p] = p.amount /\ g[p] \in Int
      BY DEF RowsInv
    <2> HIDE DEF g
    <2>2. \A T \in SUBSET payments : Summable(g, T)
      BY <2>1, FS_Subset DEF RowsInv, Summable
    <2>3. \A T \in SUBSET payments : Amount(T) = SumOf(g, T)
      BY <2>1, AmountIs
    <2>4. \A T \in SUBSET payments : SumOf(g, T) \in Int
      BY <2>2, SumStep
    <2>5. QED
      BY <2>2, <2>3, <2>4
  <1> HIDE DEF g
  <1>2. \A i \in K : part[i] \subseteq S /\ s[i] = SumOf(g, part[i]) /\ s[i] \in Int
    <2>1. ASSUME NEW i \in K PROVE part[i] \subseteq S /\ s[i] = SumOf(g, part[i]) /\ s[i] \in Int
      <3>1. part[i] \in SUBSET payments /\ part[i] \subseteq S /\ s[i] = Amount(part[i])
        BY DEF Filed
      <3> HIDE DEF part
      <3>2. QED
        BY <1>1, <3>1
    <2>2. QED
      BY <2>1
  <1>3. /\ \A i \in K, j \in K : i # j => part[i] \cap part[j] = {}
        /\ \A x \in S : \E i \in K : x \in part[i]
    BY DEF Filed
  <1> HIDE DEF part
  <1>4. SumOf(g, S) = SumOf(s, K)
    BY <1>1, <1>2, <1>3, SumParts
  <1>5. SumOf(g, S) \in Int
    BY <1>1, SumStep
  <1>6. QED
    BY <1>1, <1>2, <1>4, <1>5

\* The same of visits paired with their payments.
LEMMA PairAmountParts ==
  ASSUME RowsInv, NEW S \in SUBSET PaidVisits, NEW K, IsFiniteSet(K), NEW key, NEW s,
         \A x \in S : key[x] \in K, \A i \in K : s[i] = PairAmount(Filed(S, key, i))
  PROVE  PairAmount(S) = SumOf(s, K) /\ PairAmount(S) \in Int /\ \A i \in K : s[i] \in Int
  <1> DEFINE g == [x \in PaidVisits |-> x[2].amount]
             part == [i \in K |-> Filed(S, key, i)]
  <1>1. \A T \in SUBSET PaidVisits : Summable(g, T) /\ PairAmount(T) = SumOf(g, T) /\ SumOf(g, T) \in Int
    <2>1. \A x \in PaidVisits : g[x] = x[2].amount /\ g[x] \in Int
      BY PaidVisitsAre
    <2> HIDE DEF g
    <2>2. \A T \in SUBSET PaidVisits : Summable(g, T)
      BY <2>1, FS_Subset, PaidVisitsAre DEF Summable
    <2>3. \A T \in SUBSET PaidVisits : PairAmount(T) = SumOf(g, T)
      BY <2>1, PairAmountIs
    <2>4. \A T \in SUBSET PaidVisits : SumOf(g, T) \in Int
      BY <2>2, SumStep
    <2>5. QED
      BY <2>2, <2>3, <2>4
  <1> HIDE DEF g
  <1>2. \A i \in K : part[i] \subseteq S /\ s[i] = SumOf(g, part[i]) /\ s[i] \in Int
    <2>1. ASSUME NEW i \in K PROVE part[i] \subseteq S /\ s[i] = SumOf(g, part[i]) /\ s[i] \in Int
      <3>1. part[i] \in SUBSET PaidVisits /\ part[i] \subseteq S /\ s[i] = PairAmount(part[i])
        BY DEF Filed
      <3> HIDE DEF part
      <3>2. QED
        BY <1>1, <3>1
    <2>2. QED
      BY <2>1
  <1>3. /\ \A i \in K, j \in K : i # j => part[i] \cap part[j] = {}
        /\ \A x \in S : \E i \in K : x \in part[i]
    BY DEF Filed
  <1> HIDE DEF part
  <1>4. SumOf(g, S) = SumOf(s, K)
    BY <1>1, <1>2, <1>3, SumParts
  <1>5. SumOf(g, S) \in Int
    BY <1>1, SumStep
  <1>6. QED
    BY <1>1, <1>2, <1>4, <1>5

\* A set has as many elements as the groups they fall into have together.
LEMMA CountFiles ==
  ASSUME NEW S, IsFiniteSet(S), NEW K, IsFiniteSet(K), NEW key, NEW s,
         \A x \in S : key[x] \in K, \A i \in K : s[i] = Cardinality(Filed(S, key, i))
  PROVE  Cardinality(S) = SumOf(s, K) /\ \A i \in K : s[i] \in Nat
  <1> DEFINE g == [x \in S |-> 1]
             part == [i \in K |-> Filed(S, key, i)]
  <1>1. \A T \in SUBSET S : IsFiniteSet(T) /\ Cardinality(T) \in Nat /\ SumOf(g, T) = Cardinality(T) /\ Summable(g, T)
    <2>1. \A x \in S : g[x] = 1
      OBVIOUS
    <2> HIDE DEF g
    <2>2. \A T \in SUBSET S : IsFiniteSet(T) /\ \A x \in T : g[x] = 1
      BY <2>1, FS_Subset
    <2>3. QED
      BY <2>2, SumOfOnes, FS_CardinalityType
  <1> HIDE DEF g
  <1>2. \A i \in K : part[i] \subseteq S /\ s[i] = SumOf(g, part[i]) /\ s[i] \in Nat
    <2>1. ASSUME NEW i \in K PROVE part[i] \subseteq S /\ s[i] = SumOf(g, part[i]) /\ s[i] \in Nat
      <3>1. part[i] \subseteq S /\ s[i] = Cardinality(part[i])
        BY DEF Filed
      <3> HIDE DEF part
      <3>2. QED
        BY <1>1, <3>1
    <2>2. QED
      BY <2>1
  <1>3. /\ \A i \in K, j \in K : i # j => part[i] \cap part[j] = {}
        /\ \A x \in S : \E i \in K : x \in part[i]
    BY DEF Filed
  <1> HIDE DEF part
  <1>4. SumOf(g, S) = SumOf(s, K)
    BY <1>1, <1>2, <1>3, SumParts
  <1>5. QED
    BY <1>1, <1>2, <1>4

-----------------------------------------------------------------------------
(* The parts of a network and of a group.                                  *)

\* The parts of an average check.
LEMMA CheckIs ==
  ASSUME NEW q
  PROVE  /\ AverageCheck(q).service = PairAmount(PaidServices(q))
         /\ AverageCheck(q).goods = Amount(GoodsPayments(q))
         /\ AverageCheck(q).topup = Amount(TopUpPayments(q))
         /\ AverageCheck(q).appointments = Cardinality(CompletedVisits(q))
         /\ AverageCheck(q).revenue =
              PairAmount(PaidServices(q)) + Amount(GoodsPayments(q)) + Amount(TopUpPayments(q))
  BY DEF AverageCheck, Check

\* The rows behind a figure are mirrored rows of the scope.
LEMMA RowsOfFigures ==
  ASSUME NEW q
  PROVE  /\ CompletedVisits(q) \subseteq visits /\ \A v \in CompletedVisits(q) : InScope(q, v.co)
         /\ PaidServices(q) \subseteq PaidVisits /\ \A x \in PaidServices(q) : InScope(q, x[3].co)
         /\ GoodsPayments(q) \subseteq payments /\ \A p \in GoodsPayments(q) : InScope(q, p.co)
         /\ TopUpPayments(q) \subseteq payments /\ \A p \in TopUpPayments(q) : InScope(q, p.co)
  BY DEF CompletedVisits, History, PaidServices, GoodsPayments, TopUpPayments, DirectPayments

\* The sums of PartsAddUp ...
BranchRevenue(q, S) == Total(LAMBDA x : AverageCheck(Resolved([q EXCEPT !.co = x])).revenue, S)
BranchVisits(q, S) == Total(LAMBDA x : AverageCheck(Resolved([q EXCEPT !.co = x])).appointments, S)
TeamService(q, S) == Total(LAMBDA x : AverageCheck(Resolved(Alone(q, x))).service, S)
TeamGoods(q, S) == Total(LAMBDA x : AverageCheck(Resolved(InGroup(q, {x}))).goods, S)
TeamTopUp(q, S) == Total(LAMBDA x : AverageCheck(Resolved(Alone(q, x))).topup, S)

\* ... as sums of a function: of the revenue of branches, ...
LEMMA RevenueOfBranches ==
  ASSUME NEW q, NEW S, NEW g, \A x \in S : g[x] = AverageCheck(Resolved([q EXCEPT !.co = x])).revenue
  PROVE  BranchRevenue(q, S) = SumOf(g, S)
  <1> DEFINE P(h) == h = [s \in SUBSET S |->
                           IF s = {} THEN 0
                           ELSE AverageCheck(Resolved([q EXCEPT !.co = OneOf(s)])).revenue + h[s \ {OneOf(s)}]]
  <1>1. BranchRevenue(q, S) = (CHOOSE h : P(h))[S]
    BY DEF BranchRevenue, Total, MapThenSumSet, MapThenFoldSet, OneOf
  <1>2. \A h : P(h) <=> Adds(h, g, S)
    <2>1. \A s \in SUBSET S : s # {} => g[OneOf(s)] = AverageCheck(Resolved([q EXCEPT !.co = OneOf(s)])).revenue
      BY SomeIn
    <2>2. QED
      BY <2>1 DEF Adds
  <1>3. (CHOOSE h : P(h)) = (CHOOSE h : Adds(h, g, S))
    BY <1>2
  <1>4. QED
    BY <1>1, <1>3, SumIs

\* ... of the visits of the branches, ...
LEMMA VisitsOfBranches ==
  ASSUME NEW q, NEW S, NEW g, \A x \in S : g[x] = AverageCheck(Resolved([q EXCEPT !.co = x])).appointments
  PROVE  BranchVisits(q, S) = SumOf(g, S)
  <1> DEFINE P(h) == h = [s \in SUBSET S |->
                           IF s = {} THEN 0
                           ELSE AverageCheck(Resolved([q EXCEPT !.co = OneOf(s)])).appointments + h[s \ {OneOf(s)}]]
  <1>1. BranchVisits(q, S) = (CHOOSE h : P(h))[S]
    BY DEF BranchVisits, Total, MapThenSumSet, MapThenFoldSet, OneOf
  <1>2. \A h : P(h) <=> Adds(h, g, S)
    <2>1. \A s \in SUBSET S : s # {} => g[OneOf(s)] = AverageCheck(Resolved([q EXCEPT !.co = OneOf(s)])).appointments
      BY SomeIn
    <2>2. QED
      BY <2>1 DEF Adds
  <1>3. (CHOOSE h : P(h)) = (CHOOSE h : Adds(h, g, S))
    BY <1>2
  <1>4. QED
    BY <1>1, <1>3, SumIs

\* ... of the services of people, ...
LEMMA ServiceOfPeople ==
  ASSUME NEW q, NEW S, NEW g, \A x \in S : g[x] = AverageCheck(Resolved(Alone(q, x))).service
  PROVE  TeamService(q, S) = SumOf(g, S)
  <1> DEFINE P(h) == h = [s \in SUBSET S |->
                           IF s = {} THEN 0
                           ELSE AverageCheck(Resolved(Alone(q, OneOf(s)))).service + h[s \ {OneOf(s)}]]
  <1>1. TeamService(q, S) = (CHOOSE h : P(h))[S]
    BY DEF TeamService, Total, MapThenSumSet, MapThenFoldSet, OneOf
  <1>2. \A h : P(h) <=> Adds(h, g, S)
    <2>1. \A s \in SUBSET S : s # {} => g[OneOf(s)] = AverageCheck(Resolved(Alone(q, OneOf(s)))).service
      BY SomeIn
    <2>2. QED
      BY <2>1 DEF Adds
  <1>3. (CHOOSE h : P(h)) = (CHOOSE h : Adds(h, g, S))
    BY <1>2
  <1>4. QED
    BY <1>1, <1>3, SumIs

\* ... of their goods ...
LEMMA GoodsOfPeople ==
  ASSUME NEW q, NEW S, NEW g, \A x \in S : g[x] = AverageCheck(Resolved(InGroup(q, {x}))).goods
  PROVE  TeamGoods(q, S) = SumOf(g, S)
  <1> DEFINE P(h) == h = [s \in SUBSET S |->
                           IF s = {} THEN 0
                           ELSE AverageCheck(Resolved(InGroup(q, {OneOf(s)}))).goods + h[s \ {OneOf(s)}]]
  <1>1. TeamGoods(q, S) = (CHOOSE h : P(h))[S]
    BY DEF TeamGoods, Total, MapThenSumSet, MapThenFoldSet, OneOf
  <1>2. \A h : P(h) <=> Adds(h, g, S)
    <2>1. \A s \in SUBSET S : s # {} => g[OneOf(s)] = AverageCheck(Resolved(InGroup(q, {OneOf(s)}))).goods
      BY SomeIn
    <2>2. QED
      BY <2>1 DEF Adds
  <1>3. (CHOOSE h : P(h)) = (CHOOSE h : Adds(h, g, S))
    BY <1>2
  <1>4. QED
    BY <1>1, <1>3, SumIs

\* ... and of their top-ups.
LEMMA TopUpOfPeople ==
  ASSUME NEW q, NEW S, NEW g, \A x \in S : g[x] = AverageCheck(Resolved(Alone(q, x))).topup
  PROVE  TeamTopUp(q, S) = SumOf(g, S)
  <1> DEFINE P(h) == h = [s \in SUBSET S |->
                           IF s = {} THEN 0 ELSE AverageCheck(Resolved(Alone(q, OneOf(s)))).topup + h[s \ {OneOf(s)}]]
  <1>1. TeamTopUp(q, S) = (CHOOSE h : P(h))[S]
    BY DEF TeamTopUp, Total, MapThenSumSet, MapThenFoldSet, OneOf
  <1>2. \A h : P(h) <=> Adds(h, g, S)
    <2>1. \A s \in SUBSET S : s # {} => g[OneOf(s)] = AverageCheck(Resolved(Alone(q, OneOf(s)))).topup
      BY SomeIn
    <2>2. QED
      BY <2>1 DEF Adds
  <1>3. (CHOOSE h : P(h)) = (CHOOSE h : Adds(h, g, S))
    BY <1>2
  <1>4. QED
    BY <1>1, <1>3, SumIs

\* Questions about branches and people that exist.
AQuestion == [from : Int, to : Int, co : Branches \cup {Null}, limited : BOOLEAN, allowed : SUBSET Branches,
              sel : [kind : {"all", "one", "group"}, ids : SUBSET Staff]]

\* A resolved question sees the branches of the question.
LEMMA ResolvedIs ==
  ASSUME NEW q \in AQuestion
  PROVE  /\ Resolved(q).from = q.from /\ Resolved(q).to = q.to /\ Resolved(q).sel = q.sel
         /\ \A c : InScope(Resolved(q), c) <=> (q.co = Null \/ c = q.co) /\ c \in CompanyIds(q)
         /\ CompanyIds(q) \subseteq Branches /\ IsFiniteSet(CompanyIds(q))
  <1> USE MirrorAssumption DEF AQuestion
  <1> DEFINE C == CompanyIds(q)
  <1>1. C \subseteq Branches
    <2>1. \A s \in q.sel.ids \cap Staff : WorksAt[s] \in Branches
      OBVIOUS
    <2>2. QED
      BY <2>1 DEF CompanyIds
  <1> HIDE DEF C
  <1>2. Resolved(q) = [q EXCEPT !.limited = TRUE, !.allowed = C]
    BY DEF Resolved, C
  <1>3. /\ Resolved(q).from = q.from /\ Resolved(q).to = q.to /\ Resolved(q).sel = q.sel /\ Resolved(q).co = q.co
        /\ Resolved(q).limited /\ Resolved(q).allowed = C
    BY <1>2
  <1>4. \A c : InScope(Resolved(q), c) <=> (q.co = Null \/ c = q.co) /\ c \in C
    BY <1>3 DEF InScope
  <1>5. QED
    BY <1>1, <1>3, <1>4, FS_Subset DEF C

\* A network's money and visits are those of its branches.
LEMMA BranchesAddUp ==
  ASSUME RowsInv, NEW q \in AQuestion, Everybody(q), q.co = Null
  PROVE  LET check(x) == AverageCheck(Resolved(x))
             of(b) == check([q EXCEPT !.co = b])
         IN  /\ check(q).revenue = Total(LAMBDA b : of(b).revenue, CompanyIds(q))
             /\ check(q).appointments = Total(LAMBDA b : of(b).appointments, CompanyIds(q))
  <1> DEFINE C == CompanyIds(q)
             Q == Resolved(q)
             B(b) == Resolved([q EXCEPT !.co = b])
             svc == [b \in C |-> PairAmount(PaidServices(B(b)))]
             gds == [b \in C |-> Amount(GoodsPayments(B(b)))]
             top == [b \in C |-> Amount(TopUpPayments(B(b)))]
             two == [b \in C |-> svc[b] + gds[b]]
             rev == [b \in C |-> AverageCheck(B(b)).revenue]
             vis == [b \in C |-> AverageCheck(B(b)).appointments]
  <1>1. /\ C \subseteq Branches /\ IsFiniteSet(C)
        /\ Q.from = q.from /\ Q.to = q.to /\ Q.sel = q.sel /\ \A c : InScope(Q, c) <=> c \in C
    BY ResolvedIs
  <1>2. ASSUME NEW b \in C
        PROVE  /\ B(b).from = Q.from /\ B(b).to = Q.to /\ B(b).sel = Q.sel
               /\ \A c : InScope(B(b), c) <=> InScope(Q, c) /\ c = b
    <2> DEFINE x == [q EXCEPT !.co = b]
    <2>1. x \in AQuestion /\ x.co = b /\ b # Null /\ x.from = q.from /\ x.to = q.to /\ x.sel = q.sel
          /\ x.limited = q.limited /\ x.allowed = q.allowed
      BY <1>1, MirrorAssumption DEF AQuestion
    <2>2. b \in CompanyIds(x)
      BY <1>2, <2>1 DEF CompanyIds, Everybody
    <2> HIDE DEF x
    <2>3. /\ Resolved(x).from = q.from /\ Resolved(x).to = q.to /\ Resolved(x).sel = q.sel
          /\ \A c : InScope(Resolved(x), c) <=> c = b /\ c \in CompanyIds(x)
      BY <2>1, ResolvedIs
    <2>4. QED
      BY <1>1, <1>2, <2>2, <2>3 DEF x
  <1>3. ASSUME NEW b \in C
        PROVE  /\ CompletedVisits(B(b)) = {v \in CompletedVisits(Q) : v.co = b}
               /\ PaidServices(B(b)) = {x \in PaidServices(Q) : x[2].co = b}
               /\ GoodsPayments(B(b)) = {p \in GoodsPayments(Q) : p.co = b}
               /\ TopUpPayments(B(b)) = {p \in TopUpPayments(Q) : p.co = b}
    <2> HIDE DEF B, Q, C
    <2>1. QED
      BY <1>2, OneBranch
  <1> HIDE DEF B, Q, C
  <1>4. /\ CompletedVisits(Q) \subseteq visits /\ \A v \in CompletedVisits(Q) : v.co \in C
        /\ PaidServices(Q) \subseteq PaidVisits /\ \A x \in PaidServices(Q) : x[2].co \in C
        /\ GoodsPayments(Q) \subseteq payments /\ \A p \in GoodsPayments(Q) : p.co \in C
        /\ TopUpPayments(Q) \subseteq payments /\ \A p \in TopUpPayments(Q) : p.co \in C
    BY <1>1, RowsOfFigures, PaidVisitsAre
  <1>5. PairAmount(PaidServices(Q)) = SumOf(svc, C) /\ \A b \in C : svc[b] \in Int
    <2> DEFINE key == [x \in PaidServices(Q) |-> x[2].co]
    <2>1. /\ \A x \in PaidServices(Q) : key[x] \in C
          /\ \A b \in C : svc[b] = PairAmount(Filed(PaidServices(Q), key, b))
      <3>1. \A b \in C : Filed(PaidServices(Q), key, b) = {x \in PaidServices(Q) : x[2].co = b}
        BY DEF Filed
      <3>2. QED
        BY <1>3, <1>4, <3>1
    <2> HIDE DEF key, svc
    <2>2. QED
      BY <1>1, <1>4, <2>1, PairAmountParts
  <1>6. Amount(GoodsPayments(Q)) = SumOf(gds, C) /\ \A b \in C : gds[b] \in Int
    <2> DEFINE key == [p \in GoodsPayments(Q) |-> p.co]
    <2>1. /\ \A p \in GoodsPayments(Q) : key[p] \in C
          /\ \A b \in C : gds[b] = Amount(Filed(GoodsPayments(Q), key, b))
      <3>1. \A b \in C : Filed(GoodsPayments(Q), key, b) = {p \in GoodsPayments(Q) : p.co = b}
        BY DEF Filed
      <3>2. QED
        BY <1>3, <1>4, <3>1
    <2> HIDE DEF key, gds
    <2>2. QED
      BY <1>1, <1>4, <2>1, AmountParts
  <1>7. Amount(TopUpPayments(Q)) = SumOf(top, C) /\ \A b \in C : top[b] \in Int
    <2> DEFINE key == [p \in TopUpPayments(Q) |-> p.co]
    <2>1. /\ \A p \in TopUpPayments(Q) : key[p] \in C
          /\ \A b \in C : top[b] = Amount(Filed(TopUpPayments(Q), key, b))
      <3>1. \A b \in C : Filed(TopUpPayments(Q), key, b) = {p \in TopUpPayments(Q) : p.co = b}
        BY DEF Filed
      <3>2. QED
        BY <1>3, <1>4, <3>1
    <2> HIDE DEF key, top
    <2>2. QED
      BY <1>1, <1>4, <2>1, AmountParts
  <1>8. AverageCheck(Q).appointments = SumOf(vis, C)
    <2> DEFINE key == [v \in CompletedVisits(Q) |-> v.co]
    <2>1. /\ \A v \in CompletedVisits(Q) : key[v] \in C
          /\ \A b \in C : vis[b] = Cardinality(Filed(CompletedVisits(Q), key, b))
      <3>1. \A b \in C : Filed(CompletedVisits(Q), key, b) = {v \in CompletedVisits(Q) : v.co = b}
        BY DEF Filed
      <3>2. \A b \in C : vis[b] = Cardinality(CompletedVisits(B(b)))
        BY CheckIs
      <3> HIDE DEF vis
      <3>3. QED
        BY <1>3, <1>4, <3>1, <3>2
    <2> HIDE DEF key, vis
    <2>2. IsFiniteSet(CompletedVisits(Q))
      BY <1>4, FS_Subset DEF RowsInv
    <2>3. QED
      BY <1>1, <2>1, <2>2, CountFiles, CheckIs
  <1>9. AverageCheck(Q).revenue = SumOf(rev, C)
    <2>1. \A b \in C : two[b] = svc[b] + gds[b]
      OBVIOUS
    <2>2. \A b \in C : rev[b] = two[b] + top[b]
      BY CheckIs
    <2> HIDE DEF svc, gds, top, two, rev
    <2>3. Summable(svc, C) /\ Summable(gds, C) /\ Summable(top, C) /\ Summable(two, C)
      BY <1>1, <1>5, <1>6, <1>7, <2>1 DEF Summable
    <2>4. SumOf(rev, C) = SumOf(two, C) + SumOf(top, C) /\ SumOf(two, C) = SumOf(svc, C) + SumOf(gds, C)
      BY <2>1, <2>2, <2>3, SumAdd
    <2>5. AverageCheck(Q).revenue = SumOf(svc, C) + SumOf(gds, C) + SumOf(top, C)
      BY <1>5, <1>6, <1>7, CheckIs
    <2>6. QED
      BY <2>4, <2>5
  <1>10. BranchRevenue(q, C) = SumOf(rev, C)
    <2>1. \A b \in C : rev[b] = AverageCheck(Resolved([q EXCEPT !.co = b])).revenue
      BY DEF B
    <2> HIDE DEF rev
    <2>2. QED
      BY <2>1, RevenueOfBranches
  <1>11. BranchVisits(q, C) = SumOf(vis, C)
    <2>1. \A b \in C : vis[b] = AverageCheck(Resolved([q EXCEPT !.co = b])).appointments
      BY DEF B
    <2> HIDE DEF vis
    <2>2. QED
      BY <2>1, VisitsOfBranches
  <1>12. QED
    <2> HIDE DEF svc, gds, top, two, rev, vis
    <2>1. QED
      BY <1>8, <1>9, <1>10, <1>11 DEF Q, C, BranchRevenue, BranchVisits

\* What a group earned is what its people earned.
LEMMA PeopleAddUp ==
  ASSUME RowsInv, NEW q \in AQuestion, q.co = Null, NEW T \in SUBSET Staff
  PROVE  LET check(x) == AverageCheck(Resolved(x))
             whole == check(InGroup(q, T))
         IN  /\ whole.service = Total(LAMBDA s : check(Alone(q, s)).service, T)
             /\ whole.goods = Total(LAMBDA s : check(InGroup(q, {s})).goods, T)
             /\ whole.topup = Total(LAMBDA s : check(Alone(q, s)).topup, T)
  <1> DEFINE G == Resolved(InGroup(q, T))
             A(s) == Resolved(Alone(q, s))
             O(s) == Resolved(InGroup(q, {s}))
             svc == [s \in T |-> AverageCheck(A(s)).service]
             gds == [s \in T |-> AverageCheck(O(s)).goods]
             top == [s \in T |-> AverageCheck(A(s)).topup]
             home == {WorksAt[s] : s \in T}
             open == IF q.limited THEN q.allowed ELSE Branches
  <1>1. IsFiniteSet(T) /\ home \subseteq Branches
    BY FS_Subset, MirrorAssumption
  <1>2. /\ InGroup(q, T) \in AQuestion /\ InGroup(q, T).co = Null /\ InGroup(q, T).sel = [kind |-> "group", ids |-> T]
        /\ InGroup(q, T).from = q.from /\ InGroup(q, T).to = q.to
        /\ InGroup(q, T).limited = q.limited /\ InGroup(q, T).allowed = q.allowed
    BY DEF InGroup, AQuestion
  <1>3. \A s \in T :
          /\ InGroup(q, {s}) \in AQuestion /\ InGroup(q, {s}).co = Null
          /\ InGroup(q, {s}).sel = [kind |-> "group", ids |-> {s}]
          /\ InGroup(q, {s}).from = q.from /\ InGroup(q, {s}).to = q.to
          /\ InGroup(q, {s}).limited = q.limited /\ InGroup(q, {s}).allowed = q.allowed
    BY DEF InGroup, AQuestion
  <1>4. \A s \in T :
          /\ Alone(q, s) \in AQuestion /\ Alone(q, s).co = Null
          /\ Alone(q, s).sel = [kind |-> "one", ids |-> {s}]
          /\ Alone(q, s).from = q.from /\ Alone(q, s).to = q.to
          /\ Alone(q, s).limited = q.limited /\ Alone(q, s).allowed = q.allowed
    BY DEF Alone, AQuestion
  <1>5. \A c : c \in CompanyIds(InGroup(q, T)) <=> c \in home /\ c \in open
    <2>1. \A c \in home : InScope(InGroup(q, T), c) <=> c \in open
      BY <1>1, <1>2 DEF InScope
    <2>2. T \cap Staff = T
      OBVIOUS
    <2>3. QED
      BY <1>2, <2>1, <2>2 DEF CompanyIds
  <1>6. \A s \in T : \A c : c \in CompanyIds(InGroup(q, {s})) <=> c = WorksAt[s] /\ c \in open
    <2>1. ASSUME NEW s \in T, NEW c
          PROVE  c \in CompanyIds(InGroup(q, {s})) <=> c = WorksAt[s] /\ c \in open
      <3> DEFINE x == InGroup(q, {s})
      <3>0. x.co = Null /\ x.sel = [kind |-> "group", ids |-> {s}] /\ x.limited = q.limited /\ x.allowed = q.allowed
        BY <1>3
      <3> HIDE DEF x
      <3>1. x.co = Null /\ x.sel.kind = "group" /\ x.sel.ids = {s} /\ x.limited = q.limited /\ x.allowed = q.allowed
        BY <3>0
      <3>2. {WorksAt[y] : y \in x.sel.ids \cap Staff} = {WorksAt[s]} /\ WorksAt[s] \in Branches
        BY <1>1, <3>1
      <3>3. CompanyIds(x) = {b \in {WorksAt[s]} : InScope(x, b)}
        BY <3>1, <3>2 DEF CompanyIds
      <3>4. InScope(x, WorksAt[s]) <=> WorksAt[s] \in open
        BY <3>1, <3>2 DEF InScope
      <3>5. c \in CompanyIds(x) <=> c = WorksAt[s] /\ c \in open
        BY <3>3, <3>4
      <3>6. QED
        BY <3>5 DEF x
    <2>2. QED
      BY <2>1
  <1>7. \A s \in T : \A c : c \in CompanyIds(Alone(q, s)) <=> c = WorksAt[s] /\ c \in open
    <2>1. ASSUME NEW s \in T, NEW c
          PROVE  c \in CompanyIds(Alone(q, s)) <=> c = WorksAt[s] /\ c \in open
      <3> DEFINE x == Alone(q, s)
      <3>0. x.co = Null /\ x.sel = [kind |-> "one", ids |-> {s}] /\ x.limited = q.limited /\ x.allowed = q.allowed
        BY <1>4
      <3> HIDE DEF x
      <3>1. x.co = Null /\ x.sel.kind = "one" /\ x.sel.ids = {s} /\ x.limited = q.limited /\ x.allowed = q.allowed
        BY <3>0
      <3>2. {WorksAt[y] : y \in x.sel.ids \cap Staff} = {WorksAt[s]}
        BY <3>1
      <3>3. CompanyIds(x) = {WorksAt[s]} \cap open
        BY <3>1, <3>2 DEF CompanyIds
      <3>4. c \in CompanyIds(x) <=> c = WorksAt[s] /\ c \in open
        BY <3>3
      <3>5. QED
        BY <3>4 DEF x
    <2>2. QED
      BY <2>1
  <1>8. G.from = q.from /\ G.to = q.to /\ G.sel = [kind |-> "group", ids |-> T]
        /\ \A c : InScope(G, c) <=> c \in home /\ c \in open
    BY <1>2, <1>5, ResolvedIs
  <1>9. ASSUME NEW s \in T
        PROVE  /\ PaidServices(A(s)) = {x \in PaidServices(G) : x[3].staff = s}
               /\ GoodsPayments(O(s)) = {p \in GoodsPayments(G) : Attributed(p) = s}
               /\ TopUpPayments(A(s)) = {p \in TopUpPayments(G) : Attributed(p) = s}
    <2>1. A(s).from = G.from /\ A(s).to = G.to /\ A(s).sel = [kind |-> "one", ids |-> {s}]
          /\ \A c : InScope(A(s), c) <=> c = WorksAt[s] /\ c \in open
      BY <1>4, <1>7, <1>8, ResolvedIs
    <2>2. O(s).from = G.from /\ O(s).to = G.to /\ O(s).sel = [kind |-> "group", ids |-> {s}]
          /\ \A c : InScope(O(s), c) <=> c = WorksAt[s] /\ c \in open
      BY <1>3, <1>6, <1>8, ResolvedIs
    <2>3. s \in Staff /\ WorksAt[s] \in home
      OBVIOUS
    <2>4. \A c : c = WorksAt[s] /\ c \in open <=> InScope(G, c) /\ c = WorksAt[s]
      BY <1>8, <2>3
    <2>5. G.sel.kind # "all" /\ s \in G.sel.ids
      BY <1>8
    <2>6. A(s).sel.kind # "all" /\ A(s).sel.ids = {s} /\ O(s).sel.kind # "all" /\ O(s).sel.ids = {s}
      BY <2>1, <2>2
    <2> HIDE DEF A, O, G, home, open
    <2>7. /\ PaidServices(A(s)) = {x \in PaidServices(G) : x[3].staff = s}
          /\ TopUpPayments(A(s)) = {p \in TopUpPayments(G) : Attributed(p) = s}
      <3>1. \A c : InScope(A(s), c) <=> InScope(G, c) /\ c = WorksAt[s]
        BY <2>1, <2>4
      <3>2. A(s).from = G.from /\ A(s).to = G.to
        BY <2>1
      <3>3. QED
        BY <2>3, <2>5, <2>6, <3>1, <3>2, OnePerson
    <2>8. GoodsPayments(O(s)) = {p \in GoodsPayments(G) : Attributed(p) = s}
      <3>1. \A c : InScope(O(s), c) <=> InScope(G, c) /\ c = WorksAt[s]
        BY <2>2, <2>4
      <3>2. O(s).from = G.from /\ O(s).to = G.to
        BY <2>2
      <3>3. QED
        BY <2>3, <2>5, <2>6, <3>1, <3>2, OnePerson
    <2>9. QED
      BY <2>7, <2>8
  <1> HIDE DEF A, O, home, open
  <1>10. /\ PaidServices(G) \subseteq PaidVisits /\ \A x \in PaidServices(G) : x[3].staff \in T
         /\ GoodsPayments(G) \subseteq payments /\ \A p \in GoodsPayments(G) : Attributed(p) \in T
         /\ TopUpPayments(G) \subseteq payments /\ \A p \in TopUpPayments(G) : Attributed(p) \in T
    <2>1. G.sel.kind # "all" /\ G.sel.ids = T
      BY <1>8
    <2> HIDE DEF G
    <2>2. QED
      BY <2>1, RowsOfFigures DEF PaidServices, GoodsPayments, TopUpPayments, Credited, Chosen
  <1> HIDE DEF G
  <1>11. PairAmount(PaidServices(G)) = SumOf(svc, T)
    <2> DEFINE key == [x \in PaidServices(G) |-> x[3].staff]
    <2>1. \A s \in T : svc[s] = PairAmount(PaidServices(A(s)))
      BY CheckIs
    <2>2. \A s \in T : Filed(PaidServices(G), key, s) = {x \in PaidServices(G) : x[3].staff = s}
      BY DEF Filed
    <2>3. \A x \in PaidServices(G) : key[x] \in T
      BY <1>10
    <2> HIDE DEF key, svc
    <2>4. \A s \in T : svc[s] = PairAmount(Filed(PaidServices(G), key, s))
      BY <1>9, <2>1, <2>2
    <2>5. QED
      BY <1>1, <1>10, <2>3, <2>4, PairAmountParts
  <1>12. Amount(GoodsPayments(G)) = SumOf(gds, T)
    <2> DEFINE key == [p \in GoodsPayments(G) |-> Attributed(p)]
    <2>1. \A s \in T : gds[s] = Amount(GoodsPayments(O(s)))
      BY CheckIs
    <2>2. \A s \in T : Filed(GoodsPayments(G), key, s) = {p \in GoodsPayments(G) : Attributed(p) = s}
      BY DEF Filed
    <2>3. \A p \in GoodsPayments(G) : key[p] \in T
      BY <1>10
    <2> HIDE DEF key, gds
    <2>4. \A s \in T : gds[s] = Amount(Filed(GoodsPayments(G), key, s))
      BY <1>9, <2>1, <2>2
    <2>5. QED
      BY <1>1, <1>10, <2>3, <2>4, AmountParts
  <1>13. Amount(TopUpPayments(G)) = SumOf(top, T)
    <2> DEFINE key == [p \in TopUpPayments(G) |-> Attributed(p)]
    <2>1. \A s \in T : top[s] = Amount(TopUpPayments(A(s)))
      BY CheckIs
    <2>2. \A s \in T : Filed(TopUpPayments(G), key, s) = {p \in TopUpPayments(G) : Attributed(p) = s}
      BY DEF Filed
    <2>3. \A p \in TopUpPayments(G) : key[p] \in T
      BY <1>10
    <2> HIDE DEF key, top
    <2>4. \A s \in T : top[s] = Amount(Filed(TopUpPayments(G), key, s))
      BY <1>9, <2>1, <2>2
    <2>5. QED
      BY <1>1, <1>10, <2>3, <2>4, AmountParts
  <1>14. TeamService(q, T) = SumOf(svc, T)
    <2>1. \A s \in T : svc[s] = AverageCheck(Resolved(Alone(q, s))).service
      BY DEF A
    <2> HIDE DEF svc
    <2>2. QED
      BY <2>1, ServiceOfPeople
  <1>15. TeamGoods(q, T) = SumOf(gds, T)
    <2>1. \A s \in T : gds[s] = AverageCheck(Resolved(InGroup(q, {s}))).goods
      BY DEF O
    <2> HIDE DEF gds
    <2>2. QED
      BY <2>1, GoodsOfPeople
  <1>16. TeamTopUp(q, T) = SumOf(top, T)
    <2>1. \A s \in T : top[s] = AverageCheck(Resolved(Alone(q, s))).topup
      BY DEF A
    <2> HIDE DEF top
    <2>2. QED
      BY <2>1, TopUpOfPeople
  <1> HIDE DEF svc, gds, top
  <1>17. /\ AverageCheck(G).service = TeamService(q, T) /\ AverageCheck(G).goods = TeamGoods(q, T)
         /\ AverageCheck(G).topup = TeamTopUp(q, T)
    BY <1>11, <1>12, <1>13, <1>14, <1>15, <1>16, CheckIs
  <1>18. QED
    BY <1>17 DEF G, TeamService, TeamGoods, TeamTopUp

\* Nobody earns nothing.
LEMMA NobodyEarns ==
  ASSUME RowsInv, NEW q \in AQuestion
  PROVE  AverageCheck(Resolved(InGroup(q, {}))).revenue = 0
  <1> DEFINE N == Resolved(InGroup(q, {}))
             g == [x \in {} |-> 0]
  <1>1. InGroup(q, {}) \in AQuestion /\ InGroup(q, {}).sel = [kind |-> "group", ids |-> {}]
    BY DEF InGroup, AQuestion
  <1>2. CompanyIds(InGroup(q, {})) = {}
    BY <1>1 DEF CompanyIds
  <1>3. \A c : ~InScope(N, c)
    BY <1>1, <1>2, ResolvedIs
  <1> HIDE DEF N
  <1>4. PaidServices(N) = {} /\ GoodsPayments(N) = {} /\ TopUpPayments(N) = {}
    BY <1>3, RowsOfFigures
  <1>5. Summable(g, {}) /\ \A x \in {} : g[x] = x.amount /\ g[x] = x[2].amount
    BY FS_EmptySet DEF Summable
  <1> HIDE DEF g
  <1>6. PairAmount({}) = 0 /\ Amount({}) = 0
    BY <1>5, PairAmountIs, AmountIs, SumStep
  <1>7. QED
    BY <1>4, <1>6, CheckIs DEF N

\* A network is the sum of its branches and a group of its people (PartsAddUp), whatever is mirrored.
THEOREM NetworksAddUp == RSpec => []PartsAddUp
  <1>1. RowsInv => PartsAddUp
    <2> SUFFICES ASSUME RowsInv, NEW q \in {x \in Questions : Everybody(x) /\ x.co = Null}
                 PROVE  LET check(x) == AverageCheck(Resolved(x))
                            of(b) == check([q EXCEPT !.co = b])
                            team == {s \in Staff : Business(s)}
                            whole == check(InGroup(q, team))
                        IN  /\ check(q).revenue = Total(LAMBDA b : of(b).revenue, CompanyIds(q))
                            /\ check(q).appointments = Total(LAMBDA b : of(b).appointments, CompanyIds(q))
                            /\ whole.service = Total(LAMBDA s : check(Alone(q, s)).service, team)
                            /\ whole.goods = Total(LAMBDA s : check(InGroup(q, {s})).goods, team)
                            /\ whole.topup = Total(LAMBDA s : check(Alone(q, s)).topup, team)
                            /\ check(InGroup(q, {})).revenue = 0
      BY DEF PartsAddUp
    <2>1. q \in AQuestion /\ Everybody(q) /\ q.co = Null
      BY QuestionsAssumption DEF AQuestion
    <2> DEFINE team == {s \in Staff : Business(s)}
    <2>2. team \in SUBSET Staff
      OBVIOUS
    <2>3. LET check(x) == AverageCheck(Resolved(x))
              of(b) == check([q EXCEPT !.co = b])
          IN  /\ check(q).revenue = Total(LAMBDA b : of(b).revenue, CompanyIds(q))
              /\ check(q).appointments = Total(LAMBDA b : of(b).appointments, CompanyIds(q))
      BY <2>1, BranchesAddUp
    <2>4. LET check(x) == AverageCheck(Resolved(x))
              whole == check(InGroup(q, team))
          IN  /\ whole.service = Total(LAMBDA s : check(Alone(q, s)).service, team)
              /\ whole.goods = Total(LAMBDA s : check(InGroup(q, {s})).goods, team)
              /\ whole.topup = Total(LAMBDA s : check(Alone(q, s)).topup, team)
      BY <2>1, <2>2, PeopleAddUp
    <2>5. AverageCheck(Resolved(InGroup(q, {}))).revenue = 0
      BY <2>1, NobodyEarns
    <2>6. QED
      BY <2>3, <2>4, <2>5
  <1>2. QED
    BY <1>1, RowsInvariant, PTL

-----------------------------------------------------------------------------
(* What was paid, by account, branch and month.                            *)

Names == {"cash", "cashless", "other"}

\* A sum by bucket.
LEMMA SumOfNames ==
  ASSUME NEW s, \A n \in Names : s[n] \in Int
  PROVE  SumOf(s, Names) = s["cash"] + s["cashless"] + s["other"]
  <1>1. Names = {"cash"} \cup {"cashless"} \cup {"other"}
    BY DEF Names
  <1>2. IsFiniteSet(Names)
    <2>1. IsFiniteSet({"cash"} \cup {"cashless"})
      BY FS_Singleton, FS_AddElement
    <2>2. QED
      BY <1>1, <2>1, FS_AddElement
  <1>3. \A T \in SUBSET Names : Summable(s, T)
    BY <1>2, FS_Subset DEF Summable
  <1>4. SumOf(s, {"cash"}) = s["cash"]
    BY <1>1, SumOfOne
  <1> DEFINE two == {"cash", "cashless"}
  <1>5. two \in SUBSET Names /\ "cashless" \in two /\ two \ {"cashless"} = {"cash"}
        /\ "other" \in Names /\ Names \ {"other"} = two
    BY DEF Names
  <1> HIDE DEF two
  <1>6. SumOf(s, two) = s["cashless"] + SumOf(s, two \ {"cashless"})
    BY <1>3, <1>5, SumRemove
  <1>7. SumOf(s, Names) = s["other"] + SumOf(s, Names \ {"other"})
    BY <1>3, <1>5, SumRemove
  <1>8. SumOf(s, two) = s["cashless"] + s["cash"]
    BY <1>4, <1>5, <1>6
  <1>9. SumOf(s, Names) = s["other"] + (s["cashless"] + s["cash"])
    BY <1>5, <1>7, <1>8
  <1>10. s["cash"] \in Int /\ s["cashless"] \in Int /\ s["other"] \in Int
    BY DEF Names
  <1>11. QED
    BY <1>9, <1>10

\* The keys of a row and a bucket.
NamedIn(K, of, i, n) == {k \in K : of[k] = i /\ k[3] = n}

\* Keys that each end in a bucket, row by row: a row tells its three buckets.
RowByRow(K, amt, I, of, w, named) ==
  /\ Summable(amt, K) /\ IsFiniteSet(I)
  /\ \A k \in K : k[3] \in Names
  /\ \A k \in K : of[k] \in I
  /\ \A i \in I, n \in Names : named[<<i, n>>] = SumOf(amt, NamedIn(K, of, i, n))
  /\ \A i \in I : w[i] = named[<<i, "cash">>] + named[<<i, "cashless">>] + named[<<i, "other">>]

\* A sum over such keys is the sum over the rows.
LEMMA SumByRow ==
  ASSUME NEW K, NEW amt, NEW I, NEW of, NEW w, NEW named, RowByRow(K, amt, I, of, w, named)
  PROVE  /\ SumOf(amt, K) = SumOf(w, I)
         /\ \A i \in I : w[i] \in Int /\ \A n \in Names : named[<<i, n>>] \in Int
  <1> USE DEF RowByRow
  <1>1. \A T \in SUBSET K : Summable(amt, T) /\ SumOf(amt, T) \in Int
    <2>1. \A T \in SUBSET K : Summable(amt, T)
      BY FS_Subset DEF Summable
    <2>2. QED
      BY <2>1, SumStep
  <1> DEFINE part == [i \in I |-> {k \in K : of[k] = i}]
  <1>2. ASSUME NEW i \in I
        PROVE  w[i] = SumOf(amt, part[i]) /\ w[i] \in Int /\ \A n \in Names : named[<<i, n>>] \in Int
    <2> DEFINE s == [n \in Names |-> named[<<i, n>>]]
               piece == [n \in Names |-> NamedIn(K, of, i, n)]
    <2>1. /\ \A n \in Names : piece[n] \subseteq part[i] /\ s[n] = SumOf(amt, piece[n]) /\ piece[n] \in SUBSET K
          /\ \A n \in Names, m \in Names : n # m => piece[n] \cap piece[m] = {}
          /\ \A k \in part[i] : \E n \in Names : k \in piece[n]
          /\ part[i] \in SUBSET K
      BY DEF NamedIn
    <2>2. IsFiniteSet(Names)
      <3>1. Names = {"cash"} \cup {"cashless"} \cup {"other"}
        BY DEF Names
      <3>2. QED
        BY <3>1, FS_Singleton, FS_AddElement
    <2>3. \A n \in Names : s[n] = named[<<i, n>>]
      OBVIOUS
    <2> HIDE DEF s, piece, part
    <2>4. \A n \in Names : s[n] \in Int
      BY <1>1, <2>1
    <2>5. SumOf(amt, part[i]) = SumOf(s, Names)
      <3> DEFINE P == part[i]
      <3>1. Summable(amt, P) /\ \A k \in P : \E n \in Names : k \in piece[n]
        BY <1>1, <2>1
      <3>2. \A n \in Names : piece[n] \subseteq P /\ s[n] = SumOf(amt, piece[n])
        BY <2>1
      <3> HIDE DEF P
      <3>3. SumOf(amt, P) = SumOf(s, Names)
        BY <2>1, <2>2, <3>1, <3>2, SumParts
      <3>4. QED
        BY <3>3 DEF P
    <2>6. SumOf(s, Names) = s["cash"] + s["cashless"] + s["other"]
      BY <2>4, SumOfNames
    <2>7. "cash" \in Names /\ "cashless" \in Names /\ "other" \in Names
      BY DEF Names
    <2>8. w[i] = s["cash"] + s["cashless"] + s["other"]
      BY <2>3, <2>7
    <2>9. w[i] \in Int
      BY <2>4, <2>7, <2>8
    <2>10. QED
      BY <2>3, <2>4, <2>5, <2>6, <2>8, <2>9
  <1>3. /\ \A i \in I : part[i] \subseteq K
        /\ \A i \in I, j \in I : i # j => part[i] \cap part[j] = {}
        /\ \A k \in K : \E i \in I : k \in part[i]
    OBVIOUS
  <1> HIDE DEF part
  <1>4. SumOf(amt, K) = SumOf(w, I)
    BY <1>2, <1>3, SumParts
  <1>5. QED
    BY <1>2, <1>4

-----------------------------------------------------------------------------
(* The calendar, windows and typed totals.                                 *)

\* The greatest day of some days.
LEMMA GreatestIn ==
  ASSUME NEW n \in Nat, NEW S \in SUBSET (1..n), S # {}
  PROVE  \E m \in S : \A k \in S : k <= m
  <1> DEFINE T == {n - k : k \in S}
  <1>1. T \in SUBSET Nat /\ T # {}
    <2>1. \A k \in S : k \in 1..n
      OBVIOUS
    <2>2. \A k \in S : n - k \in Nat
      BY <2>1
    <2>3. QED
      BY <2>2
  <1>2. PICK t \in T : \A u \in T : t <= u
    <2> HIDE DEF T
    <2>1. QED
      BY <1>1, LeastIn
  <1>3. PICK m \in S : t = n - m
    OBVIOUS
  <1>4. \A k \in S : k \in Nat /\ m \in Nat /\ n - m <= n - k
    BY <1>2, <1>3
  <1>5. QED
    BY <1>4

\* A month has a first and a last day, and all its days lie between them.
LEMMA MonthDays ==
  ASSUME NEW m \in Months
  PROVE  /\ FirstDay(m) \in DaysOf(m) /\ LastDay(m) \in DaysOf(m)
         /\ \A d \in DaysOf(m) : FirstDay(m) <= d /\ d <= LastDay(m)
  <1> DEFINE n == Len(MonthOf)
             S == DaysOf(m)
  <1>1. n \in Nat /\ Days = 1..n
    BY CalendarAssumption DEF Days
  <1>2. S \in SUBSET (1..n) /\ S # {} /\ S \in SUBSET Nat
    BY <1>1 DEF DaysOf, Months
  <1> HIDE DEF n, S
  <1>3. \E x \in S : \A k \in S : x <= k
    BY <1>2, LeastIn
  <1>4. \E x \in S : \A k \in S : k <= x
    BY <1>1, <1>2, GreatestIn
  <1>5. Min(S) \in S /\ \A d \in S : Min(S) <= d
    BY <1>3 DEF Min
  <1>6. Max(S) \in S /\ \A d \in S : Max(S) >= d
    <2>1. \E x \in S : \A k \in S : x >= k
      BY <1>2, <1>4
    <2>2. QED
      BY <2>1 DEF Max
  <1>7. \A d \in S : d \in Nat
    BY <1>2
  <1>8. QED
    BY <1>5, <1>6, <1>7 DEF S, FirstDay, LastDay

\* Days are numbers, and lie in their months.
LEMMA DaysAre ==
  /\ Days \subseteq Nat /\ \A d \in Days : 1 <= d /\ MonthOf[d] \in Nat /\ MonthOf[d] \in Months
                                           /\ d \in DaysOf(MonthOf[d])
  /\ \A d \in Days, e \in Days : \A x \in Nat : d <= x /\ x <= e => x \in Days
  <1> DEFINE n == Len(MonthOf)
  <1>1. n \in Nat /\ Days = 1..n
    BY CalendarAssumption DEF Days
  <1>2. \A d \in Days : MonthOf[d] \in Nat
    BY CalendarAssumption DEF Days
  <1>3. QED
    BY <1>1, <1>2 DEF Months, DaysOf

\* The later, and the sooner, of two days.
LEMMA OfTwo ==
  ASSUME NEW a \in Int, NEW b \in Int
  PROVE  Max({a, b}) = (IF a >= b THEN a ELSE b) /\ Min({a, b}) = (IF a <= b THEN a ELSE b)
  <1>1. Max({a, b}) \in {a, b} /\ \A x \in {a, b} : Max({a, b}) >= x
    <2>1. \E x \in {a, b} : \A y \in {a, b} : x >= y
      OBVIOUS
    <2>2. QED
      BY <2>1 DEF Max
  <1>2. Min({a, b}) \in {a, b} /\ \A x \in {a, b} : Min({a, b}) <= x
    <2>1. \E x \in {a, b} : \A y \in {a, b} : x <= y
      OBVIOUS
    <2>2. QED
      BY <2>1 DEF Min
  <1>3. QED
    BY <1>1, <1>2

\* What holds of the clock, the windows and the typed totals.
TypedInv ==
  /\ now \in FirstNow..LastNow
  /\ window \in [Branches -> [from : Nat, to : Nat]]
  /\ \A p \in payments : p.day \in Days
  /\ IsFiniteSet(entered)
  /\ \A e \in entered : /\ e.co \in Branches /\ e.month \in Months
                        /\ e.amount \in Int /\ e.through \in Nat /\ e.through <= Today

\* Today is a day.
LEMMA TodayIs ==
  ASSUME now \in FirstNow..LastNow
  PROVE  Today \in Days /\ Today \in Nat
  <1>1. FirstNow \in Nat /\ LastNow \in Nat /\ DayOf(FirstNow) \in Days /\ DayOf(LastNow) \in Days
    BY CalendarAssumption
  <1>2. now \in Nat /\ DayOf(now) \in Nat /\ DayOf(FirstNow) <= DayOf(now) /\ DayOf(now) <= DayOf(LastNow)
    <2>1. now \in Nat /\ FirstNow <= now /\ now <= LastNow
      BY <1>1
    <2>2. \A k \in Nat, l \in Nat : k <= l => k \div 2 <= l \div 2
      OBVIOUS
    <2>3. \A k \in Nat : k \div 2 \in Nat
      OBVIOUS
    <2>4. QED
      BY <1>1, <2>1, <2>2, <2>3 DEF DayOf
  <1>3. QED
    BY <1>1, <1>2, DaysAre DEF Today

\* A running month is entered up to yesterday, a finished one up to its end.
LEMMA ThroughBy ==
  ASSUME now \in FirstNow..LastNow, NEW m \in Months, m <= MonthOf[Today]
  PROVE  DefaultThrough(m) \in Nat /\ DefaultThrough(m) <= Today
  <1>1. Today \in Days /\ Today \in Nat /\ 1 <= Today /\ MonthOf[Today] \in Nat /\ Today \in DaysOf(MonthOf[Today])
    BY TodayIs, DaysAre
  <1>2. FirstDay(m) \in Days /\ LastDay(m) \in Days /\ MonthOf[FirstDay(m)] = m /\ m \in Nat
    <2>1. FirstDay(m) \in DaysOf(m) /\ LastDay(m) \in DaysOf(m)
      BY MonthDays
    <2>2. FirstDay(m) \in Days /\ LastDay(m) \in Days /\ MonthOf[FirstDay(m)] = m
      BY <2>1 DEF DaysOf
    <2>3. QED
      BY <2>2, DaysAre
  <1>3. FirstDay(m) \in Nat /\ LastDay(m) \in Nat
    BY <1>2, DaysAre
  <1>4. FirstDay(m) <= Today
    <2>1. CASE FirstDay(m) > Today
      <3>1. MonthOf[Today] <= m
        BY <1>1, <1>2, <1>3, <2>1, CalendarAssumption
      <3>2. MonthOf[Today] = m
        BY <1>1, <1>2, <3>1
      <3>3. Today \in DaysOf(m)
        BY <1>1, <3>2
      <3>4. QED
        BY <3>3, MonthDays
    <2>2. QED
      BY <1>1, <1>3, <2>1
  <1>5. Max({FirstDay(m), Today - 1}) \in Nat /\ Max({FirstDay(m), Today - 1}) <= Today
    <2>1. Today - 1 \in Nat /\ FirstDay(m) \in Int
      BY <1>1, <1>3
    <2>2. QED
      BY <1>1, <1>3, <1>4, <2>1, OfTwo
  <1>6. QED
    BY <1>1, <1>3, <1>5 DEF DefaultThrough

\* A typed total reaches no day that was not over.
LEMMA SavedIs ==
  ASSUME TypedInv, NEW c \in Typed, SaveYandexPay(c)
  PROVE  /\ IsFiniteSet(entered')
         /\ \A e \in entered' : /\ e.co \in Branches /\ e.month \in Months
                                /\ e.amount \in Int /\ e.through \in Nat /\ e.through <= Today
  <1> DEFINE rest == {e \in entered : ~(e.co = c.co /\ e.month = c.month)}
             new == [c EXCEPT !.through = IF @ = Null THEN DefaultThrough(c.month) ELSE @]
             added == IF c.amount = Null THEN {} ELSE {new}
  <1>1. entered' = rest \cup added
    BY DEF SaveYandexPay
  <1>2. c \in [co : Branches, month : Months, amount : Nat, through : Nat]
    BY TypedAssumption
  <1>3. c.co \in Branches /\ c.month \in Months /\ c.amount \in Nat /\ c.through \in Nat
    BY <1>2
  <1>4. new.co = c.co /\ new.month = c.month /\ new.amount = c.amount
        /\ new.through = IF c.through = Null THEN DefaultThrough(c.month) ELSE c.through
    BY <1>2
  <1>5. c.month <= MonthOf[Today] /\ (c.through = Null \/ c.through <= Today)
    BY DEF SaveYandexPay
  <1>6. DefaultThrough(c.month) \in Nat /\ DefaultThrough(c.month) <= Today
    BY <1>3, <1>5, ThroughBy DEF TypedInv
  <1>7. new.through \in Nat /\ new.through <= Today
    BY <1>3, <1>4, <1>5, <1>6
  <1>8. rest \subseteq entered /\ IsFiniteSet(rest)
    BY FS_Subset DEF TypedInv
  <1>9. IsFiniteSet(added) /\ added \subseteq {new}
    <2> HIDE DEF new
    <2>1. QED
      BY FS_EmptySet, FS_Singleton
  <1> HIDE DEF rest, added, new
  <1>10. IsFiniteSet(entered')
    BY <1>1, <1>8, <1>9, FS_Union
  <1>11. \A e \in entered' : e \in entered \/ e = new
    BY <1>1, <1>8, <1>9
  <1>12. \A e \in entered' : /\ e.co \in Branches /\ e.month \in Months
                             /\ e.amount \in Int /\ e.through \in Nat /\ e.through <= Today
    BY <1>3, <1>4, <1>7, <1>11 DEF TypedInv
  <1>13. QED
    BY <1>10, <1>12

\* Every step keeps the clock, the windows and the typed totals in order.
LEMMA TypedStep ==
  ASSUME TypedInv, RNext
  PROVE  TypedInv'
  <1>1. ASSUME UNCHANGED <<payments, window, now, entered>> PROVE TypedInv'
    BY <1>1 DEF TypedInv, Today
  <1>2. ASSUME NEW t \in Transfers, MirrorTransfer(t), UNCHANGED entered PROVE TypedInv'
    <2>1. payments' \subseteq payments \cup {t} /\ UNCHANGED <<window, now>>
      BY <1>2 DEF MirrorTransfer
    <2>2. t.day \in Days
      BY MirrorAssumption
    <2>3. QED
      BY <1>2, <2>1, <2>2 DEF TypedInv, Today
  <1>3. ASSUME NEW b \in Branches, NEW w \in Bounds, SetReportingWindow(b, w), UNCHANGED entered PROVE TypedInv'
    <2>1. window' = [window EXCEPT ![b] = w] /\ UNCHANGED <<payments, now>>
      BY <1>3 DEF SetReportingWindow
    <2>2. w \in [from : Nat, to : Nat]
      BY MirrorAssumption
    <2>3. window' \in [Branches -> [from : Nat, to : Nat]]
      BY <2>1, <2>2 DEF TypedInv
    <2>4. QED
      BY <1>3, <2>1, <2>3 DEF TypedInv, Today
  <1>4. ASSUME Tick, UNCHANGED entered PROVE TypedInv'
    <2>1. now' = now + 1 /\ now' \in FirstNow..LastNow /\ UNCHANGED <<payments, window>> /\ now \in Nat
      BY <1>4, CalendarAssumption DEF Tick, TypedInv
    <2>2. now \div 2 <= (now + 1) \div 2 /\ now \div 2 \in Nat /\ (now + 1) \div 2 \in Nat
      BY <2>1
    <2>3. Today <= Today' /\ Today \in Nat /\ Today' \in Nat
      BY <2>1, <2>2 DEF Today, DayOf
    <2>4. \A e \in entered : e.through \in Nat /\ e.through <= Today'
      BY <2>3 DEF TypedInv
    <2>5. QED
      BY <1>4, <2>1, <2>4 DEF TypedInv
  <1>5. ASSUME NEW c \in Typed, SaveYandexPay(c), UNCHANGED fvars PROVE TypedInv'
    <2>1. UNCHANGED <<payments, window, now>>
      BY <1>5 DEF fvars
    <2>2. QED
      BY <1>5, <2>1, SavedIs DEF TypedInv, Today
  <1>6. ASSUME NEW r \in Records, MirrorRecord(r), UNCHANGED entered PROVE TypedInv'
    BY <1>1, <1>6 DEF MirrorRecord
  <1>7. ASSUME NEW v \in visits, PurgeVisit(v), UNCHANGED entered PROVE TypedInv'
    BY <1>1, <1>7 DEF PurgeVisit
  <1>8. ASSUME NEW g \in Moves, MirrorMove(g), UNCHANGED entered PROVE TypedInv'
    BY <1>1, <1>8 DEF MirrorMove
  <1>9. ASSUME NEW b \in Branches, NEW s \in Sources, NEW c \in Ranges, MarkCovered(b, s, c), UNCHANGED entered
        PROVE  TypedInv'
    BY <1>1, <1>9 DEF MarkCovered
  <1>10. ASSUME NEW batch \in LabelChanges, SaveLabels(batch, Branches), UNCHANGED entered PROVE TypedInv'
    BY <1>1, <1>10 DEF SaveLabels, mvars
  <1>11. QED
    BY <1>2, <1>3, <1>4, <1>5, <1>6, <1>7, <1>8, <1>9, <1>10 DEF RNext, FNext

\* Whatever is mirrored and entered, they stay in order.
LEMMA TypedInvariant == RSpec => []TypedInv
  <1>1. RInit => TypedInv
    <2> SUFFICES ASSUME RInit PROVE TypedInv
      OBVIOUS
    <2>1. now = FirstNow /\ window = [b \in Branches |-> NoBound] /\ payments = {} /\ entered = {}
      BY DEF RInit, FInit, MirrorInit
    <2>2. FirstNow \in FirstNow..LastNow
      BY CalendarAssumption
    <2>3. window \in [Branches -> [from : Nat, to : Nat]]
      BY <2>1 DEF NoBound, Null
    <2>4. QED
      BY <2>1, <2>2, <2>3, FS_EmptySet DEF TypedInv
  <1>2. TypedInv /\ [RNext]_rvars => TypedInv'
    <2>1. CASE UNCHANGED rvars
      BY <2>1 DEF rvars, TypedInv, Today
    <2>2. QED
      BY <2>1, TypedStep
  <1>3. QED
    BY <1>1, <1>2, PTL DEF RSpec

\* The account of a payment: its branch, month and bucket, and what a question earned there.
Key(p) == <<p.co, MonthOf[p.day], Bucket(p)>>
Earned(q, k) ==
  PairAmount({x \in PaidServices(q) : Key(x[2]) = k}) + Amount({p \in GoodsPayments(q) : Key(p) = k})
    + Amount({p \in TopUpPayments(q) : Key(p) = k})
AnyStaff(q) == [q EXCEPT !.sel = [kind |-> "all", ids |-> {}], !.co = Null]

\* Everybody's question asks every branch it resolves to.
LEMMA EverybodysRows ==
  ASSUME NEW q \in AQuestion, Everybody(q), NEW r, r = Resolved(q)
  PROVE  /\ CompanyIds(r) = CompanyIds(q) /\ \A c : InScope(r, c) <=> c \in CompanyIds(q)
         /\ PaidServices(AnyStaff(r)) = PaidServices(r) /\ GoodsPayments(AnyStaff(r)) = GoodsPayments(r)
         /\ TopUpPayments(AnyStaff(r)) = TopUpPayments(r)
         /\ r.from = q.from /\ r.to = q.to
  <1> DEFINE C == CompanyIds(q)
             all == AnyStaff(r)
  <1>1. q.sel.kind = "all" /\ q.co \in Branches \cup {Null}
    BY DEF Everybody, AQuestion
  <1>2. C \subseteq (IF q.co = Null THEN C ELSE {q.co})
    BY <1>1 DEF CompanyIds
  <1>3. /\ r = [q EXCEPT !.limited = TRUE, !.allowed = C]
        /\ r.co = q.co /\ r.sel = q.sel /\ r.from = q.from /\ r.to = q.to /\ r.limited /\ r.allowed = C
    BY DEF Resolved, AQuestion
  <1>4. /\ all.co = Null /\ all.sel = [kind |-> "all", ids |-> {}] /\ all.from = r.from /\ all.to = r.to
        /\ all.limited /\ all.allowed = C
    BY <1>3 DEF AnyStaff, AQuestion
  <1> HIDE DEF C, all
  <1>5. \A c : (InScope(r, c) <=> c \in C) /\ (InScope(all, c) <=> c \in C)
    BY <1>2, <1>3, <1>4 DEF InScope
  <1>6. CompanyIds(r) = C
    <2>1. CompanyIds(r) = IF q.co = Null THEN C ELSE {q.co} \cap C
      BY <1>1, <1>3 DEF CompanyIds
    <2>2. QED
      BY <1>2, <2>1
  <1>7. \A s : Chosen(r, s) /\ Chosen(all, s)
    BY <1>1, <1>3, <1>4 DEF Chosen
  <1>8. \A p : Credited(r, p) /\ Credited(all, p)
    BY <1>1, <1>3, <1>4 DEF Credited
  <1>9. \A d : Within(d, all) <=> Within(d, r)
    BY <1>4 DEF Within
  <1>10. PaidServices(all) = PaidServices(r)
    BY <1>5, <1>7, <1>9 DEF PaidServices
  <1>11. DirectPayments(all) = DirectPayments(r)
    BY <1>5, <1>9 DEF DirectPayments
  <1>12. GoodsPayments(all) = GoodsPayments(r) /\ TopUpPayments(all) = TopUpPayments(r)
    BY <1>8, <1>11 DEF GoodsPayments, TopUpPayments
  <1>13. QED
    BY <1>3, <1>5, <1>6, <1>10, <1>12 DEF C, all

\* The revenue by account is what was earned in each account.
LEMMA AccountsAre ==
  ASSUME NEW q \in AQuestion, Everybody(q), NEW r, r = Resolved(q)
  PROVE  RevenueByAccount(r) = {[key |-> k, amount |-> Earned(r, k)] : k \in CompanyIds(q) \X Months \X Names}
  <1>1. /\ CompanyIds(r) = CompanyIds(q)
        /\ PaidServices(AnyStaff(r)) = PaidServices(r) /\ GoodsPayments(AnyStaff(r)) = GoodsPayments(r)
        /\ TopUpPayments(AnyStaff(r)) = TopUpPayments(r)
    BY EverybodysRows
  <1>2. RevenueByAccount(r) =
          {[key |-> k, amount |-> PairAmount({x \in PaidServices(AnyStaff(r)) : Key(x[2]) = k})
                                  + Amount({p \in GoodsPayments(AnyStaff(r)) : Key(p) = k})
                                  + Amount({p \in TopUpPayments(AnyStaff(r)) : Key(p) = k})]
           : k \in CompanyIds(r) \X Months \X Names}
    BY DEF RevenueByAccount, AnyStaff, Key, Names
  <1>3. QED
    BY <1>1, <1>2 DEF Earned

\* A payment of the period is filed under a branch with a column and a month of the period.
LEMMA PaidKeys ==
  ASSUME RowsInv, TypedInv, NEW q \in AQuestion, Everybody(q), NEW r, r = Resolved(q)
  PROVE  /\ \A x \in PaidServices(r) : Key(x[2]) \in Columns(r) \X MonthsIn(r) \X Names
         /\ \A p \in GoodsPayments(r) : Key(p) \in Columns(r) \X MonthsIn(r) \X Names
         /\ \A p \in TopUpPayments(r) : Key(p) \in Columns(r) \X MonthsIn(r) \X Names
  <1>1. /\ CompanyIds(r) = CompanyIds(q) /\ \A c : InScope(r, c) <=> c \in CompanyIds(q)
        /\ r.from = q.from /\ r.to = q.to /\ r.from \in Int /\ r.to \in Int
    BY EverybodysRows DEF AQuestion
  <1>2. CompanyIds(q) \subseteq Branches
    BY ResolvedIs
  <1>3. ASSUME NEW p \in payments, p.co \in CompanyIds(q), Within(p.day, r), Reported(p.co, p.day)
        PROVE  Key(p) \in Columns(r) \X MonthsIn(r) \X Names
    <2> DEFINE d == p.day
               m == MonthOf[d]
               w == window[p.co]
    <2>1. d \in Days /\ d \in Nat /\ m \in Months /\ d \in DaysOf(m)
      BY DaysAre DEF TypedInv
    <2>2. r.from <= d /\ d <= r.to
      BY <1>3 DEF Within
    <2>3. w \in [from : Nat, to : Nat] /\ Covers(w, d)
      BY <1>2, <1>3 DEF TypedInv, Reported
    <2>4. FirstDay(m) <= d /\ d <= LastDay(m) /\ FirstDay(m) \in Int /\ LastDay(m) \in Int
      <3> HIDE DEF d, m
      <3>1. FirstDay(m) <= d /\ d <= LastDay(m) /\ FirstDay(m) \in DaysOf(m) /\ LastDay(m) \in DaysOf(m)
        BY <2>1, MonthDays
      <3>2. FirstDay(m) \in Days /\ LastDay(m) \in Days
        BY <3>1 DEF DaysOf
      <3>3. FirstDay(m) \in Nat /\ LastDay(m) \in Nat
        BY <3>2, DaysAre
      <3>4. QED
        BY <3>1, <3>3
    <2>5. m \in MonthsIn(r)
      BY <1>1, <2>1, <2>2, <2>4 DEF MonthsIn
    <2>6. Meets(w, r).from <= d /\ d <= Meets(w, r).to /\ Meets(w, r).from \in Int /\ Meets(w, r).to \in Int
      <3>1. w.from \in Int /\ w.to \in Int /\ (w.from = Null \/ d >= w.from) /\ (w.to = Null \/ d <= w.to)
        BY <2>3 DEF Covers
      <3>2. /\ Max({r.from, w.from}) = (IF r.from >= w.from THEN r.from ELSE w.from)
            /\ Min({r.to, w.to}) = (IF r.to <= w.to THEN r.to ELSE w.to)
        BY <1>1, <3>1, OfTwo
      <3> HIDE DEF d, m, w
      <3>3. QED
        BY <1>1, <2>1, <2>2, <3>1, <3>2 DEF Meets
    <2>7. p.co \in Columns(r)
      BY <1>1, <1>3, <2>1, <2>6 DEF Columns, Empty
    <2>8. Bucket(p) \in Names
      BY DEF Bucket, Names
    <2>9. QED
      BY <2>5, <2>7, <2>8 DEF Key
  <1>4. \A x \in PaidServices(r) : x[2] \in payments /\ x[2].co \in CompanyIds(q)
                                   /\ Within(x[2].day, r) /\ Reported(x[2].co, x[2].day)
    BY <1>1, PaidVisitsAre DEF PaidServices
  <1>5. \A p \in GoodsPayments(r) \cup TopUpPayments(r) :
          p \in payments /\ p.co \in CompanyIds(q) /\ Within(p.day, r) /\ Reported(p.co, p.day)
    BY <1>1 DEF GoodsPayments, TopUpPayments, DirectPayments
  <1>6. QED
    BY <1>3, <1>4, <1>5

\* The revenue is the sum of what was earned in the accounts.
LEMMA RevenueOfAccounts ==
  ASSUME RowsInv, NEW r, NEW K, IsFiniteSet(K),
         \A x \in PaidServices(r) : Key(x[2]) \in K,
         \A p \in GoodsPayments(r) : Key(p) \in K, \A p \in TopUpPayments(r) : Key(p) \in K,
         NEW amt, \A k \in K : amt[k] = Earned(r, k)
  PROVE  AverageCheck(r).revenue = SumOf(amt, K) /\ Summable(amt, K)
  <1> DEFINE V == PaidServices(r)
             G == GoodsPayments(r)
             T == TopUpPayments(r)
             svc == [k \in K |-> PairAmount({x \in V : Key(x[2]) = k})]
             gds == [k \in K |-> Amount({p \in G : Key(p) = k})]
             top == [k \in K |-> Amount({p \in T : Key(p) = k})]
             two == [k \in K |-> svc[k] + gds[k]]
  <1>1. V \in SUBSET PaidVisits /\ G \in SUBSET payments /\ T \in SUBSET payments
    BY RowsOfFigures
  <1>2. \A k \in K : amt[k] = two[k] + top[k] /\ two[k] = svc[k] + gds[k]
    BY DEF Earned
  <1> HIDE DEF two
  <1>3. PairAmount(V) = SumOf(svc, K) /\ PairAmount(V) \in Int /\ \A k \in K : svc[k] \in Int
    <2> DEFINE key == [x \in V |-> Key(x[2])]
    <2>1. \A x \in V : key[x] \in K
      OBVIOUS
    <2>2. \A k \in K : Filed(V, key, k) = {x \in V : Key(x[2]) = k}
      BY DEF Filed
    <2>3. \A k \in K : svc[k] = PairAmount(Filed(V, key, k))
      BY <2>2
    <2> HIDE DEF key, svc, V
    <2>4. QED
      BY <1>1, <2>1, <2>3, PairAmountParts
  <1>4. Amount(G) = SumOf(gds, K) /\ Amount(G) \in Int /\ \A k \in K : gds[k] \in Int
    <2> DEFINE key == [p \in G |-> Key(p)]
    <2>1. \A p \in G : key[p] \in K
      OBVIOUS
    <2>2. \A k \in K : Filed(G, key, k) = {p \in G : Key(p) = k}
      BY DEF Filed
    <2>3. \A k \in K : gds[k] = Amount(Filed(G, key, k))
      BY <2>2
    <2> HIDE DEF key, gds, G
    <2>4. QED
      BY <1>1, <2>1, <2>3, AmountParts
  <1>5. Amount(T) = SumOf(top, K) /\ Amount(T) \in Int /\ \A k \in K : top[k] \in Int
    <2> DEFINE key == [p \in T |-> Key(p)]
    <2>1. \A p \in T : key[p] \in K
      OBVIOUS
    <2>2. \A k \in K : Filed(T, key, k) = {p \in T : Key(p) = k}
      BY DEF Filed
    <2>3. \A k \in K : top[k] = Amount(Filed(T, key, k))
      BY <2>2
    <2> HIDE DEF key, top, T
    <2>4. QED
      BY <1>1, <2>1, <2>3, AmountParts
  <1>6. AverageCheck(r).revenue = PairAmount(V) + Amount(G) + Amount(T)
    BY CheckIs
  <1> HIDE DEF V, G, T, svc, gds, top
  <1>7. \A k \in K : two[k] \in Int /\ amt[k] \in Int
    BY <1>2, <1>3, <1>4, <1>5
  <1>8. Summable(svc, K) /\ Summable(gds, K) /\ Summable(top, K) /\ Summable(two, K) /\ Summable(amt, K)
    BY <1>3, <1>4, <1>5, <1>7 DEF Summable
  <1>9. SumOf(amt, K) = SumOf(two, K) + SumOf(top, K) /\ SumOf(two, K) = SumOf(svc, K) + SumOf(gds, K)
    BY <1>2, <1>8, SumAdd
  <1>10. QED
    BY <1>3, <1>4, <1>5, <1>6, <1>8, <1>9

\* What the accounts of some keys hold.
LEMMA AccountsHold ==
  ASSUME NEW q \in AQuestion, Everybody(q), NEW r, r = Resolved(q),
         NEW A \in SUBSET (CompanyIds(q) \X Months \X Names), NEW amt, Summable(amt, A),
         \A k \in A : amt[k] = Earned(r, k)
  PROVE  Amount({row \in RevenueByAccount(r) : row.key \in A}) = SumOf(amt, A)
  <1> DEFINE row == [k \in A |-> [key |-> k, amount |-> Earned(r, k)]]
             R == {row[k] : k \in A}
             g == [x \in R |-> x.amount]
  <1>1. {x \in RevenueByAccount(r) : x.key \in A} = R
    <2>1. \A x \in RevenueByAccount(r) : \E k : x = [key |-> k, amount |-> Earned(r, k)]
      BY AccountsAre
    <2>2. \A x \in RevenueByAccount(r) : x.key \in A => x \in R
      BY <2>1
    <2>3. \A k \in A : [key |-> k, amount |-> Earned(r, k)] \in RevenueByAccount(r)
      BY AccountsAre
    <2>4. QED
      BY <2>2, <2>3
  <1>2. \A x \in R : g[x] = x.amount
    OBVIOUS
  <1>3. \A k \in A : row[k] \in R /\ row[k].key = k /\ row[k].amount = amt[k] /\ amt[k] \in Int
    BY DEF Summable
  <1>4. IsFiniteSet(A)
    BY DEF Summable
  <1> HIDE DEF g, row
  <1>5. \A k \in A : g[row[k]] = amt[k]
    BY <1>2, <1>3
  <1>6. \A k \in A, l \in A : row[k] = row[l] => k = l
    BY <1>3
  <1>7. SumOf(g, R) = SumOf(amt, A)
    BY <1>3, <1>4, <1>5, <1>6, SumOfRows
  <1>8. Amount(R) = SumOf(g, R)
    BY <1>2, AmountIs
  <1>9. QED
    BY <1>1, <1>7, <1>8

-----------------------------------------------------------------------------
(* The payment report.                                                     *)

\* What the payment report shows of a column, and of a month, by bucket ...
InColumn(q, b, name) == Amount({x \in RevenueByAccount(q) : x.key[1] = b /\ x.key[3] = name})
InMonth(q, m, name) ==
  Amount({x \in RevenueByAccount(q) : x.key[1] \in Columns(q) /\ x.key[2] = m /\ x.key[3] = name})

\* ... which typed totals it takes out of the cashless money, by column and by month ...
CountedIn(q, b) == IF Applied(q, b) THEN Entries(b, CoveredMonths(q, b)) ELSE {}
CountedOf(q, m) ==
  {e \in UNION {Entries(b, {m}) : b \in Columns(q)} : q.from <= FirstDay(m) /\ e.through <= q.to}
MissingIn(q, b) ==
  {m \in CoveredMonths(q, b) : /\ Applied(q, b) /\ m <= MonthOf[Today]
                               /\ m \notin {e.month : e \in Entries(b, Months)}}

\* ... and the sums over its rows.
PaidInAll(rows) == Total(LAMBDA row : row.cash + row.cashless + row.yandex + row.other, rows)
YandexInAll(rows) == Total(LAMBDA row : row.yandex, rows)

ColumnRow(q, b) ==
  [co |-> b, cash |-> InColumn(q, b, "cash"), other |-> InColumn(q, b, "other"), counted |-> CountedIn(q, b),
   yandex |-> Amount(CountedIn(q, b)), cashless |-> InColumn(q, b, "cashless") - Amount(CountedIn(q, b)),
   missing |-> MissingIn(q, b)]
MonthsRow(q, m) ==
  [month |-> m, cash |-> InMonth(q, m, "cash"), other |-> InMonth(q, m, "other"), yandex |-> Amount(CountedOf(q, m)),
   cashless |-> InMonth(q, m, "cashless") - Amount(CountedOf(q, m))]

\* The report is these rows.
LEMMA ReportIs ==
  ASSUME NEW q
  PROVE  /\ PaymentTable(q) = {ColumnRow(q, b) : b \in Columns(q)}
         /\ PaymentTrend(q) = {MonthsRow(q, m) : m \in MonthsIn(q)}
  <1>1. PaymentTable(q) = {ColumnRow(q, b) : b \in Columns(q)}
    BY DEF PaymentTable, ColumnRow, InColumn, CountedIn, MissingIn, Amount
  <1>2. PaymentTrend(q) = {MonthsRow(q, m) : m \in MonthsIn(q)}
    BY DEF PaymentTrend, MonthsRow, InMonth, CountedOf, Amount
  <1>3. QED
    BY <1>1, <1>2

\* Its sums as sums of a function.
LEMMA PaidInAllIs ==
  ASSUME NEW S, NEW g, \A x \in S : g[x] = x.cash + x.cashless + x.yandex + x.other
  PROVE  PaidInAll(S) = SumOf(g, S)
  <1> DEFINE P(h) == h = [s \in SUBSET S |->
                           IF s = {} THEN 0
                           ELSE (OneOf(s).cash + OneOf(s).cashless + OneOf(s).yandex + OneOf(s).other)
                                + h[s \ {OneOf(s)}]]
  <1>1. PaidInAll(S) = (CHOOSE h : P(h))[S]
    BY DEF PaidInAll, Total, MapThenSumSet, MapThenFoldSet, OneOf
  <1>2. \A h : P(h) <=> Adds(h, g, S)
    <2>1. \A s \in SUBSET S : s # {} =>
            g[OneOf(s)] = OneOf(s).cash + OneOf(s).cashless + OneOf(s).yandex + OneOf(s).other
      BY SomeIn
    <2>2. QED
      BY <2>1 DEF Adds
  <1>3. (CHOOSE h : P(h)) = (CHOOSE h : Adds(h, g, S))
    BY <1>2
  <1>4. QED
    BY <1>1, <1>3, SumIs

\* The same of the typed totals.
LEMMA YandexInAllIs ==
  ASSUME NEW S, NEW g, \A x \in S : g[x] = x.yandex
  PROVE  YandexInAll(S) = SumOf(g, S)
  <1> DEFINE P(h) == h = [s \in SUBSET S |-> IF s = {} THEN 0 ELSE OneOf(s).yandex + h[s \ {OneOf(s)}]]
  <1>1. YandexInAll(S) = (CHOOSE h : P(h))[S]
    BY DEF YandexInAll, Total, MapThenSumSet, MapThenFoldSet, OneOf
  <1>2. \A h : P(h) <=> Adds(h, g, S)
    <2>1. \A s \in SUBSET S : s # {} => g[OneOf(s)] = OneOf(s).yandex
      BY SomeIn
    <2>2. QED
      BY <2>1 DEF Adds
  <1>3. (CHOOSE h : P(h)) = (CHOOSE h : Adds(h, g, S))
    BY <1>2
  <1>4. QED
    BY <1>1, <1>3, SumIs

\* Typed totals add up as they are divided.
LEMMA EnteredParts ==
  ASSUME TypedInv, NEW S \in SUBSET entered, NEW K, IsFiniteSet(K), NEW key, NEW s,
         \A e \in S : key[e] \in K, \A i \in K : s[i] = Amount(Filed(S, key, i))
  PROVE  Amount(S) = SumOf(s, K) /\ Amount(S) \in Int /\ \A i \in K : s[i] \in Int
  <1> DEFINE g == [e \in entered |-> e.amount]
             part == [i \in K |-> Filed(S, key, i)]
  <1>1. \A T \in SUBSET entered : Summable(g, T) /\ Amount(T) = SumOf(g, T) /\ SumOf(g, T) \in Int
    <2>1. \A e \in entered : g[e] = e.amount /\ g[e] \in Int
      BY DEF TypedInv
    <2> HIDE DEF g
    <2>2. \A T \in SUBSET entered : Summable(g, T)
      BY <2>1, FS_Subset DEF TypedInv, Summable
    <2>3. \A T \in SUBSET entered : Amount(T) = SumOf(g, T)
      BY <2>1, AmountIs
    <2>4. \A T \in SUBSET entered : SumOf(g, T) \in Int
      BY <2>2, SumStep
    <2>5. QED
      BY <2>2, <2>3, <2>4
  <1> HIDE DEF g
  <1>2. \A i \in K : part[i] \subseteq S /\ s[i] = SumOf(g, part[i]) /\ s[i] \in Int
    <2>1. ASSUME NEW i \in K PROVE part[i] \subseteq S /\ s[i] = SumOf(g, part[i]) /\ s[i] \in Int
      <3>1. part[i] \in SUBSET entered /\ part[i] \subseteq S /\ s[i] = Amount(part[i])
        BY DEF Filed
      <3> HIDE DEF part
      <3>2. QED
        BY <1>1, <3>1
    <2>2. QED
      BY <2>1
  <1>3. /\ \A i \in K, j \in K : i # j => part[i] \cap part[j] = {}
        /\ \A x \in S : \E i \in K : x \in part[i]
    BY DEF Filed
  <1> HIDE DEF part
  <1>4. SumOf(g, S) = SumOf(s, K)
    BY <1>1, <1>2, <1>3, SumParts
  <1>5. SumOf(g, S) \in Int
    BY <1>1, SumStep
  <1>6. QED
    BY <1>1, <1>2, <1>4, <1>5

\* Any typed totals are a whole amount.
LEMMA EnteredIsInt ==
  ASSUME TypedInv, NEW S \in SUBSET entered
  PROVE  Amount(S) \in Int
  <1> DEFINE key == [e \in S |-> 0]
             s == [i \in {0} |-> Amount(Filed(S, key, i))]
  <1>1. IsFiniteSet({0}) /\ (\A e \in S : key[e] \in {0}) /\ \A i \in {0} : s[i] = Amount(Filed(S, key, i))
    BY FS_Singleton
  <1> HIDE DEF key, s
  <1>2. QED
    BY <1>1, EnteredParts

\* There are finitely many months.
LEMMA MonthsFinite == IsFiniteSet(Months)
  <1>1. Len(MonthOf) \in Nat /\ Days = 1..Len(MonthOf)
    BY CalendarAssumption DEF Days
  <1>2. IsFiniteSet(Days)
    BY <1>1, FS_Interval
  <1>3. QED
    BY <1>2, ImageFinite DEF Months

\* Columns are branches of the question, and typed totals counted are stored ones.
LEMMA ColumnsAre ==
  ASSUME NEW q \in AQuestion, Everybody(q), NEW r, r = Resolved(q)
  PROVE  /\ Columns(r) \subseteq CompanyIds(q) /\ CompanyIds(q) \subseteq Branches /\ IsFiniteSet(Columns(r))
         /\ MonthsIn(r) \subseteq Months /\ IsFiniteSet(MonthsIn(r))
         /\ \A b : CountedIn(r, b) \subseteq entered
         /\ \A m : CountedOf(r, m) \subseteq entered
  <1>1. Columns(r) \subseteq CompanyIds(q)
    BY EverybodysRows DEF Columns
  <1>2. CompanyIds(q) \subseteq Branches /\ IsFiniteSet(CompanyIds(q))
    BY ResolvedIs
  <1>3. MonthsIn(r) \subseteq Months
    BY DEF MonthsIn
  <1>4. (\A b : CountedIn(r, b) \subseteq entered) /\ \A m : CountedOf(r, m) \subseteq entered
    BY DEF CountedIn, CountedOf, Entries
  <1>5. IsFiniteSet(Columns(r)) /\ IsFiniteSet(MonthsIn(r))
    BY <1>1, <1>2, <1>3, MonthsFinite, FS_Subset
  <1>6. QED
    BY <1>1, <1>2, <1>3, <1>4, <1>5

\* The fields of the rows.
LEMMA RowsAre ==
  ASSUME NEW q, NEW i
  PROVE  /\ ColumnRow(q, i).co = i /\ ColumnRow(q, i).cash = InColumn(q, i, "cash")
         /\ ColumnRow(q, i).cashless = InColumn(q, i, "cashless") - Amount(CountedIn(q, i))
         /\ ColumnRow(q, i).yandex = Amount(CountedIn(q, i)) /\ ColumnRow(q, i).other = InColumn(q, i, "other")
         /\ MonthsRow(q, i).month = i /\ MonthsRow(q, i).cash = InMonth(q, i, "cash")
         /\ MonthsRow(q, i).cashless = InMonth(q, i, "cashless") - Amount(CountedOf(q, i))
         /\ MonthsRow(q, i).yandex = Amount(CountedOf(q, i)) /\ MonthsRow(q, i).other = InMonth(q, i, "other")
         /\ ColumnRow(q, i).counted = CountedIn(q, i) /\ ColumnRow(q, i).missing = MissingIn(q, i)
  BY DEF ColumnRow, MonthsRow

\* There are three buckets.
LEMMA NamesFinite == IsFiniteSet(Names)
  <1>1. Names = {"cash"} \cup {"cashless"} \cup {"other"}
    BY DEF Names
  <1>2. QED
    BY <1>1, FS_Singleton, FS_AddElement

\* The triples of finite sets are finitely many.
LEMMA TriplesFinite ==
  ASSUME NEW A, NEW B, NEW C, IsFiniteSet(A), IsFiniteSet(B), IsFiniteSet(C)
  PROVE  IsFiniteSet(A \X B \X C)
  <1> DEFINE P == (A \X B) \X C
             f == [x \in P |-> <<x[1][1], x[1][2], x[2]>>]
             S == {f[x] : x \in P}
  <1>1. IsFiniteSet(P)
    BY FS_Product
  <1>2. A \X B \X C \subseteq S
    <2>1. ASSUME NEW a \in A, NEW b \in B, NEW c \in C PROVE <<a, b, c>> \in S
      <3>1. <<<<a, b>>, c>> \in P /\ f[<<<<a, b>>, c>>] = <<a, b, c>>
        OBVIOUS
      <3>2. QED
        BY <3>1
    <2> HIDE DEF S
    <2>2. QED
      BY <2>1
  <1> HIDE DEF P, f
  <1>3. IsFiniteSet(S)
    BY <1>1, ImageFinite
  <1>4. QED
    BY <1>2, <1>3, FS_Subset

\* The table makes up the revenue: a typed total only moves money within its row.
LEMMA TableAddsUp ==
  ASSUME RowsInv, TypedInv, NEW q \in AQuestion, Everybody(q), NEW r, r = Resolved(q)
  PROVE  AverageCheck(r).revenue = PaidInAll(PaymentTable(r))
  <1> DEFINE C == Columns(r)
             K == C \X Months \X Names
             amt == [k \in K |-> Earned(r, k)]
             of == [k \in K |-> k[1]]
             named == [x \in C \X Names |-> InColumn(r, x[1], x[2])]
             w == [b \in C |-> InColumn(r, b, "cash") + InColumn(r, b, "cashless") + InColumn(r, b, "other")]
             row == [b \in C |-> ColumnRow(r, b)]
             S == {row[b] : b \in C}
             g == [x \in S |-> x.cash + x.cashless + x.yandex + x.other]
  <1>1. /\ C \subseteq CompanyIds(q) /\ IsFiniteSet(C) /\ MonthsIn(r) \subseteq Months
        /\ \A b : CountedIn(r, b) \subseteq entered
    BY ColumnsAre
  <1>2. IsFiniteSet(K)
    BY <1>1, MonthsFinite, NamesFinite, TriplesFinite
  <1>3. /\ \A x \in PaidServices(r) : Key(x[2]) \in K
        /\ \A p \in GoodsPayments(r) : Key(p) \in K
        /\ \A p \in TopUpPayments(r) : Key(p) \in K
    BY <1>1, PaidKeys
  <1>4. \A k \in K : amt[k] = Earned(r, k)
    OBVIOUS
  <1>5. AverageCheck(r).revenue = SumOf(amt, K) /\ Summable(amt, K)
    <2> HIDE DEF K, amt
    <2>1. QED
      BY <1>2, <1>3, <1>4, RevenueOfAccounts
  <1>6. \A b \in C, n \in Names : named[<<b, n>>] = SumOf(amt, NamedIn(K, of, b, n))
    <2>1. ASSUME NEW b \in C, NEW n \in Names
          PROVE  named[<<b, n>>] = SumOf(amt, NamedIn(K, of, b, n))
      <3> DEFINE A == NamedIn(K, of, b, n)
      <3>1. A \in SUBSET (CompanyIds(q) \X Months \X Names) /\ A \in SUBSET K
        BY <1>1 DEF NamedIn
      <3>2. {x \in RevenueByAccount(r) : x.key[1] = b /\ x.key[3] = n} = {x \in RevenueByAccount(r) : x.key \in A}
        <4>1. \A x \in RevenueByAccount(r) : x.key \in CompanyIds(q) \X Months \X Names
          BY AccountsAre
        <4>2. \A k \in CompanyIds(q) \X Months \X Names : k[1] = b /\ k[3] = n <=> k \in A
          BY <1>1 DEF NamedIn
        <4> HIDE DEF A
        <4>3. QED
          BY <4>1, <4>2
      <3>3. Summable(amt, A)
        BY <1>5, <3>1, FS_Subset DEF Summable
      <3>4. named[<<b, n>>] = InColumn(r, b, n)
        OBVIOUS
      <3> HIDE DEF A, named, amt, K
      <3>5. \A k \in A : amt[k] = Earned(r, k)
        BY <1>4, <3>1
      <3>6. Amount({x \in RevenueByAccount(r) : x.key \in A}) = SumOf(amt, A)
        BY <3>1, <3>3, <3>5, AccountsHold
      <3>7. InColumn(r, b, n) = SumOf(amt, A)
        BY <3>2, <3>6 DEF InColumn
      <3>8. QED
        BY <3>4, <3>7 DEF A
    <2>2. QED
      BY <2>1
  <1>7. /\ \A k \in K : k[3] \in Names /\ of[k] \in C
        /\ \A b \in C : w[b] = named[<<b, "cash">>] + named[<<b, "cashless">>] + named[<<b, "other">>]
    BY DEF Names
  <1>8. \A b \in C, n \in Names : named[<<b, n>>] = InColumn(r, b, n)
    OBVIOUS
  <1>9. \A b \in C : /\ row[b] \in S /\ row[b] = ColumnRow(r, b)
                     /\ w[b] = InColumn(r, b, "cash") + InColumn(r, b, "cashless") + InColumn(r, b, "other")
    OBVIOUS
  <1>10. \A x \in S : g[x] = x.cash + x.cashless + x.yandex + x.other
    OBVIOUS
  <1> HIDE DEF K, amt, of, named, w, row, g
  <1>11. SumOf(amt, K) = SumOf(w, C) /\ \A b \in C : w[b] \in Int /\ \A n \in Names : named[<<b, n>>] \in Int
    <2> HIDE DEF C
    <2>1. RowByRow(K, amt, C, of, w, named)
      BY <1>1, <1>5, <1>6, <1>7 DEF RowByRow
    <2>2. QED
      BY <2>1, SumByRow
  <1>12. ASSUME NEW b \in C PROVE g[row[b]] = w[b]
    <2> DEFINE y == Amount(CountedIn(r, b))
               c1 == InColumn(r, b, "cash")
               c2 == InColumn(r, b, "cashless")
               c3 == InColumn(r, b, "other")
    <2>1. y \in Int
      BY <1>1, EnteredIsInt
    <2>2. c1 \in Int /\ c2 \in Int /\ c3 \in Int
      BY <1>8, <1>11 DEF Names
    <2>3. row[b].cash = c1 /\ row[b].cashless = c2 - y /\ row[b].yandex = y /\ row[b].other = c3
      BY <1>9, RowsAre
    <2>4. g[row[b]] = row[b].cash + row[b].cashless + row[b].yandex + row[b].other
      BY <1>9, <1>10
    <2>5. w[b] = c1 + c2 + c3
      BY <1>9
    <2> HIDE DEF y, c1, c2, c3
    <2>6. g[row[b]] = c1 + (c2 - y) + y + c3
      BY <2>3, <2>4
    <2>7. QED
      BY <2>1, <2>2, <2>5, <2>6
  <1>13. \A b \in C, c \in C : row[b] = row[c] => b = c
    <2>1. \A b \in C : row[b].co = b
      BY <1>9, RowsAre
    <2>2. QED
      BY <2>1
  <1>14. SumOf(g, S) = SumOf(w, C)
    BY <1>1, <1>11, <1>12, <1>13, SumOfRows
  <1>15. PaidInAll(S) = SumOf(g, S)
    BY <1>10, PaidInAllIs
  <1>16. PaymentTable(r) = S
    BY <1>9, ReportIs
  <1>17. QED
    BY <1>5, <1>11, <1>14, <1>15, <1>16

\* So does the trend, month by month.
LEMMA TrendAddsUp ==
  ASSUME RowsInv, TypedInv, NEW q \in AQuestion, Everybody(q), NEW r, r = Resolved(q)
  PROVE  AverageCheck(r).revenue = PaidInAll(PaymentTrend(r))
  <1> DEFINE C == Columns(r)
             M == MonthsIn(r)
             K == C \X M \X Names
             amt == [k \in K |-> Earned(r, k)]
             of == [k \in K |-> k[2]]
             named == [x \in M \X Names |-> InMonth(r, x[1], x[2])]
             w == [m \in M |-> InMonth(r, m, "cash") + InMonth(r, m, "cashless") + InMonth(r, m, "other")]
             row == [m \in M |-> MonthsRow(r, m)]
             S == {row[m] : m \in M}
             g == [x \in S |-> x.cash + x.cashless + x.yandex + x.other]
  <1>1. /\ C \subseteq CompanyIds(q) /\ IsFiniteSet(C) /\ M \subseteq Months /\ IsFiniteSet(M)
        /\ \A m : CountedOf(r, m) \subseteq entered
    BY ColumnsAre
  <1>2. IsFiniteSet(K)
    BY <1>1, NamesFinite, TriplesFinite
  <1>3. /\ \A x \in PaidServices(r) : Key(x[2]) \in K
        /\ \A p \in GoodsPayments(r) : Key(p) \in K
        /\ \A p \in TopUpPayments(r) : Key(p) \in K
    BY PaidKeys
  <1>4. \A k \in K : amt[k] = Earned(r, k)
    OBVIOUS
  <1>5. AverageCheck(r).revenue = SumOf(amt, K) /\ Summable(amt, K)
    <2> HIDE DEF K, amt
    <2>1. QED
      BY <1>2, <1>3, <1>4, RevenueOfAccounts
  <1>6. \A m \in M, n \in Names : named[<<m, n>>] = SumOf(amt, NamedIn(K, of, m, n))
    <2>1. ASSUME NEW m \in M, NEW n \in Names
          PROVE  named[<<m, n>>] = SumOf(amt, NamedIn(K, of, m, n))
      <3> DEFINE A == NamedIn(K, of, m, n)
      <3>1. A \in SUBSET (CompanyIds(q) \X Months \X Names) /\ A \in SUBSET K
        BY <1>1 DEF NamedIn
      <3>2. {x \in RevenueByAccount(r) : x.key[1] \in C /\ x.key[2] = m /\ x.key[3] = n}
            = {x \in RevenueByAccount(r) : x.key \in A}
        <4>1. \A x \in RevenueByAccount(r) : x.key \in CompanyIds(q) \X Months \X Names
          BY AccountsAre
        <4>2. \A k \in CompanyIds(q) \X Months \X Names : k[1] \in C /\ k[2] = m /\ k[3] = n <=> k \in A
          BY <1>1 DEF NamedIn
        <4> HIDE DEF A, C
        <4>3. QED
          BY <4>1, <4>2
      <3>3. Summable(amt, A)
        BY <1>5, <3>1, FS_Subset DEF Summable
      <3>4. named[<<m, n>>] = InMonth(r, m, n)
        OBVIOUS
      <3> HIDE DEF A, named, amt, K
      <3>5. \A k \in A : amt[k] = Earned(r, k)
        BY <1>4, <3>1
      <3>6. Amount({x \in RevenueByAccount(r) : x.key \in A}) = SumOf(amt, A)
        BY <3>1, <3>3, <3>5, AccountsHold
      <3>7. InMonth(r, m, n) = SumOf(amt, A)
        BY <3>2, <3>6 DEF InMonth
      <3>8. QED
        BY <3>4, <3>7 DEF A
    <2>2. QED
      BY <2>1
  <1>7. /\ \A k \in K : k[3] \in Names /\ of[k] \in M
        /\ \A m \in M : w[m] = named[<<m, "cash">>] + named[<<m, "cashless">>] + named[<<m, "other">>]
    BY DEF Names
  <1>8. \A m \in M, n \in Names : named[<<m, n>>] = InMonth(r, m, n)
    OBVIOUS
  <1>9. \A m \in M : /\ row[m] \in S /\ row[m] = MonthsRow(r, m)
                     /\ w[m] = InMonth(r, m, "cash") + InMonth(r, m, "cashless") + InMonth(r, m, "other")
    OBVIOUS
  <1>10. \A x \in S : g[x] = x.cash + x.cashless + x.yandex + x.other
    OBVIOUS
  <1> HIDE DEF K, amt, of, named, w, row, g
  <1>11. SumOf(amt, K) = SumOf(w, M) /\ \A m \in M : w[m] \in Int /\ \A n \in Names : named[<<m, n>>] \in Int
    <2> HIDE DEF M
    <2>1. RowByRow(K, amt, M, of, w, named)
      BY <1>1, <1>5, <1>6, <1>7 DEF RowByRow
    <2>2. QED
      BY <2>1, SumByRow
  <1>12. ASSUME NEW m \in M PROVE g[row[m]] = w[m]
    <2> DEFINE y == Amount(CountedOf(r, m))
               c1 == InMonth(r, m, "cash")
               c2 == InMonth(r, m, "cashless")
               c3 == InMonth(r, m, "other")
    <2>1. y \in Int
      BY <1>1, EnteredIsInt
    <2>2. c1 \in Int /\ c2 \in Int /\ c3 \in Int
      BY <1>8, <1>11 DEF Names
    <2>3. row[m].cash = c1 /\ row[m].cashless = c2 - y /\ row[m].yandex = y /\ row[m].other = c3
      BY <1>9, RowsAre
    <2>4. g[row[m]] = row[m].cash + row[m].cashless + row[m].yandex + row[m].other
      BY <1>9, <1>10
    <2>5. w[m] = c1 + c2 + c3
      BY <1>9
    <2> HIDE DEF y, c1, c2, c3
    <2>6. g[row[m]] = c1 + (c2 - y) + y + c3
      BY <2>3, <2>4
    <2>7. QED
      BY <2>1, <2>2, <2>5, <2>6
  <1>13. \A m \in M, n \in M : row[m] = row[n] => m = n
    <2>1. \A m \in M : row[m].month = m
      BY <1>9, RowsAre
    <2>2. QED
      BY <2>1
  <1>14. SumOf(g, S) = SumOf(w, M)
    BY <1>1, <1>11, <1>12, <1>13, SumOfRows
  <1>15. PaidInAll(S) = SumOf(g, S)
    BY <1>10, PaidInAllIs
  <1>16. PaymentTrend(r) = S
    BY <1>9, ReportIs
  <1>17. QED
    BY <1>5, <1>11, <1>14, <1>15, <1>16

\* The typed totals that both sides count where every column applies them.
CountedTotals(r) ==
  {e \in entered : e.co \in Columns(r) /\ e.month \in MonthsIn(r) /\ Reported(e.co, LastDay(e.month))}

\* A column counts its own of them, and a month its own.
LEMMA CountedParts ==
  ASSUME NEW r, \A b \in Columns(r) : Applied(r, b)
  PROVE  /\ \A b \in Columns(r) : CountedIn(r, b) = Filed(CountedTotals(r), [e \in CountedTotals(r) |-> e.co], b)
         /\ \A m \in MonthsIn(r) : CountedOf(r, m) = Filed(CountedTotals(r), [e \in CountedTotals(r) |-> e.month], m)
  <1> DEFINE E == CountedTotals(r)
  <1>1. ASSUME NEW b \in Columns(r) PROVE CountedIn(r, b) = Filed(E, [e \in E |-> e.co], b)
    <2>1. \A e : e \in CountedIn(r, b) <=> e \in E /\ e.co = b
      BY <1>1 DEF CountedIn, CountedTotals, Entries, CoveredMonths
    <2> HIDE DEF E
    <2>2. QED
      BY <2>1 DEF Filed
  <1>2. ASSUME NEW m \in MonthsIn(r) PROVE CountedOf(r, m) = Filed(E, [e \in E |-> e.month], m)
    <2>1. \A e : e \in CountedOf(r, m) =>
            e \in entered /\ e.co \in Columns(r) /\ e.month = m /\ Reported(e.co, LastDay(e.month))
      BY DEF CountedOf, Entries
    <2>2. \A e \in E : e.month = m => e \in Entries(e.co, {m})
      BY DEF CountedTotals, Entries
    <2>3. \A e \in E : e.month = m => r.from <= FirstDay(m) /\ e.through <= r.to
      <3>1. ASSUME NEW e \in E, e.month = m PROVE r.from <= FirstDay(m) /\ e.through <= r.to
        <4>1. e.co \in Columns(r) /\ m \in CoveredMonths(r, e.co) /\ e \in entered /\ Reported(e.co, LastDay(m))
          BY <3>1 DEF CountedTotals, CoveredMonths
        <4>2. e \in Entries(e.co, CoveredMonths(r, e.co))
          BY <3>1, <4>1 DEF Entries
        <4>3. QED
          BY <4>1, <4>2 DEF Applied
      <3>2. QED
        BY <3>1
    <2>4. \A e \in E : e.month = m => e \in CountedOf(r, m)
      BY <2>2, <2>3 DEF CountedOf, CountedTotals
    <2>5. \A e : e \in CountedOf(r, m) <=> e \in E /\ e.month = m
      BY <1>2, <2>1, <2>4 DEF CountedTotals
    <2> HIDE DEF E
    <2>6. CountedOf(r, m) \subseteq E
      BY <2>5
    <2>7. QED
      BY <2>5, <2>6 DEF Filed
  <1>3. QED
    BY <1>1, <1>2

\* Both sides tell the same Yandex Pay.
LEMMA YandexAgrees ==
  ASSUME TypedInv, NEW q \in AQuestion, Everybody(q), NEW r, r = Resolved(q), \A b \in Columns(r) : Applied(r, b)
  PROVE  YandexInAll(PaymentTable(r)) = YandexInAll(PaymentTrend(r))
  <1> DEFINE E == CountedTotals(r)
             C == Columns(r)
             M == MonthsIn(r)
             co == [e \in E |-> e.co]
             month == [e \in E |-> e.month]
             column == [b \in C |-> ColumnRow(r, b)]
             period == [m \in M |-> MonthsRow(r, m)]
             ofColumn == [b \in C |-> Amount(CountedIn(r, b))]
             ofMonth == [m \in M |-> Amount(CountedOf(r, m))]
             table == {column[b] : b \in C}
             trend == {period[m] : m \in M}
             inTable == [x \in table |-> x.yandex]
             inTrend == [x \in trend |-> x.yandex]
  <1>1. IsFiniteSet(C) /\ IsFiniteSet(M)
    BY ColumnsAre
  <1>2. E \in SUBSET entered /\ (\A e \in E : co[e] \in C) /\ \A e \in E : month[e] \in M
    BY DEF CountedTotals
  <1>3. \A b \in C : ofColumn[b] = Amount(Filed(E, co, b))
    BY CountedParts
  <1>4. \A m \in M : ofMonth[m] = Amount(Filed(E, month, m))
    BY CountedParts
  <1>5. \A b \in C : column[b] = ColumnRow(r, b) /\ column[b] \in table /\ ofColumn[b] = Amount(CountedIn(r, b))
    OBVIOUS
  <1>6. \A m \in M : period[m] = MonthsRow(r, m) /\ period[m] \in trend /\ ofMonth[m] = Amount(CountedOf(r, m))
    OBVIOUS
  <1>7. (\A x \in table : inTable[x] = x.yandex) /\ \A x \in trend : inTrend[x] = x.yandex
    OBVIOUS
  <1>8. table = PaymentTable(r) /\ trend = PaymentTrend(r)
    <2> HIDE DEF column, period
    <2>1. QED
      BY <1>5, <1>6, ReportIs
  <1> HIDE DEF E, C, M, co, month, column, period, ofColumn, ofMonth, inTable, inTrend
  <1>9. Amount(E) = SumOf(ofColumn, C) /\ \A b \in C : ofColumn[b] \in Int
    <2>1. E \in SUBSET entered /\ IsFiniteSet(C) /\ \A e \in E : co[e] \in C
      BY <1>1, <1>2
    <2>2. QED
      BY <1>3, <2>1, EnteredParts
  <1>10. Amount(E) = SumOf(ofMonth, M) /\ \A m \in M : ofMonth[m] \in Int
    BY <1>1, <1>2, <1>4, EnteredParts
  <1>11. /\ \A b \in C, c \in C : column[b] = column[c] => b = c
         /\ \A b \in C : inTable[column[b]] = ofColumn[b]
    <2>1. \A b \in C : column[b].co = b /\ column[b].yandex = ofColumn[b]
      BY <1>5, RowsAre
    <2>2. QED
      BY <1>5, <1>7, <2>1
  <1>12. /\ \A m \in M, n \in M : period[m] = period[n] => m = n
         /\ \A m \in M : inTrend[period[m]] = ofMonth[m]
    <2>1. \A m \in M : period[m].month = m /\ period[m].yandex = ofMonth[m]
      BY <1>6, RowsAre
    <2>2. QED
      BY <1>6, <1>7, <2>1
  <1>13. SumOf(inTable, table) = SumOf(ofColumn, C)
    BY <1>1, <1>9, <1>11, SumOfRows
  <1>14. SumOf(inTrend, trend) = SumOf(ofMonth, M)
    BY <1>1, <1>10, <1>12, SumOfRows
  <1>15. YandexInAll(table) = SumOf(inTable, table) /\ YandexInAll(trend) = SumOf(inTrend, trend)
    BY <1>7, YandexInAllIs
  <1>16. QED
    BY <1>8, <1>9, <1>10, <1>13, <1>14, <1>15

\* A counted total is of its column, not missing, and covers days of the period that were over.
LEMMA CountedAre ==
  ASSUME TypedInv, NEW q \in AQuestion, Everybody(q), NEW r, r = Resolved(q),
         NEW row \in PaymentTable(r), NEW e \in row.counted
  PROVE  /\ e.co = row.co /\ e.month \notin row.missing
         /\ FirstDay(e.month)..e.through \subseteq (q.from..q.to) \cap (1..Today)
  <1>1. PICK b \in Columns(r) : row = ColumnRow(r, b)
    BY ReportIs
  <1>2. row.co = b /\ row.counted = CountedIn(r, b) /\ row.missing = MissingIn(r, b)
    BY <1>1, RowsAre
  <1>3. Applied(r, b) /\ e \in Entries(b, CoveredMonths(r, b))
    BY <1>2 DEF CountedIn
  <1>4. e \in entered /\ e.co = b /\ e.month \in CoveredMonths(r, b) /\ Reported(b, LastDay(e.month))
    BY <1>3 DEF Entries
  <1>5. e.month \in Months /\ e.through \in Nat /\ e.through <= Today
    BY <1>4 DEF TypedInv
  <1>6. e.month \notin row.missing
    <2>1. e \in Entries(b, Months)
      BY <1>4, <1>5 DEF Entries
    <2>2. QED
      BY <1>2, <2>1 DEF MissingIn
  <1>7. r.from = q.from /\ r.to = q.to /\ q.from \in Int /\ q.to \in Int
    BY EverybodysRows DEF AQuestion
  <1>8. q.from <= FirstDay(e.month) /\ e.through <= q.to
    BY <1>3, <1>4, <1>7 DEF Applied
  <1>9. FirstDay(e.month) \in Nat /\ 1 <= FirstDay(e.month)
    <2>1. FirstDay(e.month) \in Days
      BY <1>5, MonthDays DEF DaysOf
    <2>2. QED
      BY <2>1, DaysAre
  <1>10. Today \in Nat
    BY TodayIs DEF TypedInv
  <1>11. ASSUME NEW d \in FirstDay(e.month)..e.through PROVE d \in (q.from..q.to) \cap (1..Today)
    BY <1>5, <1>7, <1>8, <1>9, <1>10
  <1>12. QED
    BY <1>2, <1>4, <1>6, <1>11

\* The payment report makes up the revenue, by column and by month; both tell the same Yandex Pay
\* where no column had to leave it out; and a typed total counts only over days that were over.
THEOREM PaymentsAreNet == RSpec => []PaymentsNetOut
  <1>1. RowsInv /\ TypedInv => PaymentsNetOut
    <2> SUFFICES ASSUME RowsInv, TypedInv, NEW q \in Questions, Everybody(q)
                 PROVE  LET r == Resolved(q)
                            table == PaymentTable(r)
                            trend == PaymentTrend(r)
                            whole(row) == row.cash + row.cashless + row.yandex + row.other
                        IN  /\ AverageCheck(r).revenue = Total(whole, table)
                            /\ AverageCheck(r).revenue = Total(whole, trend)
                            /\ (\A b \in Columns(r) : Applied(r, b)) =>
                                 Total(LAMBDA row : row.yandex, table) = Total(LAMBDA row : row.yandex, trend)
                            /\ \A row \in table, e \in entered :
                                 e \in row.counted =>
                                   /\ e.co = row.co /\ e.month \notin row.missing
                                   /\ FirstDay(e.month)..e.through \subseteq (q.from..q.to) \cap (1..Today)
      BY DEF PaymentsNetOut
    <2>1. q \in AQuestion
      BY QuestionsAssumption DEF AQuestion
    <2> DEFINE r == Resolved(q)
    <2>2. AverageCheck(r).revenue = PaidInAll(PaymentTable(r))
      BY <2>1, TableAddsUp
    <2>3. AverageCheck(r).revenue = PaidInAll(PaymentTrend(r))
      BY <2>1, TrendAddsUp
    <2>4. (\A b \in Columns(r) : Applied(r, b)) => YandexInAll(PaymentTable(r)) = YandexInAll(PaymentTrend(r))
      BY <2>1, YandexAgrees
    <2>5. \A row \in PaymentTable(r), e \in entered :
            e \in row.counted => /\ e.co = row.co /\ e.month \notin row.missing
                                 /\ FirstDay(e.month)..e.through \subseteq (q.from..q.to) \cap (1..Today)
      BY <2>1, CountedAre
    <2>6. QED
      BY <2>2, <2>3, <2>4, <2>5 DEF PaidInAll, YandexInAll
  <1>2. QED
    BY <1>1, RowsInvariant, TypedInvariant, PTL

-----------------------------------------------------------------------------
(* The first and the last visit of a client.                               *)

(* No two visits share an id: each has an id from before external ids, or its own new one. *)
HistoryInv ==
  /\ \A v \in visits : v.id \in Nat /\ v.day \in Days /\ v.at \in Nat
  /\ \A u \in visits, v \in visits : u.id = v.id => u = v
  /\ \A v \in visits : \/ \E l \in LegacyVisits : v.id = l.id
                       \/ \E r \in Records : v.co = r.co /\ v.ext = r.ext /\ v.id = NewId[<<r.co, r.ext>>]

\* A mirrored visit keeps its id, and a new one gets one that is free.
LEMMA IdIsFree ==
  ASSUME HistoryInv, NEW r \in Records, NEW old, old = Known(visits, r.co, r.ext),
         NEW id, id = IF old = {} THEN NewId[<<r.co, r.ext>>] ELSE ById(old).id
  PROVE  /\ id \in Nat /\ \A v \in visits \ old : v.id # id
         /\ (\E l \in LegacyVisits : id = l.id) \/ id = NewId[<<r.co, r.ext>>]
  <1> DEFINE fresh == NewId[<<r.co, r.ext>>]
  <1>1. /\ fresh \in Nat /\ r.ext # Null /\ \A l \in LegacyVisits : l.id # fresh
        /\ \A s \in Records : NewId[<<s.co, s.ext>>] = fresh => s.co = r.co /\ s.ext = r.ext
    BY MirrorAssumption, HistoryAssumption
  <1> HIDE DEF fresh
  <1>2. CASE old = {}
    <2>1. \A v \in visits : ~(v.co = r.co /\ v.ext = r.ext)
      BY <1>2 DEF Known
    <2>2. ASSUME NEW v \in visits, v.id = fresh PROVE FALSE
      <3>1. PICK s \in Records : v.co = s.co /\ v.ext = s.ext /\ v.id = NewId[<<s.co, s.ext>>]
        BY <1>1, <2>2 DEF HistoryInv
      <3>2. QED
        BY <1>1, <2>1, <2>2, <3>1
    <2>3. id = fresh
      BY <1>2 DEF fresh
    <2>4. QED
      BY <1>1, <2>2, <2>3 DEF fresh
  <1>3. CASE old # {}
    <2> DEFINE o == ById(old)
    <2>1. o \in visits /\ o \in old
      <3>1. \A v \in visits : v.id \in Nat
        BY DEF HistoryInv
      <3>2. old \subseteq visits
        BY <3>1, KnownIn
      <3>3. o \in old
        BY <1>3, <3>1, <3>2, ByIdIn
      <3>4. QED
        BY <3>2, <3>3
    <2>2. o.co = r.co /\ (o.ext = r.ext \/ o.ext = Null)
      BY <2>1 DEF Known
    <2> HIDE DEF o
    <2>3. (\E l \in LegacyVisits : o.id = l.id) \/ o.id = fresh
      <3>1. \A s \in Records : s.ext # Null
        BY HistoryAssumption
      <3>2. CASE \E l \in LegacyVisits : o.id = l.id
        BY <3>2
      <3>3. CASE \E s \in Records : o.co = s.co /\ o.ext = s.ext /\ o.id = NewId[<<s.co, s.ext>>]
        <4>1. PICK s \in Records : o.co = s.co /\ o.ext = s.ext /\ o.id = NewId[<<s.co, s.ext>>]
          BY <3>3
        <4>2. s.co = r.co /\ s.ext = r.ext
          BY <2>2, <3>1, <4>1
        <4>3. QED
          BY <4>1, <4>2 DEF fresh
      <3>4. QED
        BY <2>1, <3>2, <3>3 DEF HistoryInv
    <2>4. \A v \in visits \ old : v.id # o.id
      BY <2>1 DEF HistoryInv
    <2>5. id = o.id /\ o.id \in Nat
      BY <1>3, <2>1 DEF o, HistoryInv
    <2>6. QED
      BY <2>3, <2>4, <2>5 DEF fresh
  <1>4. QED
    BY <1>2, <1>3

\* Every step keeps the ids apart.
LEMMA HistoryStep ==
  ASSUME HistoryInv, RNext
  PROVE  HistoryInv'
  <1>1. ASSUME NEW r \in Records, MirrorRecord(r) PROVE HistoryInv'
    <2> DEFINE old == Known(visits, r.co, r.ext)
               id == IF old = {} THEN NewId[<<r.co, r.ext>>] ELSE ById(old).id
               new == [id |-> id, ext |-> r.ext, co |-> r.co, staff |-> r.staff, client |-> r.client, by |-> r.by,
                       day |-> r.day, at |-> r.at, made |-> r.made, att |-> r.att, lines |-> r.lines]
    <2>1. visits' = (visits \ old) \cup {new}
      BY <1>1 DEF MirrorRecord
    <2>2. new.id = id /\ new.co = r.co /\ new.ext = r.ext /\ new.day = r.day /\ new.at = r.at
      OBVIOUS
    <2>3. r.day \in Days /\ r.at \in Nat
      BY HistoryAssumption
    <2> HIDE DEF new
    <2>4. /\ id \in Nat /\ \A v \in visits \ old : v.id # id
          /\ (\E l \in LegacyVisits : id = l.id) \/ id = NewId[<<r.co, r.ext>>]
      BY IdIsFree
    <2> HIDE DEF old, id
    <2>5. \A v \in visits' : v.id \in Nat /\ v.day \in Days /\ v.at \in Nat
      BY <2>1, <2>2, <2>3, <2>4 DEF HistoryInv
    <2>6. \A u \in visits', v \in visits' : u.id = v.id => u = v
      BY <2>1, <2>2, <2>4 DEF HistoryInv
    <2>7. \A v \in visits' : \/ \E l \in LegacyVisits : v.id = l.id
                             \/ \E s \in Records : v.co = s.co /\ v.ext = s.ext /\ v.id = NewId[<<s.co, s.ext>>]
      BY <2>1, <2>2, <2>4 DEF HistoryInv
    <2>8. QED
      BY <2>5, <2>6, <2>7 DEF HistoryInv
  <1>2. ASSUME visits' \subseteq visits PROVE HistoryInv'
    BY <1>2 DEF HistoryInv
  <1>3. ASSUME NEW v \in visits, PurgeVisit(v) PROVE HistoryInv'
    BY <1>2, <1>3 DEF PurgeVisit
  <1>4. ASSUME NEW c \in Typed, SaveYandexPay(c), UNCHANGED fvars PROVE HistoryInv'
    BY <1>2, <1>4 DEF fvars
  <1>5. ASSUME NEW batch \in LabelChanges, SaveLabels(batch, Branches) PROVE HistoryInv'
    BY <1>2, <1>5 DEF SaveLabels, mvars
  <1>6. QED
    BY <1>1, <1>2, <1>3, <1>4, <1>5
    DEF RNext, FNext, MirrorTransfer, MirrorMove, MarkCovered, SetReportingWindow, Tick

\* Whatever is mirrored and purged, they stay apart.
LEMMA HistoryInvariant == RSpec => []HistoryInv
  <1>1. RInit => HistoryInv
    <2> SUFFICES ASSUME RInit PROVE HistoryInv
      OBVIOUS
    <2>1. visits = LegacyVisits
      BY DEF RInit, FInit, MirrorInit
    <2>2. QED
      BY <2>1, MirrorAssumption, HistoryAssumption DEF HistoryInv
  <1>2. HistoryInv /\ [RNext]_rvars => HistoryInv'
    <2>1. CASE UNCHANGED rvars
      BY <2>1 DEF rvars, HistoryInv
    <2>2. QED
      BY <2>1, HistoryStep
  <1>3. QED
    BY <1>1, <1>2, PTL DEF RSpec

\* The greatest of finitely many numbers.
LEMMA GreatestOf ==
  ASSUME NEW S \in SUBSET Nat, IsFiniteSet(S), S # {}
  PROVE  \E m \in S : \A k \in S : k <= m
  <1> DEFINE G == {T \in SUBSET S : T = {} \/ \E m \in T : \A k \in T : k <= m}
  <1>1. ASSUME NEW T \in SUBSET S, \A U \in SUBSET T : U # T => U \in G PROVE T \in G
    <2>1. CASE T = {}
      BY <2>1
    <2>2. CASE T # {}
      <3>1. PICK x \in T : TRUE
        BY <2>2
      <3> DEFINE rest == T \ {x}
      <3>2. rest \in G /\ rest \subseteq T /\ \A k \in T : k = x \/ k \in rest
        BY <1>1
      <3>3. x \in Nat /\ \A k \in T : k \in Nat
        OBVIOUS
      <3> HIDE DEF rest
      <3>4. CASE rest = {}
        BY <3>2, <3>3, <3>4
      <3>5. CASE rest # {}
        <4>1. PICK m \in rest : \A k \in rest : k <= m
          BY <3>2, <3>5
        <4>2. m \in T /\ m \in Nat
          BY <3>2, <3>3
        <4>3. CASE x <= m
          BY <3>2, <3>3, <4>1, <4>2, <4>3
        <4>4. CASE m <= x
          <5>1. \A k \in T : k <= x
            BY <3>2, <3>3, <4>1, <4>2, <4>4
          <5>2. QED
            BY <5>1
        <4>5. QED
          BY <3>3, <4>2, <4>3, <4>4
      <3>6. QED
        BY <3>4, <3>5
    <2>3. QED
      BY <2>1, <2>2
  <1> HIDE DEF G
  <1>2. S \in G
    BY <1>1, Smaller
  <1>3. QED
    BY <1>2 DEF G

\* Some visit is the first, and none is on an earlier day.
LEMMA FirstIn ==
  ASSUME HistoryInv, NEW S \in SUBSET visits, S # {}
  PROVE  FirstOf(S) \in S /\ \A u \in S : FirstOf(S).day <= u.day
  <1>1. \A v \in S : v.id \in Nat /\ v.day \in Nat /\ v.at \in Nat
    BY DaysAre DEF HistoryInv
  <1> DEFINE days == {v.day : v \in S}
  <1>2. days \in SUBSET Nat /\ days # {}
    BY <1>1
  <1>3. PICK d \in days : \A k \in days : d <= k
    <2> HIDE DEF days
    <2>1. QED
      BY <1>2, LeastIn
  <1> DEFINE onDay == {v \in S : v.day = d}
             timed == {v \in onDay : v.at # Null}
             ats == {v.at : v \in timed}
  <1>4. onDay # {} /\ onDay \subseteq S
    OBVIOUS
  <1>5. \E T \in SUBSET onDay : T # {} /\ \A v \in T, u \in onDay :
          (u.at = v.at /\ u \in T) \/ (v.at # Null /\ (u.at = Null \/ v.at < u.at))
    <2>1. CASE timed = {}
      BY <1>4, <2>1
    <2>2. CASE timed # {}
      <3>1. ats \in SUBSET Nat /\ ats # {}
        BY <1>1, <1>4, <2>2
      <3>2. PICK a \in ats : \A k \in ats : a <= k
        <4> HIDE DEF ats
        <4>1. QED
          BY <3>1, LeastIn
      <3> DEFINE T == {v \in timed : v.at = a}
      <3>3. T \in SUBSET onDay /\ T # {} /\ \A v \in T : v.at = a /\ a # Null
        BY <3>2
      <3>4. \A u \in onDay : u.at = Null \/ u \in T \/ (u.at \in ats /\ u.at # a)
        OBVIOUS
      <3>5. \A u \in onDay : u.at = Null \/ u \in T \/ a < u.at
        <4>1. a \in Nat /\ \A k \in ats : k \in Nat
          BY <3>1
        <4>2. \A k \in ats : k # a => a < k
          <5> HIDE DEF ats
          <5>1. QED
            BY <3>2, <4>1
        <4> HIDE DEF T, onDay, timed, ats
        <4>3. QED
          BY <3>4, <4>2
      <3>6. \A u \in T : u.at = a
        OBVIOUS
      <3> HIDE DEF T, onDay, timed, ats
      <3>7. QED
        BY <3>3, <3>5, <3>6
    <2>3. QED
      BY <2>1, <2>2
  <1>6. PICK T \in SUBSET onDay : T # {} /\ \A v \in T, u \in onDay :
          (u.at = v.at /\ u \in T) \/ (v.at # Null /\ (u.at = Null \/ v.at < u.at))
    BY <1>5
  <1> DEFINE ids == {v.id : v \in T}
  <1>7. ids \in SUBSET Nat /\ ids # {}
    BY <1>1, <1>4, <1>6
  <1>8. PICK i \in ids : \A k \in ids : i <= k
    <2> HIDE DEF ids
    <2>1. QED
      BY <1>7, LeastIn
  <1>9. PICK v \in T : v.id = i
    OBVIOUS
  <1>10. ASSUME NEW u \in S, u # v PROVE Earlier(v, u)
    <2>1. v \in S /\ v.day = d /\ v \in onDay
      OBVIOUS
    <2>2. d <= u.day /\ d \in Nat /\ u.day \in Nat
      BY <1>1, <1>2, <1>3
    <2>3. CASE u.day # d
      BY <2>1, <2>2, <2>3 DEF Earlier
    <2>4. CASE u.day = d
      <3>1. u \in onDay
        BY <2>4
      <3>2. u \in T => v.id <= u.id /\ v.id # u.id /\ v.id \in Nat /\ u.id \in Nat
        BY <1>1, <1>8, <1>9, <1>10, <2>1 DEF HistoryInv
      <3>3. QED
        BY <1>6, <2>1, <2>4, <3>1, <3>2 DEF Earlier
    <2>5. QED
      BY <2>3, <2>4
  <1>11. v \in S
    OBVIOUS
  <1>12. FirstOf(S) \in S /\ \A u \in S \ {FirstOf(S)} : Earlier(FirstOf(S), u)
    BY <1>10, <1>11 DEF FirstOf
  <1>13. QED
    BY <1>1, <1>12 DEF Earlier

\* Some element of a finite set is where a function is greatest.
Tops(f, T) == \E v \in T : \A u \in T : f[u] <= f[v]
LEMMA TopIn ==
  ASSUME NEW T, IsFiniteSet(T), T # {}, NEW f, \A v \in T : f[v] \in Nat
  PROVE  Tops(f, T)
  <1> DEFINE values == {f[v] : v \in T}
  <1>1. values \in SUBSET Nat /\ values # {} /\ IsFiniteSet(values)
    BY ImageFinite
  <1>2. \E m \in values : \A k \in values : k <= m
    <2> HIDE DEF values
    <2>1. QED
      BY <1>1, GreatestOf
  <1>3. QED
    BY <1>2 DEF Tops

\* Some visit is the last.
LEMMA LastIn ==
  ASSUME RowsInv, HistoryInv, NEW S \in SUBSET visits, S # {}
  PROVE  LastOf(S) \in S
  <1>1. \A v \in S : v.id \in Nat /\ v.day \in Nat /\ v.at \in Nat
    BY DaysAre DEF HistoryInv
  <1>2. \A T \in SUBSET S : IsFiniteSet(T)
    BY FS_Subset DEF RowsInv
  <1> DEFINE day == [v \in S |-> v.day]
             at == [v \in S |-> v.at]
             id == [v \in S |-> v.id]
  <1>4. \A v \in S : day[v] = v.day /\ at[v] = v.at /\ id[v] = v.id
    OBVIOUS
  <1> HIDE DEF day, at, id
  <1>3. \A T \in SUBSET S : T # {} => Tops(day, T) /\ Tops(at, T) /\ Tops(id, T)
    <2>1. ASSUME NEW T \in SUBSET S, T # {} PROVE Tops(day, T) /\ Tops(at, T) /\ Tops(id, T)
      <3>1. IsFiniteSet(T) /\ \A v \in T : day[v] \in Nat /\ at[v] \in Nat /\ id[v] \in Nat
        BY <1>1, <1>2, <1>4
      <3>2. Tops(day, T)
        BY <2>1, <3>1, TopIn
      <3>3. Tops(at, T)
        BY <2>1, <3>1, TopIn
      <3>4. Tops(id, T)
        BY <2>1, <3>1, TopIn
      <3>5. QED
        BY <3>2, <3>3, <3>4
    <2>2. QED
      BY <2>1
  <1>5. PICK x \in S : \A u \in S : day[u] <= day[x]
    BY <1>3 DEF Tops
  <1> DEFINE A == {v \in S : v.day = x.day}
  <1>6. A \in SUBSET S /\ x \in A
    OBVIOUS
  <1>7. PICK y \in A : \A u \in A : at[u] <= at[y]
    <2> HIDE DEF A
    <2>1. QED
      BY <1>3, <1>6 DEF Tops
  <1> DEFINE B == {v \in A : v.at = y.at}
  <1>8. B \in SUBSET S /\ y \in B
    OBVIOUS
  <1>9. PICK v \in B : \A u \in B : id[u] <= id[v]
    <2> HIDE DEF A, B
    <2>1. QED
      BY <1>3, <1>8 DEF Tops
  <1>10. v \in S /\ v.day = x.day /\ v.at = y.at
    OBVIOUS
  <1>11. ASSUME NEW u \in S, u # v PROVE Later(v, u)
    <2>1. u.day <= x.day /\ u.day \in Nat /\ x.day \in Nat
      BY <1>1, <1>4, <1>5
    <2>2. CASE u.day # x.day
      BY <1>10, <2>1, <2>2 DEF Later
    <2>3. CASE u.day = x.day
      <3>1. u.at <= y.at /\ u.at \in Nat /\ y.at \in Nat /\ y \in S
        BY <1>1, <1>4, <1>7, <2>3
      <3>2. CASE u.at # y.at
        BY <1>10, <2>3, <3>1, <3>2 DEF Later, Null
      <3>3. CASE u.at = y.at
        <4>1. u.id <= v.id /\ u.id \in Nat /\ v.id \in Nat
          BY <1>1, <1>4, <1>9, <1>10, <2>3, <3>3
        <4>2. u.id # v.id
          BY <1>10, <1>11 DEF HistoryInv
        <4>3. QED
          BY <1>10, <2>3, <3>3, <4>1, <4>2 DEF Later
      <3>4. QED
        BY <3>2, <3>3
    <2>4. QED
      BY <2>2, <2>3
  <1>12. QED
    BY <1>10, <1>11 DEF LastOf

\* A later day of a month stays the later one in another month.
LEMMA ShiftGrows ==
  ASSUME NEW m \in Months, NEW d \in DaysOf(m), NEW e \in DaysOf(m), d <= e, NEW k \in Int
  PROVE  /\ ShiftMonthsBack(d, k) \in Int /\ ShiftMonthsBack(e, k) \in Int
         /\ ShiftMonthsBack(d, k) <= ShiftMonthsBack(e, k)
  <1>1. MonthOf[d] = m /\ MonthOf[e] = m /\ d \in Nat /\ e \in Nat /\ m \in Nat /\ Days # {}
    BY DaysAre DEF DaysOf
  <1>2. \A t \in Months : FirstDay(t) \in Nat /\ LastDay(t) \in Nat
    <2>1. \A t \in Months : FirstDay(t) \in Days /\ LastDay(t) \in Days
      BY MonthDays DEF DaysOf
    <2>2. QED
      BY <2>1, DaysAre
  <1>3. Max(Days) \in Int
    <2> DEFINE n == Len(MonthOf)
    <2>1. n \in Nat /\ Days = 1..n
      BY CalendarAssumption DEF Days
    <2> HIDE DEF n
    <2>2. \E x \in Days : \A y \in Days : y <= x
      BY <1>1, <2>1, GreatestIn
    <2>3. \E x \in Days : \A y \in Days : x >= y
      BY <2>1, <2>2
    <2>4. Max(Days) \in Days
      BY <2>3 DEF Max
    <2>5. QED
      BY <2>1, <2>4
  <1> DEFINE t == m - k
             first == FirstDay(m)
             a == FirstDay(t) + d - first
             b == FirstDay(t) + e - first
             last == LastDay(t)
  <1>4. t \in Int
    BY <1>1
  <1>5. CASE t < 1 \/ t \notin Months
    BY <1>1, <1>3, <1>5 DEF ShiftMonthsBack
  <1>6. CASE ~(t < 1) /\ t \in Months
    <2>1. a \in Int /\ b \in Int /\ last \in Int /\ a <= b
      BY <1>1, <1>2, <1>6
    <2>2. ShiftMonthsBack(d, k) = Min({a, last}) /\ ShiftMonthsBack(e, k) = Min({b, last})
      BY <1>1, <1>6 DEF ShiftMonthsBack
    <2> HIDE DEF a, b, last
    <2>3. Min({a, last}) = (IF a <= last THEN a ELSE last) /\ Min({b, last}) = (IF b <= last THEN b ELSE last)
      BY <2>1, OfTwo
    <2>4. QED
      BY <2>1, <2>2, <2>3
  <1>7. QED
    BY <1>5, <1>6

\* Up to its horizon a branch reports on, and the days are over.
LEMMA HorizonKnown ==
  ASSUME TypedInv, NEW b \in Branches, NEW o \in Int, o <= Today,
         NEW from \in Int, Reported(b, from), NEW d \in Int, from <= d, d <= Horizon(b, o)
  PROVE  Reported(b, d) /\ d <= Today /\ (o < Today => d < Today)
  <1> DEFINE w == window[b]
  <1>1. w.from \in Nat /\ w.to \in Nat /\ Today \in Int
    BY TodayIs DEF TypedInv
  <1>2. (w.from = Null \/ from >= w.from) /\ (w.to = Null \/ from <= w.to)
    BY DEF Reported, Covers
  <1>3. d <= (IF w.to # Null /\ w.to < Today THEN w.to ELSE o)
    BY DEF Horizon
  <1> HIDE DEF w
  <1>4. (w.from = Null \/ d >= w.from) /\ (w.to = Null \/ d <= w.to)
    BY <1>1, <1>2, <1>3
  <1>5. d <= Today /\ (o < Today => d < Today)
    BY <1>1, <1>3
  <1>6. QED
    BY <1>4, <1>5 DEF Reported, Covers, w

\* The visits of a client of a question in a branch.
LEMMA ClientsAre ==
  ASSUME RowsInv, HistoryInv, NEW q \in AQuestion, NEW r, r = Resolved(q), NEW k \in PairsOf(ClientVisits(r))
  PROVE  /\ FirstOf(In(ClientVisits(r), k)) \in In(ClientVisits(r), k)
         /\ LastOf(In(ClientVisits(r), k)) \in In(ClientVisits(r), k)
         /\ \A v \in In(ClientVisits(r), k) :
              /\ v \in ClientVisits(r) /\ v.co = k[1] /\ k = <<v.co, v.client>> /\ k[1] \in Branches
              /\ Reported(k[1], v.day) /\ v.day \in Days /\ v.day \in Int
  <1> DEFINE vs == ClientVisits(r)
             S == In(vs, k)
  <1>1. vs \subseteq visits /\ \A v \in vs : Reported(v.co, v.day) /\ InScope(r, v.co)
    BY DEF ClientVisits, History
  <1>2. PICK u \in vs : k = <<u.co, u.client>>
    BY DEF PairsOf
  <1>3. S \in SUBSET visits /\ S # {}
    BY <1>1, <1>2 DEF In
  <1>4. \A c : InScope(r, c) => c \in Branches
    BY ResolvedIs
  <1>5. \A v \in S : /\ v \in vs /\ v.co = k[1] /\ v.client = k[2]
                     /\ Reported(k[1], v.day) /\ v.day \in Days /\ k[1] \in Branches
    BY <1>1, <1>4 DEF In, HistoryInv
  <1>6. \A v \in S : k = <<v.co, v.client>>
    BY <1>2, <1>5
  <1>7. \A v \in S : v.day \in Int
    <2>1. \A d \in Days : d \in Int
      BY DaysAre
    <2> HIDE DEF S
    <2>2. QED
      BY <1>5, <2>1
  <1> HIDE DEF S
  <1>8. FirstOf(S) \in S /\ LastOf(S) \in S
    BY <1>3, FirstIn, LastIn
  <1>9. QED
    BY <1>5, <1>6, <1>7, <1>8 DEF S

\* Clients whose months are over had them all.
LEMMA ReadyHadTime ==
  ASSUME RowsInv, HistoryInv, TypedInv, NEW q \in AQuestion, NEW r, r = Resolved(q),
         NEW m \in Months, NEW h \in Horizons, NEW k \in Retention(r, m, h).ready,
         NEW first, first = FirstOf(In(ClientVisits(r), k)).day
  PROVE  /\ \A d \in first..ShiftMonthsBack(first, -h) : Reported(k[1], d) /\ d <= Today
         /\ ShiftMonthsBack(first, -h) < Today
  <1>1. k \in PairsOf(ClientVisits(r)) /\ MonthOf[first] = m /\ Mature(k[1], m, h)
    BY DEF Retention, Cohort
  <1>2. k[1] \in Branches /\ Reported(k[1], first) /\ first \in Days /\ first \in Int
    BY <1>1, ClientsAre
  <1>3. first \in DaysOf(m) /\ LastDay(m) \in DaysOf(m) /\ first <= LastDay(m)
    BY <1>1, <1>2, MonthDays DEF DaysOf
  <1>4. h \in Nat /\ -h \in Int
    BY HistoryAssumption
  <1> DEFINE mine == ShiftMonthsBack(first, -h)
             whole == ShiftMonthsBack(LastDay(m), -h)
             b == k[1]
             o == Today - 1
  <1>5. mine \in Int /\ whole \in Int /\ mine <= whole
    BY <1>3, <1>4, ShiftGrows
  <1>6. whole <= Horizon(b, o)
    BY <1>1 DEF Mature
  <1>7. Today \in Int /\ window[b].from \in Nat /\ window[b].to \in Nat
    BY <1>2, TodayIs DEF TypedInv
  <1>8. o \in Int /\ o < Today /\ o <= Today /\ Horizon(b, o) \in Int /\ Horizon(b, o) < Today
    BY <1>7 DEF Horizon
  <1> HIDE DEF mine, whole, b, o
  <1>9. mine < Today
    BY <1>5, <1>6, <1>7, <1>8
  <1>10. ASSUME NEW d \in first..mine PROVE Reported(b, d) /\ d <= Today
    <2>1. d \in Int /\ first <= d /\ d <= Horizon(b, o)
      BY <1>2, <1>5, <1>6, <1>8
    <2>2. b \in Branches /\ Reported(b, first)
      BY <1>2 DEF b
    <2>3. QED
      BY <1>2, <1>8, <2>1, <2>2, HorizonKnown
  <1>11. QED
    BY <1>9, <1>10 DEF mine, b

\* A sum of amounts that are not negative grows with the set.
LEMMA SumGrows ==
  ASSUME NEW S, NEW g, Summable(g, S), \A x \in S : g[x] >= 0, NEW A \in SUBSET S
  PROVE  SumOf(g, A) <= SumOf(g, S)
  <1> DEFINE G == {T \in SUBSET S : \A U \in SUBSET T : SumOf(g, U) <= SumOf(g, T)}
  <1>1. \A T \in SUBSET S : Summable(g, T) /\ SumOf(g, T) \in Int
    <2>1. \A T \in SUBSET S : Summable(g, T)
      BY FS_Subset DEF Summable
    <2>2. QED
      BY <2>1, SumStep
  <1>2. ASSUME NEW T \in SUBSET S, \A U \in SUBSET T : U # T => U \in G PROVE T \in G
    <2>1. ASSUME NEW U \in SUBSET T PROVE SumOf(g, U) <= SumOf(g, T)
      <3>1. CASE U = T
        BY <1>1, <3>1
      <3>2. CASE U # T
        <4>1. PICK x \in T : x \notin U
          BY <3>2
        <4> DEFINE rest == T \ {x}
        <4>2. rest \in G /\ U \in SUBSET rest
          BY <1>2, <4>1
        <4>3. SumOf(g, T) = g[x] + SumOf(g, rest)
          BY <1>1, <4>1, SumRemove
        <4>4. g[x] >= 0 /\ g[x] \in Int
          BY DEF Summable
        <4>5. rest \in SUBSET S /\ U \in SUBSET S
          OBVIOUS
        <4> HIDE DEF rest
        <4>6. SumOf(g, U) <= SumOf(g, rest)
          BY <4>2
        <4>7. SumOf(g, U) \in Int /\ SumOf(g, rest) \in Int
          BY <1>1, <4>5
        <4>8. QED
          BY <4>3, <4>4, <4>6, <4>7
      <3>3. QED
        BY <3>1, <3>2
    <2>2. QED
      BY <2>1
  <1> HIDE DEF G
  <1>3. S \in G
    BY <1>1, <1>2, Smaller DEF Summable
  <1>4. QED
    BY <1>3 DEF G

\* A client who left is worth at most what was paid for his visits.
LEMMA RiskIsPaid ==
  ASSUME RowsInv, NEW r, NEW k
  PROVE  AtRisk(r, k)
         <= PairAmount({x \in PaidVisits : x[2].amount > 0 /\ x[3].co = k[1] /\ x[3].client = k[2]})
  <1> DEFINE last == LastOf(In(ClientVisits(r), k)).day
             read == [At(r, Period(r.from - (LookbackDays - 1), Min({r.to, Today}))) EXCEPT
                        !.sel = [kind |-> "all", ids |-> {}]]
             A == {x \in PaidServices(read) : /\ x[3].co = k[1] /\ x[3].client = k[2]
                                              /\ last - LookbackDays < x[2].day /\ x[2].day <= last}
             S == {x \in PaidVisits : x[2].amount > 0 /\ x[3].co = k[1] /\ x[3].client = k[2]}
             g == [x \in PaidVisits |-> x[2].amount]
  <1>1. AtRisk(r, k) = PairAmount(A)
    BY DEF AtRisk
  <1>2. A \in SUBSET S
    <2> HIDE DEF last, read
    <2>1. QED
      BY DEF PaidServices
  <1>3. \A x \in S : x \in PaidVisits /\ g[x] = x[2].amount /\ g[x] \in Int /\ g[x] >= 0
    BY PaidVisitsAre
  <1>4. IsFiniteSet(S)
    BY PaidVisitsAre, FS_Subset
  <1> HIDE DEF A, S, g
  <1>5. PairAmount(A) = SumOf(g, A) /\ PairAmount(S) = SumOf(g, S)
    BY <1>2, <1>3, PairAmountIs
  <1>6. Summable(g, S)
    BY <1>3, <1>4 DEF Summable
  <1>7. SumOf(g, A) <= SumOf(g, S)
    BY <1>2, <1>3, <1>6, SumGrows
  <1>8. QED
    BY <1>1, <1>5, <1>7 DEF S

\* Clients who left had their days.
LEMMA ChurnedHadTime ==
  ASSUME RowsInv, HistoryInv, TypedInv, NEW q \in AQuestion, NEW r, r = Resolved(q), NEW k \in Churned(r),
         NEW last, last = LastOf(In(ClientVisits(r), k)).day
  PROVE  /\ \A d \in last..last + ChurnDays : Reported(k[1], d) /\ d <= Today
         /\ k \in ChurnBase(r)
  <1> DEFINE v == LastOf(In(ClientVisits(r), k))
             b == k[1]
  <1>1. /\ k \in PairsOf(ClientVisits(r)) /\ Within(v.day, r) /\ Chosen(r, v.staff)
        /\ v.day <= Horizon(b, Today) - ChurnDays
    BY DEF Churned
  <1>2. /\ v \in ClientVisits(r) /\ v.co = b /\ k = <<v.co, v.client>> /\ b \in Branches
        /\ Reported(b, v.day) /\ v.day \in Int
    BY <1>1, ClientsAre
  <1>3. ChurnDays \in Nat /\ Today \in Int /\ window[b].to \in Nat
    BY <1>2, HistoryAssumption, TodayIs DEF TypedInv
  <1>4. Horizon(b, Today) \in Int
    BY <1>3 DEF Horizon
  <1> HIDE DEF v, b
  <1>5. k \in ChurnBase(r)
    BY <1>1, <1>2 DEF ChurnBase, PairsOf
  <1>6. last = v.day
    BY DEF v
  <1>7. ASSUME NEW d \in last..last + ChurnDays PROVE Reported(b, d) /\ d <= Today
    <2>1. d \in Int /\ v.day <= d /\ d <= Horizon(b, Today)
      BY <1>1, <1>2, <1>3, <1>4, <1>6
    <2>2. QED
      BY <1>2, <1>3, <2>1, HorizonKnown
  <1>8. QED
    BY <1>5, <1>7 DEF b

\* Nobody counts as lost who had no time to return, and nobody is worth more than he paid.
THEOREM LostHadTime == RSpec => []ClientsHadTime
  <1>1. RowsInv /\ HistoryInv /\ TypedInv => ClientsHadTime
    <2> SUFFICES ASSUME RowsInv, HistoryInv, TypedInv, NEW q \in Questions
                 PROVE  LET r == Resolved(q)
                            vs == ClientVisits(r)
                            known(b, from, to) == \A d \in from..to : Reported(b, d) /\ d <= Today
                            paid(k) == {x \in PaidVisits : /\ x[2].amount > 0
                                                           /\ x[3].co = k[1] /\ x[3].client = k[2]}
                        IN  /\ \A m \in Months, h \in Horizons : \A k \in Retention(r, m, h).ready :
                                 LET first == FirstOf(In(vs, k)).day
                                 IN  /\ known(k[1], first, ShiftMonthsBack(first, -h))
                                     /\ ShiftMonthsBack(first, -h) < Today
                            /\ \A k \in Churned(r) :
                                 LET last == LastOf(In(vs, k)).day
                                 IN  known(k[1], last, last + ChurnDays) /\ AtRisk(r, k) <= PairAmount(paid(k))
                            /\ Churned(r) \subseteq ChurnBase(r)
      BY DEF ClientsHadTime
    <2>1. q \in AQuestion
      BY QuestionsAssumption DEF AQuestion
    <2> DEFINE r == Resolved(q)
               vs == ClientVisits(r)
    <2>2. ASSUME NEW m \in Months, NEW h \in Horizons, NEW k \in Retention(r, m, h).ready
          PROVE  LET first == FirstOf(In(vs, k)).day
                 IN  /\ \A d \in first..ShiftMonthsBack(first, -h) : Reported(k[1], d) /\ d <= Today
                     /\ ShiftMonthsBack(first, -h) < Today
      BY <2>1, ReadyHadTime
    <2>3. ASSUME NEW k \in Churned(r)
          PROVE  LET last == LastOf(In(vs, k)).day
                 IN  /\ \A d \in last..last + ChurnDays : Reported(k[1], d) /\ d <= Today
                     /\ k \in ChurnBase(r)
      BY <2>1, ChurnedHadTime
    <2>4. \A k : AtRisk(r, k)
                 <= PairAmount({x \in PaidVisits : x[2].amount > 0 /\ x[3].co = k[1] /\ x[3].client = k[2]})
      BY RiskIsPaid
    <2> HIDE DEF r
    <2>5. QED
      BY <2>2, <2>3, <2>4 DEF r
  <1>2. QED
    BY <1>1, RowsInvariant, HistoryInvariant, TypedInvariant, PTL

-----------------------------------------------------------------------------
(* What was read.                                                          *)

\* Ranges are ranges of days, and movements happen on days.
CoverInv ==
  /\ covered \in [Branches \X Sources -> [from : Nat, to : Nat]]
  /\ \A g \in sales : g.day \in Days

\* Every step keeps it so.
LEMMA CoverStep ==
  ASSUME CoverInv, RNext
  PROVE  CoverInv'
  <1>1. ASSUME UNCHANGED <<sales, covered>> PROVE CoverInv'
    BY <1>1 DEF CoverInv
  <1>2. ASSUME NEW g \in Moves, MirrorMove(g) PROVE CoverInv'
    <2> DEFINE old == Known(sales, g.co, g.ext)
               id == IF old # {} THEN ById(old).id
                     ELSE IF g.ext \in {h.id : h \in sales} THEN FreeId(sales) ELSE g.ext
    <2>1. UNCHANGED covered /\ \A h \in sales' : h \in sales \/ h.day = g.day
      BY <1>2 DEF MirrorMove
    <2>2. g.day \in Days
      BY MirrorAssumption
    <2>3. QED
      BY <2>1, <2>2 DEF CoverInv
  <1>3. ASSUME NEW b \in Branches, NEW s \in Sources, NEW c \in Ranges, MarkCovered(b, s, c) PROVE CoverInv'
    <2>1. covered' = [covered EXCEPT ![<<b, s>>] = c] /\ UNCHANGED sales
      BY <1>3 DEF MarkCovered
    <2>2. c \in [from : Nat, to : Nat]
      BY MirrorAssumption
    <2>3. QED
      BY <2>1, <2>2 DEF CoverInv
  <1>4. ASSUME NEW c \in Typed, SaveYandexPay(c), UNCHANGED fvars PROVE CoverInv'
    BY <1>1, <1>4 DEF fvars
  <1>5. ASSUME NEW batch \in LabelChanges, SaveLabels(batch, Branches) PROVE CoverInv'
    BY <1>1, <1>5 DEF SaveLabels, mvars
  <1>6. QED
    BY <1>1, <1>2, <1>3, <1>4, <1>5
    DEF RNext, FNext, MirrorRecord, PurgeVisit, MirrorTransfer, SetReportingWindow, Tick

\* Whatever is read, it stays so.
LEMMA CoverInvariant == RSpec => []CoverInv
  <1>1. RInit => CoverInv
    <2> SUFFICES ASSUME RInit PROVE CoverInv
      OBVIOUS
    <2>1. sales = {} /\ covered = [k \in Branches \X Sources |-> NoBound]
      BY DEF RInit, FInit, MirrorInit
    <2>2. covered \in [Branches \X Sources -> [from : Nat, to : Nat]]
      BY <2>1 DEF NoBound, Null
    <2>3. QED
      BY <2>1, <2>2 DEF CoverInv
  <1>2. CoverInv /\ [RNext]_rvars => CoverInv'
    <2>1. CASE UNCHANGED rvars
      BY <2>1 DEF rvars, CoverInv
    <2>2. QED
      BY <2>1, CoverStep
  <1>3. QED
    BY <1>1, <1>2, PTL DEF RSpec

\* A resolved question resolves to the same branches over any period.
LEMMA SameScope ==
  ASSUME NEW q \in AQuestion, NEW r, r = Resolved(q), NEW p
  PROVE  /\ CompanyIds(r) = CompanyIds(q) /\ CompanyIds(At(r, p)) = CompanyIds(q)
         /\ \A c : (InScope(r, c) => c \in CompanyIds(q)) /\ (InScope(At(r, p), c) <=> InScope(r, c))
         /\ r.from = q.from /\ r.to = q.to
         /\ At(r, p).from = p.from /\ At(r, p).to = p.to /\ At(r, p).sel = r.sel
  <1> DEFINE C == CompanyIds(q)
             x == At(r, p)
             open == IF q.limited THEN q.allowed ELSE Branches
             home == {WorksAt[s] : s \in q.sel.ids \cap Staff}
  <1>1. /\ r.from = q.from /\ r.to = q.to /\ r.sel = q.sel /\ r.co = q.co /\ r.limited /\ r.allowed = C
        /\ x.from = p.from /\ x.to = p.to /\ x.sel = r.sel /\ x.co = q.co /\ x.limited /\ x.allowed = C
    BY DEF Resolved, At, AQuestion
  <1>2. \A c : (InScope(r, c) <=> (q.co = Null \/ c = q.co) /\ c \in C)
               /\ (InScope(x, c) <=> (q.co = Null \/ c = q.co) /\ c \in C)
    BY <1>1 DEF InScope
  <1>3. C = (CASE q.sel.kind = "group" -> {b \in home : InScope(q, b)}
               [] q.sel.kind = "one" -> home \cap open
               [] OTHER -> IF q.co = Null THEN open ELSE {q.co} \cap open)
    BY DEF CompanyIds
  <1>4. /\ CompanyIds(r) = (CASE q.sel.kind = "group" -> {b \in home : InScope(r, b)}
                              [] q.sel.kind = "one" -> home \cap C
                              [] OTHER -> IF q.co = Null THEN C ELSE {q.co} \cap C)
        /\ CompanyIds(x) = (CASE q.sel.kind = "group" -> {b \in home : InScope(x, b)}
                              [] q.sel.kind = "one" -> home \cap C
                              [] OTHER -> IF q.co = Null THEN C ELSE {q.co} \cap C)
    BY <1>1 DEF CompanyIds
  <1> HIDE DEF C, x, open, home
  <1>5. CASE q.sel.kind = "group"
    <2>1. C = {b \in home : InScope(q, b)}
      BY <1>3, <1>5
    <2>2. \A b \in C : b \in home /\ (q.co = Null \/ b = q.co)
      BY <2>1 DEF InScope
    <2>3. CompanyIds(r) = {b \in home : InScope(r, b)} /\ CompanyIds(x) = {b \in home : InScope(x, b)}
      BY <1>4, <1>5
    <2>4. CompanyIds(r) = C /\ CompanyIds(x) = C
      BY <1>2, <2>2, <2>3
    <2>5. QED
      BY <1>1, <1>2, <2>4 DEF C, x
  <1>6. CASE q.sel.kind = "one"
    <2>1. C = home \cap open /\ CompanyIds(r) = home \cap C /\ CompanyIds(x) = home \cap C
      BY <1>3, <1>4, <1>6
    <2>2. CompanyIds(r) = C /\ CompanyIds(x) = C
      BY <2>1
    <2>3. QED
      BY <1>1, <1>2, <2>2 DEF C, x
  <1>7. CASE q.sel.kind \notin {"group", "one"}
    <2>1. /\ C = (IF q.co = Null THEN open ELSE {q.co} \cap open)
          /\ CompanyIds(r) = (IF q.co = Null THEN C ELSE {q.co} \cap C)
          /\ CompanyIds(x) = (IF q.co = Null THEN C ELSE {q.co} \cap C)
      BY <1>3, <1>4, <1>7
    <2>2. CompanyIds(r) = C /\ CompanyIds(x) = C
      BY <2>1
    <2>3. QED
      BY <1>1, <1>2, <2>2 DEF C, x
  <1>8. QED
    BY <1>5, <1>6, <1>7

\* The days of a period that a branch reports.
LEMMA MeetsAre ==
  ASSUME NEW b, window[b] \in [from : Nat, to : Nat], NEW p, p.from \in Int, p.to \in Int,
         NEW part, part = Meets(window[b], p)
  PROVE  /\ part.from \in Int /\ part.to \in Int
         /\ (p.from \in Nat /\ p.to \in Nat => part.from \in Nat /\ part.to \in Nat)
         /\ \A d \in Int : (part.from <= d /\ d <= part.to) <=> (p.from <= d /\ d <= p.to /\ Reported(b, d))
  <1> DEFINE w == window[b]
  <1>1. w.from \in Nat /\ w.to \in Nat
    OBVIOUS
  <1>2. /\ part.from = (IF w.from = Null THEN p.from ELSE Max({p.from, w.from}))
        /\ part.to = (IF w.to = Null THEN p.to ELSE Min({p.to, w.to}))
    BY DEF Meets
  <1>3. Max({p.from, w.from}) = (IF p.from >= w.from THEN p.from ELSE w.from)
        /\ Min({p.to, w.to}) = (IF p.to <= w.to THEN p.to ELSE w.to)
    <2> HIDE DEF w
    <2>1. w.from \in Int /\ w.to \in Int /\ p.from \in Int /\ p.to \in Int
      BY <1>1
    <2>2. Max({p.from, w.from}) = (IF p.from >= w.from THEN p.from ELSE w.from)
      BY <2>1, OfTwo
    <2>3. Min({p.to, w.to}) = (IF p.to <= w.to THEN p.to ELSE w.to)
      BY <2>1, OfTwo
    <2>4. QED
      BY <2>2, <2>3
  <1>4. \A d : Reported(b, d) <=> (w.from = Null \/ d >= w.from) /\ (w.to = Null \/ d <= w.to)
    BY DEF Reported, Covers
  <1> HIDE DEF w
  <1>5. QED
    BY <1>1, <1>2, <1>3, <1>4

\* Certified top-ups were read.
LEMMA TopUpsRead ==
  ASSUME TypedInv, CoverInv, NEW q \in AQuestion, NEW r, r = Resolved(q), CoverageStatus(r) = "ready",
         NEW b \in CompanyIds(q), NEW d \in q.from..q.to, Reported(b, d)
  PROVE  LET range == covered[<<b, "financials">>]
         IN  range # NoBound /\ range.from <= d /\ d <= range.to
  <1> DEFINE range == covered[<<b, "financials">>]
             part == Meets(window[b], r)
  <1>1. b \in Branches /\ b \in CompanyIds(r) /\ r.from = q.from /\ r.to = q.to /\ q.from \in Int /\ q.to \in Int
    BY ResolvedIs, SameScope DEF AQuestion
  <1>2. window[b] \in [from : Nat, to : Nat] /\ range \in [from : Nat, to : Nat]
    BY <1>1 DEF TypedInv, CoverInv, Sources
  <1>3. part.from \in Int /\ part.to \in Int /\ part.from <= d /\ d <= part.to
    BY <1>1, <1>2, MeetsAre
  <1>4. ~Empty(part)
    BY <1>3 DEF Empty
  <1>5. range # NoBound /\ range.from <= part.from /\ range.to >= part.to
    BY <1>1, <1>4 DEF CoverageStatus
  <1>6. range.from \in Int /\ range.to \in Int
    BY <1>2
  <1> HIDE DEF range, part
  <1>7. range # NoBound /\ range.from <= d /\ d <= range.to
    BY <1>3, <1>5, <1>6
  <1>8. QED
    BY <1>7 DEF range

-----------------------------------------------------------------------------
(* Years and months.                                                       *)

\* Later months are of later years.
LEMMA YearsGrow ==
  ASSUME NEW a \in Nat, NEW b \in Nat, a <= b
  PROVE  YearOf(a) \in Int /\ YearOf(b) \in Int /\ YearOf(a) <= YearOf(b)
  <1> DEFINE n == YearMonths
             x == a - 1
             y == b - 1
  <1>1. n \in Nat /\ n > 0
    BY CalendarAssumption
  <1>2. x \in Int /\ y \in Int /\ x <= y
    OBVIOUS
  <1> HIDE DEF n, x, y
  <1>3. x \div n \in Int /\ y \div n \in Int /\ x \div n <= y \div n
    BY <1>1, <1>2
  <1>4. QED
    BY <1>3 DEF YearOf, n, x, y

\* The least and the greatest of finitely many numbers.
LEMMA EndsOf ==
  ASSUME NEW S \in SUBSET Nat, IsFiniteSet(S), S # {}
  PROVE  /\ Min(S) \in S /\ Max(S) \in S /\ Min(S) \in Nat /\ Max(S) \in Nat
         /\ \A x \in S : Min(S) <= x /\ x <= Max(S)
  <1>1. Min(S) \in S /\ \A x \in S : Min(S) <= x
    <2>1. \E x \in S : \A y \in S : x <= y
      BY LeastIn
    <2>2. QED
      BY <2>1 DEF Min
  <1>2. Max(S) \in S /\ \A x \in S : Max(S) >= x
    <2>1. \A x \in S : x \in Nat
      OBVIOUS
    <2>2. \E x \in S : \A y \in S : x >= y
      BY <2>1, GreatestOf
    <2>3. QED
      BY <2>2 DEF Max
  <1>3. \A x \in S : x \in Nat
    OBVIOUS
  <1>4. QED
    BY <1>1, <1>2, <1>3

\* A pair is finite.
LEMMA PairFinite ==
  ASSUME NEW a, NEW b
  PROVE  IsFiniteSet({a, b})
  <1>1. IsFiniteSet({a} \cup {b}) /\ {a} \cup {b} = {a, b}
    BY FS_Singleton, FS_AddElement
  <1>2. QED
    BY <1>1

\* Days are finitely many numbers.
LEMMA DaysFinite == IsFiniteSet(Days) /\ Days \subseteq Nat
  <1>1. Len(MonthOf) \in Nat /\ Days = 1..Len(MonthOf)
    BY CalendarAssumption DEF Days
  <1>2. QED
    BY <1>1, FS_Interval, DaysAre

\* Every day of a source's part that is asked for: its ends, and what it leans on.
DaysAsked(b, s, part, lean) ==
  {part.from, part.to} \cup (IF s = "appointments" THEN {l[2] : l \in {x \in lean : x[1] = b}} ELSE {})

\* No source is missing exactly if every branch was read for all days asked for.
LEMMA MissingIs ==
  ASSUME TypedInv, CoverInv, NEW r, NEW p, p.from \in Nat, p.to \in Nat, NEW lean,
         NEW D, IsFiniteSet(D), D \subseteq Nat, \A l \in lean : l[2] \in D, CompanyIds(r) \subseteq Branches
  PROVE  MissingSources(r, p, lean) = {}
         <=> \A b \in CompanyIds(r), s \in Sources :
               ~Empty(Meets(window[b], p)) =>
                 /\ covered[<<b, s>>] # NoBound
                 /\ \A d \in DaysAsked(b, s, Meets(window[b], p), lean) :
                      covered[<<b, s>>].from <= d /\ d <= covered[<<b, s>>].to
  <1> DEFINE part(b) == Meets(window[b], p)
             days(b, s) == DaysAsked(b, s, part(b), lean)
             range(b, s) == covered[<<b, s>>]
  <1>1. MissingSources(r, p, lean) = {}
        <=> \A b \in CompanyIds(r), s \in Sources :
              ~Empty(part(b)) => ~(\/ range(b, s) = NoBound \/ range(b, s).from > Min(days(b, s))
                                   \/ range(b, s).to < Max(days(b, s)))
    BY DEF MissingSources, DaysAsked
  <1>2. ASSUME NEW b \in CompanyIds(r), NEW s \in Sources
        PROVE  ~(range(b, s) = NoBound \/ range(b, s).from > Min(days(b, s)) \/ range(b, s).to < Max(days(b, s)))
               <=> range(b, s) # NoBound /\ \A d \in days(b, s) : range(b, s).from <= d /\ d <= range(b, s).to
    <2> DEFINE S == days(b, s)
               x == range(b, s)
    <2>1. window[b] \in [from : Nat, to : Nat] /\ x \in [from : Nat, to : Nat]
      BY DEF TypedInv, CoverInv
    <2>2. part(b).from \in Nat /\ part(b).to \in Nat
      BY <2>1, MeetsAre
    <2>3. S \subseteq {part(b).from, part(b).to} \cup D /\ part(b).from \in S
      BY DEF DaysAsked
    <2>4. IsFiniteSet({part(b).from, part(b).to} \cup D)
      BY PairFinite, FS_Union
    <2>5. S \in SUBSET Nat /\ IsFiniteSet(S) /\ S # {}
      BY <2>2, <2>3, <2>4, FS_Subset
    <2>6. x.from \in Nat /\ x.to \in Nat
      BY <2>1
    <2> HIDE DEF S, x, part
    <2>7. /\ Min(S) \in S /\ Max(S) \in S /\ Min(S) \in Nat /\ Max(S) \in Nat
          /\ \A d \in S : Min(S) <= d /\ d <= Max(S) /\ d \in Nat
      BY <2>5, EndsOf
    <2>8. ~(x = NoBound \/ x.from > Min(S) \/ x.to < Max(S))
          <=> x # NoBound /\ \A d \in S : x.from <= d /\ d <= x.to
      BY <2>6, <2>7
    <2>9. QED
      BY <2>8 DEF S, x
  <1>3. QED
    BY <1>1, <1>2

\* What happened, happened on days.
LEMMA ActivityAre ==
  ASSUME TypedInv, HistoryInv, CoverInv, NEW r
  PROVE  ActivityDays(r) \subseteq Days
  <1> DEFINE ever == At(r, Period(Min(Days), Max(Days)))
  <1>1. /\ \A v \in CompletedVisits(ever) : v.day \in Days
        /\ \A x \in PaidServices(ever) : x[2].day \in Days
        /\ \A p \in GoodsPayments(ever) \cup TopUpPayments(ever) : p.day \in Days
        /\ \A g \in SoldGoods(ever) : g.day \in Days
    <2> HIDE DEF ever
    <2>1. \A x \in PaidVisits : x[2] \in payments
      BY DEF PaidVisits
    <2>2. \A x \in PaidServices(ever) : x[2].day \in Days
      BY <2>1 DEF PaidServices, TypedInv
    <2>3. \A v \in CompletedVisits(ever) : v.day \in Days
      BY DEF CompletedVisits, History, HistoryInv
    <2>4. \A p \in GoodsPayments(ever) \cup TopUpPayments(ever) : p.day \in Days
      BY DEF GoodsPayments, TopUpPayments, DirectPayments, TypedInv
    <2>5. \A g \in SoldGoods(ever) : g.day \in Days
      BY DEF SoldGoods, CoverInv
    <2>6. QED
      BY <2>2, <2>3, <2>4, <2>5
  <1>2. QED
    BY <1>1 DEF ActivityDays

\* A year is cut to the days since the first activity, up to today.
LEMMA CutIs ==
  ASSUME TypedInv, HistoryInv, CoverInv, NEW r, ActivityDays(r) # {}, NEW y \in YearPeriods(r)
  PROVE  /\ Min(ActivityDays(r)) \in Days /\ y.year \in Years
         /\ y.cut.from \in Days /\ y.cut.to \in Days /\ y.cut.from \in Nat /\ y.cut.to \in Nat
         /\ \A d \in Nat : y.cut.from <= d /\ d <= y.cut.to <=>
              /\ d \in Days /\ Min(ActivityDays(r)) <= d /\ d <= Today /\ YearOf(MonthOf[d]) = y.year
  <1> DEFINE A == ActivityDays(r)
             start == Min(A)
             Y == YearDays(y.year)
  <1>1. A \in SUBSET Days /\ A \in SUBSET Nat /\ IsFiniteSet(A) /\ A # {}
    <2>1. A \subseteq Days
      BY ActivityAre
    <2> HIDE DEF A
    <2>2. QED
      BY <2>1, DaysFinite, FS_Subset DEF A
  <1>2. start \in Days
    <2> HIDE DEF A
    <2>1. Min(A) \in A
      BY <1>1, EndsOf
    <2>2. QED
      BY <1>1, <2>1
  <1>3. Today \in Days
    BY TodayIs DEF TypedInv
  <1>4. /\ y.year \in YearOf(MonthOf[start])..YearOf(MonthOf[Today])
        /\ y.cut = Period(Max({start, Min(Y)}), Min({Today, Max(Y)}))
    <2>1. PICK n \in YearOf(MonthOf[Min(ActivityDays(r))])..YearOf(MonthOf[Today]), b \in BOOLEAN :
            y = [year |-> n, partial |-> b,
                 cut |-> Period(Max({Min(ActivityDays(r)), Min(YearDays(n))}), Min({Today, Max(YearDays(n))}))]
      BY DEF YearPeriods
    <2>2. y.year = n
      BY <2>1
    <2>3. QED
      BY <2>1, <2>2
  <1>5. Y # {} /\ Y \subseteq Days
    BY <1>2, <1>3, <1>4, CalendarAssumption DEF YearDays
  <1>6. Y \in SUBSET Nat /\ IsFiniteSet(Y)
    BY <1>5, DaysFinite, FS_Subset
  <1>7. \A d : d \in Y <=> d \in Days /\ YearOf(MonthOf[d]) = y.year
    BY DEF YearDays
  <1>8. y.year \in Years
    <2>1. PICK d \in Y : TRUE
      BY <1>5
    <2>2. MonthOf[d] \in Months
      BY <1>5, DaysAre
    <2>3. QED
      BY <1>7, <2>1, <2>2 DEF Years
  <1>9. y.cut.from = Max({start, Min(Y)}) /\ y.cut.to = Min({Today, Max(Y)})
    BY <1>4 DEF Period
  <1> HIDE DEF A, start, Y
  <1>10. /\ Min(Y) \in Y /\ Max(Y) \in Y /\ Min(Y) \in Nat /\ Max(Y) \in Nat
         /\ \A x \in Y : Min(Y) <= x /\ x <= Max(Y)
    BY <1>5, <1>6, EndsOf
  <1>11. start \in Nat /\ Today \in Nat /\ Min(Y) \in Days /\ Max(Y) \in Days
    BY <1>2, <1>3, <1>5, <1>10, DaysAre
  <1>12. /\ y.cut.from = (IF start >= Min(Y) THEN start ELSE Min(Y))
         /\ y.cut.to = (IF Today <= Max(Y) THEN Today ELSE Max(Y))
    <2>1. start \in Int /\ Min(Y) \in Int /\ Today \in Int /\ Max(Y) \in Int
      BY <1>10, <1>11
    <2>2. Max({start, Min(Y)}) = (IF start >= Min(Y) THEN start ELSE Min(Y))
      BY <2>1, OfTwo
    <2>3. Min({Today, Max(Y)}) = (IF Today <= Max(Y) THEN Today ELSE Max(Y))
      BY <2>1, OfTwo
    <2>4. QED
      BY <1>9, <2>2, <2>3
  <1>13. ASSUME NEW d \in Nat
         PROVE  y.cut.from <= d /\ d <= y.cut.to <=> d \in Y /\ start <= d /\ d <= Today
    <2>1. y.cut.from <= d /\ d <= y.cut.to <=> start <= d /\ Min(Y) <= d /\ d <= Today /\ d <= Max(Y)
      BY <1>10, <1>11, <1>12
    <2>2. d \in Y => Min(Y) <= d /\ d <= Max(Y)
      BY <1>10
    <2>3. ASSUME Min(Y) <= d, d <= Max(Y) PROVE d \in Y
      <3>1. d \in Days
        BY <1>11, <2>3, DaysAre
      <3>2. MonthOf[Min(Y)] <= MonthOf[d] /\ MonthOf[d] <= MonthOf[Max(Y)]
        BY <1>11, <2>3, <3>1, CalendarAssumption
      <3>3. MonthOf[Min(Y)] \in Nat /\ MonthOf[d] \in Nat /\ MonthOf[Max(Y)] \in Nat
        BY <1>11, <3>1, DaysAre
      <3>4. /\ YearOf(MonthOf[Min(Y)]) \in Int /\ YearOf(MonthOf[d]) \in Int
            /\ YearOf(MonthOf[Min(Y)]) <= YearOf(MonthOf[d])
        BY <3>2, <3>3, YearsGrow
      <3>5. YearOf(MonthOf[d]) <= YearOf(MonthOf[Max(Y)])
        BY <3>2, <3>3, YearsGrow
      <3>6. YearOf(MonthOf[Min(Y)]) = y.year /\ YearOf(MonthOf[Max(Y)]) = y.year
        BY <1>7, <1>10
      <3>7. QED
        BY <1>7, <3>1, <3>4, <3>5, <3>6
    <2>4. QED
      BY <2>1, <2>2, <2>3
  <1>14. y.cut.from \in Days /\ y.cut.to \in Days /\ y.cut.from \in Nat /\ y.cut.to \in Nat
    BY <1>2, <1>3, <1>10, <1>11, <1>12
  <1>15. QED
    BY <1>2, <1>7, <1>8, <1>13, <1>14 DEF start, A

\* The slice of a month is its days in the cut year.
LEMMA SliceIs ==
  ASSUME NEW m \in Months, NEW from \in Days, NEW to \in Days, NEW a, NEW z,
         a = Max({FirstDay(m), from}), z = Min({LastDay(m), to})
  PROVE  /\ a \in Nat /\ z \in Nat
         /\ \A d \in Nat : a <= d /\ d <= z <=> d \in DaysOf(m) /\ from <= d /\ d <= to
  <1>1. /\ FirstDay(m) \in DaysOf(m) /\ LastDay(m) \in DaysOf(m)
        /\ \A d \in DaysOf(m) : FirstDay(m) <= d /\ d <= LastDay(m)
    BY MonthDays
  <1>2. /\ FirstDay(m) \in Days /\ MonthOf[FirstDay(m)] = m /\ LastDay(m) \in Days /\ MonthOf[LastDay(m)] = m
    BY <1>1 DEF DaysOf
  <1> DEFINE f == FirstDay(m)
             l == LastDay(m)
  <1>3. f \in Nat /\ l \in Nat /\ from \in Nat /\ to \in Nat
    BY <1>2, DaysAre
  <1>4. a = (IF f >= from THEN f ELSE from) /\ z = (IF l <= to THEN l ELSE to)
    <2>1. a = Max({f, from}) /\ z = Min({l, to})
      OBVIOUS
    <2> HIDE DEF f, l
    <2>2. f \in Int /\ l \in Int /\ from \in Int /\ to \in Int
      BY <1>3
    <2>3. Max({f, from}) = (IF f >= from THEN f ELSE from)
      BY <2>2, OfTwo
    <2>4. Min({l, to}) = (IF l <= to THEN l ELSE to)
      BY <2>2, OfTwo
    <2>5. QED
      BY <2>1, <2>3, <2>4
  <1>5. ASSUME NEW d \in Nat, f <= d, d <= l PROVE d \in DaysOf(m)
    <2>1. d \in Days
      BY <1>2, <1>3, <1>5, DaysAre
    <2>2. m <= MonthOf[d] /\ MonthOf[d] <= m
      BY <1>2, <1>5, <2>1, CalendarAssumption
    <2>3. m \in Nat /\ MonthOf[d] \in Nat
      BY <1>2, <2>1, DaysAre
    <2>4. QED
      BY <2>1, <2>2, <2>3 DEF DaysOf
  <1>6. \A d \in DaysOf(m) : f <= d /\ d <= l
    BY <1>1
  <1> HIDE DEF f, l
  <1>7. QED
    BY <1>3, <1>4, <1>5, <1>6

\* What the years report shows of a year and of a month, by its parts.
YearLean(q, y) == UNION {LeansOn(SinceStart(q), m) : m \in {k \in Months : YearOf(k) = y.year}}
YearFact(h, n) == CHOOSE f \in YearFacts(h) : f.year = n
MonthFact(h, m) == CHOOSE f \in MonthFacts(h) : f.month = m
Money(f) == f.service + f.goods + f.topup
SliceOf(m, y) == Period(Max({FirstDay(m), y.cut.from}), Min({LastDay(m), y.cut.to}))
YearKnown(q, y) == MissingSources(q, y.cut, YearLean(q, y)) = {}
MonthKnown(q, y, m) ==
  ~Empty(SliceOf(m, y)) /\ MissingSources(q, SliceOf(m, y), LeansOn(SinceStart(q), m)) = {}

\* The money of a year or of a month is shown exactly where all of it is known.
LEMMA RowsShow ==
  ASSUME NEW q, NEW y, NEW m
  PROVE  /\ YearRow(q, y).revenue # <<>> <=> YearKnown(q, y)
         /\ YearKnown(q, y) => YearRow(q, y).revenue[1] = Money(YearFact(SinceStart(q), y.year))
         /\ MonthRow(q, y, m).revenue # <<>> <=> MonthKnown(q, y, m)
         /\ MonthKnown(q, y, m) => MonthRow(q, y, m).revenue[1] = Money(MonthFact(SinceStart(q), m))
  <1>1. YearRow(q, y) = Masked(YearFact(SinceStart(q), y.year), MissingSources(q, y.cut, YearLean(q, y)))
    BY DEF YearRow, YearFact, YearLean
  <1>2. MonthRow(q, y, m).revenue
        = IF Empty(SliceOf(m, y)) THEN <<>>
          ELSE Masked(MonthFact(SinceStart(q), m),
                      MissingSources(q, SliceOf(m, y), LeansOn(SinceStart(q), m))).revenue
    BY DEF MonthRow, MonthFact, SliceOf
  <1>3. \A f, gone : Masked(f, gone).revenue = IF gone = {} THEN <<Money(f)>> ELSE <<>>
    BY DEF Masked, Shown, Money
  <1>4. \A n : <<n>> # <<>> /\ <<n>>[1] = n
    OBVIOUS
  <1>5. YearRow(q, y).revenue = IF YearKnown(q, y) THEN <<Money(YearFact(SinceStart(q), y.year))>> ELSE <<>>
    BY <1>1, <1>3 DEF YearKnown
  <1>6. MonthRow(q, y, m).revenue = IF MonthKnown(q, y, m) THEN <<Money(MonthFact(SinceStart(q), m))>> ELSE <<>>
    BY <1>2, <1>3 DEF MonthKnown
  <1>7. QED
    BY <1>4, <1>5, <1>6

\* Money leans on days of paid visits, which are finitely many.
LEMMA LeansAre ==
  ASSUME RowsInv, HistoryInv, NEW D, D = {x[3].day : x \in PaidVisits}
  PROVE  /\ IsFiniteSet(D) /\ D \subseteq Nat
         /\ \A q, m : \A l \in LeansOn(q, m) : l[2] \in D
         /\ \A q, y : \A l \in YearLean(q, y) : l[2] \in D
  <1>1. IsFiniteSet(D)
    <2> DEFINE f == [x \in PaidVisits |-> x[3].day]
    <2>1. D = {f[x] : x \in PaidVisits}
      OBVIOUS
    <2>2. IsFiniteSet(PaidVisits)
      BY PaidVisitsAre
    <2> HIDE DEF f
    <2>3. IsFiniteSet({f[x] : x \in PaidVisits})
      BY <2>2, ImageFinite
    <2>4. QED
      BY <2>1, <2>3
  <1>2. D \subseteq Nat
    <2>1. \A x \in PaidVisits : x[3] \in visits
      BY PaidVisitsAre
    <2>2. QED
      BY <2>1, DaysFinite DEF HistoryInv
  <1>3. \A q, b, m : Dependencies(q, b, m) \subseteq D
    BY DEF Dependencies
  <1>4. \A q, m : \A l \in LeansOn(q, m) : l[2] \in D
    BY <1>3 DEF LeansOn
  <1>5. QED
    BY <1>1, <1>2, <1>4 DEF YearLean

WasRead(b, s, d) == covered[<<b, s>>] # NoBound /\ covered[<<b, s>>].from <= d /\ d <= covered[<<b, s>>].to

\* What is known of a year is known of every part of it that leans on no more.
LEMMA KnownYear ==
  ASSUME RowsInv, HistoryInv, TypedInv, CoverInv, NEW q \in AQuestion, NEW r, r = Resolved(q),
         ActivityDays(r) # {}, NEW y \in YearPeriods(r), YearKnown(r, y)
  PROVE  /\ \A b \in CompanyIds(q), d \in y.cut.from..y.cut.to, s \in Sources : Reported(b, d) => WasRead(b, s, d)
         /\ \A b \in CompanyIds(q) : (\E d \in y.cut.from..y.cut.to : Reported(b, d)) =>
              \A l \in YearLean(r, y) : l[1] = b => WasRead(b, "appointments", l[2])
  <1> DEFINE D == {x[3].day : x \in PaidVisits}
             lean == YearLean(r, y)
             cut == y.cut
  <1>1. CompanyIds(r) = CompanyIds(q) /\ CompanyIds(q) \subseteq Branches
    BY SameScope, ResolvedIs
  <1>2. cut.from \in Nat /\ cut.to \in Nat
    BY CutIs
  <1>3. IsFiniteSet(D) /\ D \subseteq Nat /\ \A l \in lean : l[2] \in D
    BY LeansAre
  <1>4. MissingSources(r, cut, lean) = {}
    BY DEF YearKnown
  <1> HIDE DEF D, lean, cut
  <1>5. \A b \in CompanyIds(q), s \in Sources :
          ~Empty(Meets(window[b], cut)) =>
            /\ covered[<<b, s>>] # NoBound
            /\ \A d \in DaysAsked(b, s, Meets(window[b], cut), lean) :
                 covered[<<b, s>>].from <= d /\ d <= covered[<<b, s>>].to
    BY <1>1, <1>2, <1>3, <1>4, MissingIs
  <1>6. ASSUME NEW b \in CompanyIds(q), NEW d \in cut.from..cut.to, Reported(b, d)
        PROVE  /\ \A s \in Sources : WasRead(b, s, d)
               /\ \A l \in lean : l[1] = b => WasRead(b, "appointments", l[2])
    <2> DEFINE part == Meets(window[b], cut)
    <2>1. b \in Branches /\ window[b] \in [from : Nat, to : Nat] /\ d \in Int
      BY <1>1 DEF TypedInv
    <2>2. part.from \in Int /\ part.to \in Int /\ part.from <= d /\ d <= part.to
      BY <1>2, <1>6, <2>1, MeetsAre
    <2>3. ~Empty(part)
      BY <2>2 DEF Empty
    <2> HIDE DEF part
    <2>4. \A s \in Sources : /\ covered[<<b, s>>] # NoBound
                             /\ \A e \in DaysAsked(b, s, part, lean) :
                                  covered[<<b, s>>].from <= e /\ e <= covered[<<b, s>>].to
      BY <1>5, <2>3 DEF part
    <2>5. \A s \in Sources : part.from \in DaysAsked(b, s, part, lean) /\ part.to \in DaysAsked(b, s, part, lean)
      BY DEF DaysAsked
    <2>6. \A l \in lean : l[1] = b => l[2] \in DaysAsked(b, "appointments", part, lean)
      BY DEF DaysAsked
    <2>7. ASSUME NEW s \in Sources PROVE WasRead(b, s, d)
      <3>1. covered[<<b, s>>].from \in Int /\ covered[<<b, s>>].to \in Int
        BY <2>1 DEF CoverInv
      <3>2. covered[<<b, s>>].from <= part.from /\ part.to <= covered[<<b, s>>].to
        BY <2>4, <2>5
      <3>3. QED
        BY <2>1, <2>2, <2>4, <3>1, <3>2 DEF WasRead
    <2>8. QED
      BY <2>4, <2>6, <2>7 DEF WasRead, Sources
  <1>7. QED
    BY <1>6 DEF cut, lean

\* A visit that was paid for is one the money of its month leans on, on a reported day of the year.
LEMMA PaidLeans ==
  ASSUME RowsInv, HistoryInv, TypedInv, CoverInv, NEW q \in AQuestion, NEW r, r = Resolved(q),
         ActivityDays(r) # {}, NEW y \in YearPeriods(r),
         NEW x \in PaidServices(SinceStart(r)), YearOf(MonthOf[x[2].day]) = y.year
  PROVE  /\ x[3].co \in CompanyIds(q) /\ <<x[3].co, x[3].day>> \in YearLean(r, y)
         /\ x[2].day \in y.cut.from..y.cut.to /\ Reported(x[3].co, x[2].day)
  <1> DEFINE h == SinceStart(r)
             p == x[2]
             v == x[3]
             m == MonthOf[p.day]
  <1>1. /\ x \in PaidVisits /\ p.kind = "service" /\ v.att = Completed /\ p.amount > 0 /\ Within(p.day, h)
        /\ Business(v.staff) /\ Reported(v.co, v.day) /\ Reported(p.co, p.day)
        /\ InScope(h, v.co) /\ Chosen(h, v.staff) /\ p.day <= Today /\ Happened(v) /\ Physical(p)
    BY DEF PaidServices
  <1>2. p.co = v.co /\ p \in payments
    BY <1>1, PaidVisitsAre
  <1>3. p.day \in Days /\ m \in Months /\ p.day \in Nat
    BY <1>2, DaysAre DEF TypedInv
  <1>4. v.day \in Dependencies(h, p.co, m)
    BY <1>1, <1>2 DEF Dependencies
  <1>5. p.co \in CompanyIds(q) /\ CompanyIds(h) = CompanyIds(q) /\ h.from = Min(ActivityDays(r))
    BY <1>1, <1>2, SameScope DEF SinceStart, Period
  <1>6. <<p.co, v.day>> \in LeansOn(h, m)
    BY <1>4, <1>5 DEF LeansOn
  <1>7. <<p.co, v.day>> \in YearLean(r, y)
    BY <1>3, <1>6 DEF YearLean
  <1>8. Min(ActivityDays(r)) <= p.day
    BY <1>1, <1>5 DEF Within
  <1>9. y.cut.from <= p.day /\ p.day <= y.cut.to /\ y.cut.from \in Nat /\ y.cut.to \in Nat
    BY <1>1, <1>3, <1>8, CutIs
  <1>10. QED
    BY <1>1, <1>2, <1>3, <1>5, <1>7, <1>9

\* The sums of the years report ...
YearService(S) == Total(LAMBDA f : f.service, S)
YearGoods(S) == Total(LAMBDA f : f.goods, S)
YearTopUps(S) == Total(LAMBDA f : f.topup, S)
MonthsMoney(q, y, S) == Total(LAMBDA m : MonthRow(q, y, m).revenue[1], S)

\* ... as sums of a function: of what was paid for services, ...
LEMMA ServiceOfYear ==
  ASSUME NEW S, NEW g, \A x \in S : g[x] = x.service
  PROVE  YearService(S) = SumOf(g, S)
  <1> DEFINE P(h) == h = [s \in SUBSET S |-> IF s = {} THEN 0 ELSE OneOf(s).service + h[s \ {OneOf(s)}]]
  <1>1. YearService(S) = (CHOOSE h : P(h))[S]
    BY DEF YearService, Total, MapThenSumSet, MapThenFoldSet, OneOf
  <1>2. \A h : P(h) <=> Adds(h, g, S)
    <2>1. \A s \in SUBSET S : s # {} => g[OneOf(s)] = OneOf(s).service
      BY SomeIn
    <2>2. QED
      BY <2>1 DEF Adds
  <1>3. (CHOOSE h : P(h)) = (CHOOSE h : Adds(h, g, S))
    BY <1>2
  <1>4. QED
    BY <1>1, <1>3, SumIs

\* ... for goods ...
LEMMA GoodsOfYear ==
  ASSUME NEW S, NEW g, \A x \in S : g[x] = x.goods
  PROVE  YearGoods(S) = SumOf(g, S)
  <1> DEFINE P(h) == h = [s \in SUBSET S |-> IF s = {} THEN 0 ELSE OneOf(s).goods + h[s \ {OneOf(s)}]]
  <1>1. YearGoods(S) = (CHOOSE h : P(h))[S]
    BY DEF YearGoods, Total, MapThenSumSet, MapThenFoldSet, OneOf
  <1>2. \A h : P(h) <=> Adds(h, g, S)
    <2>1. \A s \in SUBSET S : s # {} => g[OneOf(s)] = OneOf(s).goods
      BY SomeIn
    <2>2. QED
      BY <2>1 DEF Adds
  <1>3. (CHOOSE h : P(h)) = (CHOOSE h : Adds(h, g, S))
    BY <1>2
  <1>4. QED
    BY <1>1, <1>3, SumIs

\* ... and for top-ups ...
LEMMA TopUpsOfYear ==
  ASSUME NEW S, NEW g, \A x \in S : g[x] = x.topup
  PROVE  YearTopUps(S) = SumOf(g, S)
  <1> DEFINE P(h) == h = [s \in SUBSET S |-> IF s = {} THEN 0 ELSE OneOf(s).topup + h[s \ {OneOf(s)}]]
  <1>1. YearTopUps(S) = (CHOOSE h : P(h))[S]
    BY DEF YearTopUps, Total, MapThenSumSet, MapThenFoldSet, OneOf
  <1>2. \A h : P(h) <=> Adds(h, g, S)
    <2>1. \A s \in SUBSET S : s # {} => g[OneOf(s)] = OneOf(s).topup
      BY SomeIn
    <2>2. QED
      BY <2>1 DEF Adds
  <1>3. (CHOOSE h : P(h)) = (CHOOSE h : Adds(h, g, S))
    BY <1>2
  <1>4. QED
    BY <1>1, <1>3, SumIs

\* ... and of what the months show.
LEMMA MoneyOfMonths ==
  ASSUME NEW q, NEW y, NEW S, NEW g, \A x \in S : g[x] = MonthRow(q, y, x).revenue[1]
  PROVE  MonthsMoney(q, y, S) = SumOf(g, S)
  <1> DEFINE P(h) == h = [s \in SUBSET S |->
                           IF s = {} THEN 0 ELSE MonthRow(q, y, OneOf(s)).revenue[1] + h[s \ {OneOf(s)}]]
  <1>1. MonthsMoney(q, y, S) = (CHOOSE h : P(h))[S]
    BY DEF MonthsMoney, Total, MapThenSumSet, MapThenFoldSet, OneOf
  <1>2. \A h : P(h) <=> Adds(h, g, S)
    <2>1. \A s \in SUBSET S : s # {} => g[OneOf(s)] = MonthRow(q, y, OneOf(s)).revenue[1]
      BY SomeIn
    <2>2. QED
      BY <2>1 DEF Adds
  <1>3. (CHOOSE h : P(h)) = (CHOOSE h : Adds(h, g, S))
    BY <1>2
  <1>4. QED
    BY <1>1, <1>3, SumIs

\* Money of rows is a whole number, and none without rows.
LEMMA MoneyIs ==
  ASSUME RowsInv
  PROVE  /\ \A S \in SUBSET PaidVisits : PairAmount(S) \in Int /\ (S = {} => PairAmount(S) = 0)
         /\ \A S \in SUBSET payments : Amount(S) \in Int /\ (S = {} => Amount(S) = 0)
  <1>1. ASSUME NEW S \in SUBSET PaidVisits PROVE PairAmount(S) \in Int /\ (S = {} => PairAmount(S) = 0)
    <2> DEFINE g == [x \in S |-> x[2].amount]
    <2>1. \A x \in S : g[x] = x[2].amount /\ g[x] \in Int
      BY PaidVisitsAre
    <2>2. IsFiniteSet(S)
      BY PaidVisitsAre, FS_Subset
    <2> HIDE DEF g
    <2>3. Summable(g, S)
      BY <2>1, <2>2 DEF Summable
    <2>4. PairAmount(S) = SumOf(g, S)
      BY <2>1, PairAmountIs
    <2>5. SumOf(g, S) \in Int /\ (S = {} => SumOf(g, S) = 0)
      BY <2>3, SumStep
    <2>6. QED
      BY <2>4, <2>5
  <1>2. ASSUME NEW S \in SUBSET payments PROVE Amount(S) \in Int /\ (S = {} => Amount(S) = 0)
    <2> DEFINE g == [x \in S |-> x.amount]
    <2>1. \A x \in S : g[x] = x.amount /\ g[x] \in Int
      BY DEF RowsInv
    <2>2. IsFiniteSet(S)
      BY FS_Subset DEF RowsInv
    <2> HIDE DEF g
    <2>3. Summable(g, S)
      BY <2>1, <2>2 DEF Summable
    <2>4. Amount(S) = SumOf(g, S)
      BY <2>1, AmountIs
    <2>5. SumOf(g, S) \in Int /\ (S = {} => SumOf(g, S) = 0)
      BY <2>3, SumStep
    <2>6. QED
      BY <2>4, <2>5
  <1>3. QED
    BY <1>1, <1>2

\* The facts of a month and of a year, by their parts.
VisitsInMonth(h, m) == Cardinality({v \in CompletedVisits(h) : MonthOf[v.day] = m})
FirstInMonth(h, m) == Cardinality({v \in FirstVisits(h) : MonthOf[v.day] = m})
PaidInMonth(h, m) == {x \in PaidServices(h) : MonthOf[x[2].day] = m}
GoodsInMonth(h, m) == {p \in GoodsPayments(h) : MonthOf[p.day] = m}
TopUpsInMonth(h, m) == {p \in TopUpPayments(h) : MonthOf[p.day] = m}
FactsOfMonth(h, m) ==
  [month |-> m, appointments |-> VisitsInMonth(h, m), first |-> FirstInMonth(h, m),
   service |-> PairAmount(PaidInMonth(h, m)), goods |-> Amount(GoodsInMonth(h, m)),
   topup |-> Amount(TopUpsInMonth(h, m))]

FactsIn(h, n) == {f \in MonthFacts(h) : YearOf(f.month) = n}
SeenIn(h, n) == {v \in CompletedVisits(h) : YearOf(MonthOf[v.day]) = n}
YearFirst(S) == Total(LAMBDA f : f.first, S)
FactsOfYear(h, n) ==
  [year |-> n, appointments |-> Cardinality(SeenIn(h, n)), clients |-> Cardinality(Clients(SeenIn(h, n))),
   extra |-> ExtraQty(SeenIn(h, n)), first |-> YearFirst(FactsIn(h, n)), service |-> YearService(FactsIn(h, n)),
   goods |-> YearGoods(FactsIn(h, n)), topup |-> YearTopUps(FactsIn(h, n))]

\* Each month has its facts, each year the sums of its months.
LEMMA FactsAre ==
  ASSUME NEW h
  PROVE  /\ MonthFacts(h) = {FactsOfMonth(h, m) : m \in Months}
         /\ \A m \in Months : MonthFact(h, m) = FactsOfMonth(h, m)
         /\ \A n \in Years : YearFact(h, n) = FactsOfYear(h, n)
  <1>1. MonthFacts(h) = {FactsOfMonth(h, m) : m \in Months}
    BY DEF MonthFacts, FactsOfMonth, VisitsInMonth, FirstInMonth, PaidInMonth, GoodsInMonth, TopUpsInMonth
  <1>2. YearFacts(h) = {FactsOfYear(h, n) : n \in Years}
    BY DEF YearFacts, FactsOfYear, FactsIn, SeenIn, YearFirst, YearService, YearGoods, YearTopUps
  <1>3. \A m : FactsOfMonth(h, m).month = m
    BY DEF FactsOfMonth
  <1>4. \A n : FactsOfYear(h, n).year = n
    BY DEF FactsOfYear
  <1>5. \A m \in Months : MonthFact(h, m) = FactsOfMonth(h, m)
    BY <1>1, <1>3 DEF MonthFact
  <1>6. \A n \in Years : YearFact(h, n) = FactsOfYear(h, n)
    BY <1>2, <1>4 DEF YearFact
  <1>7. QED
    BY <1>1, <1>5, <1>6

\* The money of a year is that of its months.
LEMMA YearIsItsMonths ==
  ASSUME RowsInv, NEW h, NEW n \in Years, NEW M, M = {m \in Months : YearOf(m) = n},
         NEW w, \A m \in M : w[m] = Money(FactsOfMonth(h, m))
  PROVE  Summable(w, M) /\ Money(FactsOfYear(h, n)) = SumOf(w, M)
  <1> DEFINE row == [m \in M |-> FactsOfMonth(h, m)]
             S == {row[m] : m \in M}
             a == [m \in M |-> row[m].service]
             b == [m \in M |-> row[m].goods]
             c == [m \in M |-> row[m].topup]
             ab == [m \in M |-> a[m] + b[m]]
  <1>1. IsFiniteSet(M)
    <2>1. IsFiniteSet({MonthOf[d] : d \in Days})
      BY DaysFinite, ImageFinite
    <2>2. M \subseteq {MonthOf[d] : d \in Days}
      BY DEF Months
    <2>3. QED
      BY <2>1, <2>2, FS_Subset
  <1>2. FactsIn(h, n) = S
    <2>1. MonthFacts(h) = {FactsOfMonth(h, m) : m \in Months}
      BY FactsAre
    <2>2. \A m : FactsOfMonth(h, m).month = m
      BY DEF FactsOfMonth
    <2>3. \A f : f \in FactsIn(h, n) <=> f \in MonthFacts(h) /\ YearOf(f.month) = n
      BY DEF FactsIn
    <2>4. \A f : f \in S <=> \E m \in M : f = FactsOfMonth(h, m)
      OBVIOUS
    <2>5. \A f : f \in MonthFacts(h) <=> \E m \in Months : f = FactsOfMonth(h, m)
      BY <2>1
    <2> HIDE DEF S, row
    <2>6. ASSUME NEW f \in FactsIn(h, n) PROVE f \in S
      <3>1. f \in MonthFacts(h) /\ YearOf(f.month) = n
        BY <2>3
      <3>2. PICK m \in Months : f = FactsOfMonth(h, m)
        BY <2>5, <3>1
      <3>3. m \in M
        BY <2>2, <3>1, <3>2
      <3>4. QED
        BY <2>4, <3>2, <3>3
    <2>7. ASSUME NEW f \in S PROVE f \in FactsIn(h, n)
      <3>1. PICK m \in M : f = FactsOfMonth(h, m)
        BY <2>4
      <3>2. m \in Months /\ f.month = m /\ YearOf(m) = n
        BY <2>2, <3>1
      <3>3. f \in MonthFacts(h)
        BY <2>5, <3>1, <3>2
      <3>4. QED
        BY <2>3, <3>2, <3>3
    <2>8. QED
      BY <2>6, <2>7
  <1>3. /\ \A m \in M, k \in M : row[m] = row[k] => m = k
        /\ \A m \in M : a[m] \in Int /\ b[m] \in Int /\ c[m] \in Int
    <2>1. \A m : FactsOfMonth(h, m).month = m
      BY DEF FactsOfMonth
    <2>2. \A m : PaidInMonth(h, m) \subseteq PaidVisits /\ GoodsInMonth(h, m) \subseteq payments
                 /\ TopUpsInMonth(h, m) \subseteq payments
      BY RowsOfFigures DEF PaidInMonth, GoodsInMonth, TopUpsInMonth
    <2>3. \A m : /\ PairAmount(PaidInMonth(h, m)) \in Int /\ Amount(GoodsInMonth(h, m)) \in Int
                 /\ Amount(TopUpsInMonth(h, m)) \in Int
      BY <2>2, MoneyIs
    <2>4. \A m : /\ FactsOfMonth(h, m).service \in Int /\ FactsOfMonth(h, m).goods \in Int
                 /\ FactsOfMonth(h, m).topup \in Int
      BY <2>3 DEF FactsOfMonth
    <2>5. QED
      BY <2>1, <2>4
  <1>4. /\ FactsOfYear(h, n).service = YearService(S) /\ FactsOfYear(h, n).goods = YearGoods(S)
        /\ FactsOfYear(h, n).topup = YearTopUps(S)
    BY <1>2 DEF FactsOfYear
  <1>5. YearService(S) = SumOf(a, M)
    <2> DEFINE g == [f \in S |-> f.service]
    <2>1. (\A f \in S : g[f] = f.service) /\ \A m \in M : g[row[m]] = a[m]
      OBVIOUS
    <2> HIDE DEF g, a, row
    <2>2. YearService(S) = SumOf(g, S)
      BY <2>1, ServiceOfYear
    <2>3. SumOf(g, S) = SumOf(a, M)
      BY <1>1, <1>3, <2>1, SumOfRows
    <2>4. QED
      BY <2>2, <2>3
  <1>6. YearGoods(S) = SumOf(b, M)
    <2> DEFINE g == [f \in S |-> f.goods]
    <2>1. (\A f \in S : g[f] = f.goods) /\ \A m \in M : g[row[m]] = b[m]
      OBVIOUS
    <2> HIDE DEF g, b, row
    <2>2. YearGoods(S) = SumOf(g, S)
      BY <2>1, GoodsOfYear
    <2>3. SumOf(g, S) = SumOf(b, M)
      BY <1>1, <1>3, <2>1, SumOfRows
    <2>4. QED
      BY <2>2, <2>3
  <1>7. YearTopUps(S) = SumOf(c, M)
    <2> DEFINE g == [f \in S |-> f.topup]
    <2>1. (\A f \in S : g[f] = f.topup) /\ \A m \in M : g[row[m]] = c[m]
      OBVIOUS
    <2> HIDE DEF g, c, row
    <2>2. YearTopUps(S) = SumOf(g, S)
      BY <2>1, TopUpsOfYear
    <2>3. SumOf(g, S) = SumOf(c, M)
      BY <1>1, <1>3, <2>1, SumOfRows
    <2>4. QED
      BY <2>2, <2>3
  <1>8. /\ \A m \in M : ab[m] = a[m] + b[m] /\ ab[m] \in Int
        /\ \A m \in M : w[m] = ab[m] + c[m] /\ w[m] \in Int
    BY <1>3 DEF Money
  <1> HIDE DEF a, b, c, ab, row, S
  <1>9. Summable(a, M) /\ Summable(b, M) /\ Summable(c, M) /\ Summable(ab, M) /\ Summable(w, M)
    BY <1>1, <1>3, <1>8 DEF Summable
  <1>10. SumOf(ab, M) = SumOf(a, M) + SumOf(b, M)
    BY <1>8, <1>9, SumAdd
  <1>11. SumOf(w, M) = SumOf(ab, M) + SumOf(c, M)
    BY <1>8, <1>9, SumAdd
  <1>12. QED
    BY <1>4, <1>5, <1>6, <1>7, <1>9, <1>10, <1>11 DEF Money

\* A month of the year outside its cut earned nothing.
LEMMA QuietMonth ==
  ASSUME RowsInv, HistoryInv, TypedInv, CoverInv, NEW q \in AQuestion, NEW r, r = Resolved(q),
         ActivityDays(r) # {}, NEW y \in YearPeriods(r),
         NEW m \in Months, YearOf(m) = y.year, Empty(SliceOf(m, y))
  PROVE  Money(FactsOfMonth(SinceStart(r), m)) = 0
  <1> DEFINE h == SinceStart(r)
             s == SliceOf(m, y)
  <1>1. h.from = Min(ActivityDays(r)) /\ h.to = Today
    BY SameScope DEF SinceStart, Period
  <1>2. ASSUME NEW d \in Days, MonthOf[d] = m, Within(d, h) PROVE FALSE
    <2>1. d \in Nat /\ Min(ActivityDays(r)) <= d /\ d <= Today
      BY <1>1, <1>2, DaysAre DEF Within
    <2>2. y.cut.from <= d /\ d <= y.cut.to /\ y.cut.from \in Days /\ y.cut.to \in Days
      BY <1>2, <2>1, CutIs
    <2>3. d \in DaysOf(m)
      BY <1>2 DEF DaysOf
    <2>4. s.from = Max({FirstDay(m), y.cut.from}) /\ s.to = Min({LastDay(m), y.cut.to})
      BY DEF SliceOf, Period
    <2> HIDE DEF s
    <2>5. s.from \in Nat /\ s.to \in Nat /\ s.from <= d /\ d <= s.to
      BY <2>1, <2>2, <2>3, <2>4, SliceIs
    <2>6. QED
      BY <2>1, <2>5 DEF Empty, s
  <1> HIDE DEF h, s
  <1>3. PaidInMonth(h, m) = {}
    <2>1. \A x \in PaidServices(h) : x[2] \in payments /\ Within(x[2].day, h)
      BY PaidVisitsAre DEF PaidServices
    <2>2. QED
      BY <1>2, <2>1 DEF PaidInMonth, TypedInv
  <1>4. GoodsInMonth(h, m) = {} /\ TopUpsInMonth(h, m) = {}
    <2>1. \A p \in GoodsPayments(h) \cup TopUpPayments(h) : p \in payments /\ Within(p.day, h)
      BY DEF GoodsPayments, TopUpPayments, DirectPayments
    <2>2. QED
      BY <1>2, <2>1 DEF GoodsInMonth, TopUpsInMonth, TypedInv
  <1>5. /\ PairAmount(PaidInMonth(h, m)) = 0 /\ Amount(GoodsInMonth(h, m)) = 0
        /\ Amount(TopUpsInMonth(h, m)) = 0
    BY <1>3, <1>4, MoneyIs
  <1>6. QED
    BY <1>5 DEF FactsOfMonth, Money, h

\* What is known of a year is known of each of its months that its cut meets, and of no other.
LEMMA MonthsOfYear ==
  ASSUME RowsInv, HistoryInv, TypedInv, CoverInv, NEW q \in AQuestion, NEW r, r = Resolved(q),
         ActivityDays(r) # {}, NEW y \in YearPeriods(r), YearKnown(r, y), NEW m \in Months
  PROVE  MonthKnown(r, y, m) <=> YearOf(m) = y.year /\ ~Empty(SliceOf(m, y))
  <1> DEFINE s == SliceOf(m, y)
             lean == LeansOn(SinceStart(r), m)
             D == {x[3].day : x \in PaidVisits}
  <1>1. /\ y.cut.from \in Days /\ y.cut.to \in Days /\ y.cut.from \in Nat /\ y.cut.to \in Nat
        /\ \A d \in Nat : y.cut.from <= d /\ d <= y.cut.to => d \in Days /\ YearOf(MonthOf[d]) = y.year
    BY CutIs
  <1>2. s.from = Max({FirstDay(m), y.cut.from}) /\ s.to = Min({LastDay(m), y.cut.to})
    BY DEF SliceOf, Period
  <1>3. IsFiniteSet(D) /\ D \subseteq Nat /\ \A l \in lean : l[2] \in D
    BY LeansAre
  <1>4. YearOf(m) = y.year => lean \subseteq YearLean(r, y)
    BY DEF YearLean
  <1>5. MonthKnown(r, y, m) <=> ~Empty(s) /\ MissingSources(r, s, lean) = {}
    BY DEF MonthKnown
  <1>6. CompanyIds(r) = CompanyIds(q) /\ CompanyIds(q) \subseteq Branches
    BY SameScope, ResolvedIs
  <1> HIDE DEF s, lean, D
  <1>7. /\ s.from \in Nat /\ s.to \in Nat
        /\ \A d \in Nat : s.from <= d /\ d <= s.to <=> d \in DaysOf(m) /\ y.cut.from <= d /\ d <= y.cut.to
    BY <1>1, <1>2, SliceIs
  <1>8. ASSUME ~Empty(s) PROVE YearOf(m) = y.year
    <2>1. s.from <= s.to /\ s.from <= s.from
      BY <1>7, <1>8 DEF Empty
    <2>2. s.from \in DaysOf(m) /\ y.cut.from <= s.from /\ s.from <= y.cut.to
      BY <1>7, <2>1
    <2>3. QED
      BY <1>1, <1>7, <2>2 DEF DaysOf
  <1>9. ASSUME ~Empty(s), YearOf(m) = y.year PROVE MissingSources(r, s, lean) = {}
    <2>1. ASSUME NEW b \in CompanyIds(q), NEW k \in Sources, ~Empty(Meets(window[b], s))
          PROVE  /\ covered[<<b, k>>] # NoBound
                 /\ \A d \in DaysAsked(b, k, Meets(window[b], s), lean) :
                      covered[<<b, k>>].from <= d /\ d <= covered[<<b, k>>].to
      <3> DEFINE part == Meets(window[b], s)
      <3>1. window[b] \in [from : Nat, to : Nat]
        BY <1>6 DEF TypedInv
      <3>2. /\ part.from \in Nat /\ part.to \in Nat
            /\ \A d \in Int : (part.from <= d /\ d <= part.to) <=> (s.from <= d /\ d <= s.to /\ Reported(b, d))
        BY <1>7, <3>1, MeetsAre
      <3>3. part.from <= part.to
        BY <2>1, <3>2 DEF Empty
      <3> HIDE DEF part
      <3>4. ASSUME NEW d \in {part.from, part.to} PROVE d \in y.cut.from..y.cut.to /\ Reported(b, d)
        <4>1. d \in Nat /\ s.from <= d /\ d <= s.to /\ Reported(b, d)
          BY <3>2, <3>3, <3>4
        <4>2. QED
          BY <1>1, <1>7, <4>1
      <3>5. \A d \in {part.from, part.to} : WasRead(b, k, d)
        BY <3>4, KnownYear
      <3>6. \A l \in lean : l[1] = b => WasRead(b, "appointments", l[2])
        <4>1. \E d \in y.cut.from..y.cut.to : Reported(b, d)
          BY <3>4
        <4>2. \A l \in YearLean(r, y) : l[1] = b => WasRead(b, "appointments", l[2])
          BY <4>1, KnownYear
        <4>3. QED
          BY <1>4, <1>9, <4>2
      <3>7. \A d \in DaysAsked(b, k, part, lean) : WasRead(b, k, d)
        BY <3>5, <3>6 DEF DaysAsked
      <3>8. covered[<<b, k>>] # NoBound
        BY <3>5 DEF WasRead
      <3>9. QED
        BY <3>7, <3>8 DEF WasRead, part
    <2>2. QED
      BY <1>3, <1>6, <1>7, <2>1, MissingIs
  <1>10. QED
    BY <1>5, <1>8, <1>9 DEF s

\* The months a year knows make its money.
LEMMA MonthsMakeYear ==
  ASSUME RowsInv, HistoryInv, TypedInv, CoverInv, NEW q \in AQuestion, NEW r, r = Resolved(q),
         ActivityDays(r) # {}, NEW y \in YearPeriods(r), YearKnown(r, y)
  PROVE  YearRow(r, y).revenue[1] = MonthsMoney(r, y, {m \in Months : MonthRow(r, y, m).revenue # <<>>})
  <1> DEFINE h == SinceStart(r)
             M == {m \in Months : YearOf(m) = y.year}
             K == {m \in Months : MonthRow(r, y, m).revenue # <<>>}
             w == [m \in M |-> Money(FactsOfMonth(h, m))]
  <1>1. y.year \in Years
    BY CutIs
  <1>2. YearRow(r, y).revenue[1] = Money(FactsOfYear(h, y.year))
    <2>1. YearRow(r, y).revenue[1] = Money(YearFact(SinceStart(r), y.year))
      BY RowsShow
    <2>2. YearFact(SinceStart(r), y.year) = FactsOfYear(SinceStart(r), y.year)
      BY <1>1, FactsAre
    <2>3. QED
      BY <2>1, <2>2
  <1>3. \A m \in Months : m \in K <=> YearOf(m) = y.year /\ ~Empty(SliceOf(m, y))
    <2>1. ASSUME NEW m \in Months PROVE MonthRow(r, y, m).revenue # <<>> <=> MonthKnown(r, y, m)
      BY RowsShow
    <2>2. QED
      BY <2>1, MonthsOfYear
  <1>4. \A m \in K : m \in M /\ MonthRow(r, y, m).revenue[1] = w[m]
    <2>1. ASSUME NEW m \in Months, MonthRow(r, y, m).revenue # <<>>
          PROVE  MonthRow(r, y, m).revenue[1] = Money(FactsOfMonth(h, m))
      BY <2>1, RowsShow, FactsAre
    <2>2. QED
      BY <1>3, <2>1
  <1>5. \A m \in M \ K : w[m] = 0
    BY <1>3, QuietMonth
  <1> HIDE DEF h, K
  <1>6. \A m \in M : w[m] = Money(FactsOfMonth(h, m))
    OBVIOUS
  <1> HIDE DEF w, M
  <1>7. Summable(w, M) /\ Money(FactsOfYear(h, y.year)) = SumOf(w, M)
    BY <1>1, <1>6, YearIsItsMonths DEF M
  <1>8. K \subseteq M
    BY <1>4
  <1>9. SumOf(w, M) = SumOf(w, K) + SumOf(w, M \ K)
    BY <1>7, <1>8, SumSplit
  <1>10. SumOf(w, M \ K) = 0
    <2>1. IsFiniteSet(M \ K) /\ \A m \in M \ K : w[m] \in {0}
      BY <1>5, <1>7, FS_Subset DEF Summable
    <2>2. {0} \in SUBSET Int /\ 0 \in {0} /\ \A a \in {0}, b \in {0} : a + b \in {0}
      OBVIOUS
    <2>3. SumOf(w, M \ K) \in {0}
      BY <2>1, <2>2, SumIn
    <2>4. QED
      BY <2>3
  <1>11. MonthsMoney(r, y, K) = SumOf(w, K)
    BY <1>4, MoneyOfMonths
  <1>12. SumOf(w, K) \in Int
    <2>1. Summable(w, K)
      BY <1>7, <1>8, FS_Subset DEF Summable
    <2>2. QED
      BY <2>1, SumStep
  <1>13. YearRow(r, y).revenue[1] = MonthsMoney(r, y, K)
    BY <1>2, <1>7, <1>9, <1>10, <1>11, <1>12 DEF h
  <1>14. QED
    BY <1>13 DEF K

\* Whatever is certified was read, and the known months of a certified year make its money.
THEOREM CertifiedWasRead == RSpec => []CertifiedDays
  <1>1. RowsInv /\ HistoryInv /\ TypedInv /\ CoverInv => CertifiedDays
    <2> SUFFICES ASSUME RowsInv, HistoryInv, TypedInv, CoverInv, NEW q \in Questions
                 PROVE  LET r == Resolved(q)
                            read(b, source, d) == LET range == covered[<<b, source>>]
                                                  IN  range # NoBound /\ range.from <= d /\ d <= range.to
                            since == SinceStart(r)
                            years == IF ActivityDays(r) = {} THEN {}
                                     ELSE {y \in YearPeriods(r) : YearRow(r, y).revenue # <<>>}
                            months(y) == {m \in Months : MonthRow(r, y, m).revenue # <<>>}
                        IN  /\ CoverageStatus(r) = "ready" =>
                                 \A b \in CompanyIds(q), d \in q.from..q.to :
                                   Reported(b, d) => read(b, "financials", d)
                            /\ \A y \in years :
                                 /\ \A b \in CompanyIds(q), d \in y.cut.from..y.cut.to, s \in Sources :
                                      Reported(b, d) => read(b, s, d)
                                 /\ \A x \in PaidServices(since) :
                                      YearOf(MonthOf[x[2].day]) = y.year =>
                                        read(x[3].co, "appointments", x[3].day)
                                 /\ YearRow(r, y).revenue[1]
                                    = Total(LAMBDA m : MonthRow(r, y, m).revenue[1], months(y))
      BY DEF CertifiedDays
    <2>1. q \in AQuestion
      BY QuestionsAssumption DEF AQuestion
    <2> DEFINE r == Resolved(q)
    <2>2. CoverageStatus(r) = "ready" =>
            \A b \in CompanyIds(q), d \in q.from..q.to : Reported(b, d) => WasRead(b, "financials", d)
      BY <2>1, TopUpsRead DEF WasRead
    <2>3. ASSUME ActivityDays(r) # {}, NEW y \in YearPeriods(r), YearRow(r, y).revenue # <<>>
          PROVE  /\ \A b \in CompanyIds(q), d \in y.cut.from..y.cut.to, s \in Sources :
                      Reported(b, d) => WasRead(b, s, d)
                 /\ \A x \in PaidServices(SinceStart(r)) :
                      YearOf(MonthOf[x[2].day]) = y.year => WasRead(x[3].co, "appointments", x[3].day)
                 /\ YearRow(r, y).revenue[1]
                    = MonthsMoney(r, y, {m \in Months : MonthRow(r, y, m).revenue # <<>>})
      <3>1. YearKnown(r, y)
        BY <2>3, RowsShow
      <3> HIDE DEF r
      <3>2. r = Resolved(q)
        BY DEF r
      <3>3. /\ \A b \in CompanyIds(q), d \in y.cut.from..y.cut.to, s \in Sources :
                 Reported(b, d) => WasRead(b, s, d)
            /\ \A b \in CompanyIds(q) : (\E d \in y.cut.from..y.cut.to : Reported(b, d)) =>
                 \A l \in YearLean(r, y) : l[1] = b => WasRead(b, "appointments", l[2])
        BY <2>1, <2>3, <3>1, <3>2, KnownYear
      <3>4. ASSUME NEW x \in PaidServices(SinceStart(r)), YearOf(MonthOf[x[2].day]) = y.year
            PROVE  WasRead(x[3].co, "appointments", x[3].day)
        <4>1. /\ x[3].co \in CompanyIds(q) /\ <<x[3].co, x[3].day>> \in YearLean(r, y)
              /\ x[2].day \in y.cut.from..y.cut.to /\ Reported(x[3].co, x[2].day)
          BY <2>1, <2>3, <3>2, <3>4, PaidLeans
        <4>2. QED
          BY <3>3, <4>1
      <3>5. YearRow(r, y).revenue[1] = MonthsMoney(r, y, {m \in Months : MonthRow(r, y, m).revenue # <<>>})
        BY <2>1, <2>3, <3>1, <3>2, MonthsMakeYear
      <3>6. QED
        BY <3>3, <3>4, <3>5
    <2> HIDE DEF r
    <2>4. QED
      BY <2>2, <2>3 DEF WasRead, MonthsMoney, r
  <1>2. QED
    BY <1>1, RowsInvariant, HistoryInvariant, TypedInvariant, CoverInvariant, PTL

-----------------------------------------------------------------------------
(* Rows out of the scope of a question.                                    *)

\* The rows of some branches.
RowsOf(C, rows) == {x \in rows : x.co \in C}

\* The conditions of a row do not ask which rows there are.
LEMMA ConditionsAre ==
  ASSUME NEW V, NEW P, NEW G
  PROVE  /\ \A r, d : From(V, P, G)!Within(d, r) <=> Within(d, r)
         /\ \A b, d : From(V, P, G)!Reported(b, d) <=> Reported(b, d)
         /\ \A s : From(V, P, G)!Business(s) <=> Business(s)
         /\ \A v : From(V, P, G)!Happened(v) <=> Happened(v)
         /\ \A r, b : From(V, P, G)!InScope(r, b) <=> InScope(r, b)
         /\ \A r, s : From(V, P, G)!Chosen(r, s) <=> Chosen(r, s)
         /\ \A p : From(V, P, G)!Physical(p) <=> Physical(p)
         /\ \A p : From(V, P, G)!TopUp(p) <=> TopUp(p)
         /\ \A p, v : From(V, P, G)!DirectMatch(p, v) <=> DirectMatch(p, v)
         /\ \A q : From(V, P, G)!CompanyIds(q) = CompanyIds(q)
         /\ \A rows : From(V, P, G)!ById(rows) = ById(rows)
         /\ \A vs : From(V, P, G)!Clients(vs) = Clients(vs)
         /\ From(V, P, G)!Today = Today /\ From(V, P, G)!Completed = Completed
         /\ From(V, P, G)!Null = Null
  <1>1. From(V, P, G)!Today = Today /\ From(V, P, G)!Null = Null /\ From(V, P, G)!Completed = Completed
    BY DEF From!Today, Today, From!DayOf, DayOf, From!Null, Null, From!Completed, Completed
  <1>2. /\ \A r, d : From(V, P, G)!Within(d, r) <=> Within(d, r)
        /\ \A b, d : From(V, P, G)!Reported(b, d) <=> Reported(b, d)
        /\ \A s : From(V, P, G)!Business(s) <=> Business(s)
        /\ \A r, s : From(V, P, G)!Chosen(r, s) <=> Chosen(r, s)
    BY <1>1 DEF From!Within, Within, From!Reported, Reported, From!Covers, Covers, From!Business, Business,
                From!Chosen, Chosen
  <1>3. \A v : From(V, P, G)!Happened(v) <=> Happened(v)
    BY <1>1 DEF From!Happened, Happened
  <1>4. \A r, b : From(V, P, G)!InScope(r, b) <=> InScope(r, b)
    BY <1>1 DEF From!InScope, InScope
  <1>5. \A p : From(V, P, G)!Physical(p) <=> Physical(p)
    BY DEF From!Physical, Physical
  <1>6. /\ \A p : From(V, P, G)!TopUp(p) <=> TopUp(p)
        /\ \A p, v : From(V, P, G)!DirectMatch(p, v) <=> DirectMatch(p, v)
    BY <1>1 DEF From!TopUp, TopUp, From!DirectMatch, DirectMatch
  <1>7. \A q : From(V, P, G)!CompanyIds(q) = CompanyIds(q)
    BY <1>1, <1>4 DEF From!CompanyIds, CompanyIds, From!Staff, Staff
  <1>8. /\ \A rows : From(V, P, G)!ById(rows) = ById(rows)
        /\ \A vs : From(V, P, G)!Clients(vs) = Clients(vs)
    BY <1>1 DEF From!ById, ById, From!Clients, Clients
  <1>9. QED
    BY <1>1, <1>2, <1>3, <1>4, <1>5, <1>6, <1>7, <1>8

\* Which visits and sales a payment of some branches belongs to, the rows of those branches tell.
LEMMA MatchesAre ==
  ASSUME NEW C, NEW p, p.co \in C
  PROVE  LET V == RowsOf(C, visits)
             P == RowsOf(C, payments)
             G == RowsOf(C, sales)
         IN  /\ \A v : From(V, P, G)!FallbackMatch(p, v) <=> FallbackMatch(p, v)
             /\ \A v : From(V, P, G)!Pays(p, v) <=> Pays(p, v)
             /\ \A g : From(V, P, G)!SaleOf(p, g) <=> SaleOf(p, g)
             /\ From(V, P, G)!Seller(p) = Seller(p)
             /\ From(V, P, G)!Attributed(p) = Attributed(p)
             /\ From(V, P, G)!BusinessPayment(p) <=> BusinessPayment(p)
  <1> DEFINE V == RowsOf(C, visits)
             P == RowsOf(C, payments)
             G == RowsOf(C, sales)
  <1>1. /\ V \subseteq visits /\ \A v \in visits : v.co = p.co => v \in V
        /\ G \subseteq sales /\ \A g \in sales : g.co = p.co => g \in G
    BY DEF RowsOf
  <1> HIDE DEF V, P, G
  <1>2. \A v : From(V, P, G)!FallbackMatch(p, v) <=> FallbackMatch(p, v)
    BY <1>1, ConditionsAre DEF From!FallbackMatch, FallbackMatch
  <1>3. \A v : From(V, P, G)!Pays(p, v) <=> Pays(p, v)
    BY <1>2, ConditionsAre DEF From!Pays, Pays
  <1>4. \A g : From(V, P, G)!SaleOf(p, g) <=> SaleOf(p, g)
    BY <1>1, ConditionsAre DEF From!SaleOf, SaleOf
  <1>5. {g \in G : From(V, P, G)!SaleOf(p, g) /\ g.sale} = {g \in sales : SaleOf(p, g) /\ g.sale}
    <2>1. \A g : SaleOf(p, g) => g.co = p.co
      BY DEF SaleOf
    <2>2. QED
      BY <1>1, <1>4, <2>1
  <1>6. From(V, P, G)!Seller(p) = Seller(p)
    BY <1>5, ConditionsAre DEF From!Seller, Seller
  <1>7. \A v : Pays(p, v) => v.co = p.co
    BY DEF Pays, DirectMatch, FallbackMatch
  <1>8. {v \in V : From(V, P, G)!Pays(p, v) /\ From(V, P, G)!Business(v.staff)}
          = {v \in visits : Pays(p, v) /\ Business(v.staff)}
    BY <1>1, <1>3, <1>7, ConditionsAre
  <1>9. From(V, P, G)!Attributed(p) = Attributed(p)
    <2> DEFINE A == {v \in V : From(V, P, G)!Pays(p, v) /\ From(V, P, G)!Business(v.staff)}
               B == {v \in visits : Pays(p, v) /\ Business(v.staff)}
    <2>1. From(V, P, G)!Attributed(p) =
            IF p.kind = "goods" THEN From(V, P, G)!Seller(p)
            ELSE IF p.master # From(V, P, G)!Null THEN p.master
            ELSE IF A = {} THEN From(V, P, G)!Null ELSE From(V, P, G)!ById(A).staff
      BY DEF From!Attributed
    <2>2. Attributed(p) = IF p.kind = "goods" THEN Seller(p) ELSE IF p.master # Null THEN p.master
                          ELSE IF B = {} THEN Null ELSE ById(B).staff
      BY DEF Attributed
    <2>3. A = B
      BY <1>8
    <2> HIDE DEF A, B
    <2>4. From(V, P, G)!ById(A) = ById(B) /\ From(V, P, G)!Null = Null
      BY <2>3, ConditionsAre
    <2>5. QED
      BY <1>6, <2>1, <2>2, <2>3, <2>4
  <1>10. (\E v \in V : From(V, P, G)!Pays(p, v) /\ From(V, P, G)!Business(v.staff) /\ From(V, P, G)!Happened(v))
           <=> \E v \in visits : Pays(p, v) /\ Business(v.staff) /\ Happened(v)
    BY <1>1, <1>3, <1>7, ConditionsAre
  <1>11. From(V, P, G)!BusinessPayment(p) <=> BusinessPayment(p)
    BY <1>6, <1>10, ConditionsAre DEF From!BusinessPayment, BusinessPayment
  <1>12. QED
    BY <1>2, <1>3, <1>4, <1>6, <1>9, <1>11 DEF V, P, G

\* The rows behind the figures of a question are the same without the rows of other branches.
LEMMA ScopedRows ==
  ASSUME NEW r, NEW C, \A b : InScope(r, b) => b \in C
  PROVE  LET V == RowsOf(C, visits)
             P == RowsOf(C, payments)
             G == RowsOf(C, sales)
         IN  /\ From(V, P, G)!CompletedVisits(r) = CompletedVisits(r)
             /\ From(V, P, G)!SoldGoods(r) = SoldGoods(r)
             /\ From(V, P, G)!PaidServices(r) = PaidServices(r)
             /\ From(V, P, G)!GoodsPayments(r) = GoodsPayments(r)
             /\ From(V, P, G)!TopUpPayments(r) = TopUpPayments(r)
  <1> DEFINE V == RowsOf(C, visits)
             P == RowsOf(C, payments)
             G == RowsOf(C, sales)
  <1>1. /\ \A v : v \in V <=> v \in visits /\ v.co \in C
        /\ \A p : p \in P <=> p \in payments /\ p.co \in C
        /\ \A g : g \in G <=> g \in sales /\ g.co \in C
    BY DEF RowsOf
  <1>2. \A p : p.co \in C => /\ \A v : From(V, P, G)!FallbackMatch(p, v) <=> FallbackMatch(p, v)
                             /\ From(V, P, G)!Attributed(p) = Attributed(p)
                             /\ From(V, P, G)!BusinessPayment(p) <=> BusinessPayment(p)
    BY MatchesAre
  <1> HIDE DEF V, P, G
  <1>3. From(V, P, G)!CompletedVisits(r) = CompletedVisits(r)
    <2>1. ASSUME NEW v PROVE v \in From(V, P, G)!CompletedVisits(r) <=> v \in CompletedVisits(r)
      BY <1>1, ConditionsAre DEF From!CompletedVisits, CompletedVisits, From!History, History
    <2>2. /\ From(V, P, G)!CompletedVisits(r) \subseteq CompletedVisits(r)
          /\ CompletedVisits(r) \subseteq From(V, P, G)!CompletedVisits(r)
      BY <2>1
    <2>3. QED
      BY <2>2
  <1>4. From(V, P, G)!SoldGoods(r) = SoldGoods(r)
    <2>1. ASSUME NEW g PROVE g \in From(V, P, G)!SoldGoods(r) <=> g \in SoldGoods(r)
      BY <1>1, ConditionsAre DEF From!SoldGoods, SoldGoods
    <2>2. From(V, P, G)!SoldGoods(r) \subseteq SoldGoods(r) /\ SoldGoods(r) \subseteq From(V, P, G)!SoldGoods(r)
      BY <2>1
    <2>3. QED
      BY <2>2
  <1>5. ASSUME NEW x
        PROVE  x \in From(V, P, G)!PaidVisits <=> x \in PaidVisits /\ x[3].co \in C
    <2>1. x \in PaidVisits <=>
            \E p \in payments : p.rec # Null /\ \E v \in visits :
               \/ x = <<"direct", p, v>> /\ DirectMatch(p, v)
               \/ x = <<"fallback", p, v>> /\ FallbackMatch(p, v)
      BY DEF PaidVisits
    <2>2. x \in From(V, P, G)!PaidVisits <=>
            \E p \in P : p.rec # Null /\ \E v \in V :
               \/ x = <<"direct", p, v>> /\ DirectMatch(p, v)
               \/ x = <<"fallback", p, v>> /\ From(V, P, G)!FallbackMatch(p, v)
      BY ConditionsAre DEF From!PaidVisits
    <2>3. \A p, v : DirectMatch(p, v) \/ FallbackMatch(p, v) => p.co = v.co
      BY DEF DirectMatch, FallbackMatch
    <2>4. \A p, v : <<"direct", p, v>>[3] = v /\ <<"fallback", p, v>>[3] = v
      OBVIOUS
    <2>5. ASSUME x \in From(V, P, G)!PaidVisits PROVE x \in PaidVisits /\ x[3].co \in C
      <3>1. PICK p \in P, v \in V : /\ p.rec # Null
               /\ \/ x = <<"direct", p, v>> /\ DirectMatch(p, v)
                  \/ x = <<"fallback", p, v>> /\ From(V, P, G)!FallbackMatch(p, v)
        BY <2>2, <2>5
      <3>2. p \in payments /\ v \in visits /\ v.co \in C /\ p.co \in C
        BY <1>1
      <3>3. From(V, P, G)!FallbackMatch(p, v) <=> FallbackMatch(p, v)
        BY <1>2, <3>2
      <3>4. x \in PaidVisits
        BY <2>1, <3>1, <3>2, <3>3
      <3>5. x[3] = v
        BY <2>4, <3>1
      <3>6. QED
        BY <3>2, <3>4, <3>5
    <2>6. ASSUME x \in PaidVisits, x[3].co \in C PROVE x \in From(V, P, G)!PaidVisits
      <3>1. PICK p \in payments, v \in visits : /\ p.rec # Null
               /\ \/ x = <<"direct", p, v>> /\ DirectMatch(p, v)
                  \/ x = <<"fallback", p, v>> /\ FallbackMatch(p, v)
        BY <2>1, <2>6
      <3>2. v.co \in C /\ p.co \in C
        BY <2>3, <2>4, <2>6, <3>1
      <3>3. v \in V /\ p \in P
        BY <1>1, <3>2
      <3>4. QED
        BY <1>2, <2>2, <3>1, <3>2, <3>3
    <2>7. QED
      BY <2>5, <2>6
  <1>6. From(V, P, G)!PaidServices(r) = PaidServices(r)
    <2>1. \A x : x \in From(V, P, G)!PaidServices(r) <=> x \in PaidServices(r)
      BY <1>5, ConditionsAre DEF From!PaidServices, PaidServices
    <2>2. PaidServices(r) \subseteq PaidVisits /\ From(V, P, G)!PaidServices(r) \subseteq From(V, P, G)!PaidVisits
      BY DEF PaidServices, From!PaidServices
    <2>3. QED
      BY <2>1, <2>2
  <1>7. From(V, P, G)!DirectPayments(r) = DirectPayments(r)
    BY <1>1, <1>2, ConditionsAre DEF From!DirectPayments, DirectPayments
  <1>8. \A p \in DirectPayments(r) : From(V, P, G)!Credited(r, p) <=> Credited(r, p)
    <2>1. ASSUME NEW p \in DirectPayments(r) PROVE From(V, P, G)!Attributed(p) = Attributed(p)
      BY <1>2 DEF DirectPayments
    <2>2. ASSUME NEW p \in DirectPayments(r) PROVE From(V, P, G)!Credited(r, p) <=> Credited(r, p)
      <3>1. From(V, P, G)!Chosen(r, Attributed(p)) <=> Chosen(r, Attributed(p))
        BY ConditionsAre
      <3>2. From(V, P, G)!Credited(r, p) <=>
              r.sel.kind = "all" \/ From(V, P, G)!Chosen(r, From(V, P, G)!Attributed(p))
        BY DEF From!Credited
      <3>3. Credited(r, p) <=> r.sel.kind = "all" \/ Chosen(r, Attributed(p))
        BY DEF Credited
      <3>4. QED
        BY <2>1, <3>1, <3>2, <3>3
    <2>3. QED
      BY <2>2
  <1>9. From(V, P, G)!GoodsPayments(r) = GoodsPayments(r) /\ From(V, P, G)!TopUpPayments(r) = TopUpPayments(r)
    BY <1>7, <1>8, ConditionsAre DEF From!GoodsPayments, GoodsPayments, From!TopUpPayments, TopUpPayments
  <1>10. QED
    BY <1>3, <1>4, <1>6, <1>9 DEF V, P, G

\* What the rows are read with.
LEMMA OperatorsAre ==
  ASSUME NEW V, NEW P, NEW G
  PROVE  /\ \A S : From(V, P, G)!Max(S) = Max(S) /\ From(V, P, G)!Min(S) = Min(S)
         /\ \A S : From(V, P, G)!Cardinality(S) = Cardinality(S)
         /\ \A ps : From(V, P, G)!Amount(ps) = Amount(ps)
         /\ \A xs : From(V, P, G)!PairAmount(xs) = PairAmount(xs)
         /\ \A v, S : From(V, P, G)!LineQty(v, S) = LineQty(v, S)
  <1>1. \A S : From(V, P, G)!Max(S) = Max(S) /\ From(V, P, G)!Min(S) = Min(S)
    BY DEF From!Max, Max, From!Min, Min
  <1>2. \A S : From(V, P, G)!Cardinality(S) = Cardinality(S)
    BY DEF From!Cardinality, Cardinality
  <1>3. \A ps : From(V, P, G)!Amount(ps) = Amount(ps)
    BY DEF From!Amount, Amount, From!Total, Total, From!MapThenSumSet, MapThenSumSet,
           From!MapThenFoldSet, MapThenFoldSet
  <1>4. \A ps : From(V, P, G)!PairAmount(ps) = PairAmount(ps)
    BY DEF From!PairAmount, PairAmount, From!Total, Total, From!MapThenSumSet, MapThenSumSet,
           From!MapThenFoldSet, MapThenFoldSet
  <1>5. \A v, S : From(V, P, G)!LineQty(v, S) = LineQty(v, S)
    BY DEF From!LineQty, LineQty, From!Total, Total, From!MapThenSumSet, MapThenSumSet,
           From!MapThenFoldSet, MapThenFoldSet
  <1>6. QED
    BY <1>1, <1>2, <1>3, <1>4, <1>5

\* A summary does not change with the rows of other branches.
LEMMA ScopedSummary ==
  ASSUME NEW r, NEW C, \A b : InScope(r, b) => b \in C
  PROVE  From(RowsOf(C, visits), RowsOf(C, payments), RowsOf(C, sales))!PeriodSummary(r) = PeriodSummary(r)
  <1> DEFINE V == RowsOf(C, visits)
             P == RowsOf(C, payments)
             G == RowsOf(C, sales)
  <1>1. /\ From(V, P, G)!CompletedVisits(r) = CompletedVisits(r)
        /\ From(V, P, G)!SoldGoods(r) = SoldGoods(r)
        /\ From(V, P, G)!PaidServices(r) = PaidServices(r)
        /\ From(V, P, G)!GoodsPayments(r) = GoodsPayments(r)
        /\ From(V, P, G)!TopUpPayments(r) = TopUpPayments(r)
    BY ScopedRows
  <1> HIDE DEF V, P, G
  <1>2. /\ \A ps : From(V, P, G)!Amount(ps) = Amount(ps)
        /\ \A xs : From(V, P, G)!PairAmount(xs) = PairAmount(xs)
    BY OperatorsAre
  <1>3. \A n, d : From(V, P, G)!Ratio(n, d) = Ratio(n, d)
    BY DEF From!Ratio, Ratio
  <1>4. From(V, P, G)!CoverageStatus(r) = CoverageStatus(r)
    <2>1. From(V, P, G)!NoBound = NoBound
      BY ConditionsAre DEF From!NoBound, NoBound
    <2>2. \A w, p : From(V, P, G)!Meets(w, p) = Meets(w, p)
      BY ConditionsAre, OperatorsAre DEF From!Meets, Meets
    <2>3. \A p : From(V, P, G)!Empty(p) <=> Empty(p)
      BY DEF From!Empty, Empty
    <2> DEFINE A == {b \in From(V, P, G)!CompanyIds(r) : ~From(V, P, G)!Empty(From(V, P, G)!Meets(window[b], r))}
               B == {b \in CompanyIds(r) : ~Empty(Meets(window[b], r))}
    <2>4. A = B
      BY <2>2, <2>3, ConditionsAre
    <2>5. From(V, P, G)!CoverageStatus(r) =
            IF A # {} /\ \A b \in A :
                 LET need == From(V, P, G)!Meets(window[b], r)
                     range == covered[<<b, "financials">>]
                 IN  range # From(V, P, G)!NoBound /\ range.from <= need.from /\ range.to >= need.to
            THEN "ready" ELSE "partial"
      BY DEF From!CoverageStatus
    <2>6. CoverageStatus(r) =
            IF B # {} /\ \A b \in B :
                 LET need == Meets(window[b], r)
                     range == covered[<<b, "financials">>]
                 IN  range # NoBound /\ range.from <= need.from /\ range.to >= need.to
            THEN "ready" ELSE "partial"
      BY DEF CoverageStatus
    <2> HIDE DEF A, B
    <2>7. QED
      BY <2>1, <2>2, <2>4, <2>5, <2>6
  <1>5. \A status, vs, service, goods, topup :
          From(V, P, G)!Check(status, vs, service, goods, topup) = Check(status, vs, service, goods, topup)
    BY <1>3, ConditionsAre, OperatorsAre DEF From!Check, Check
  <1>6. From(V, P, G)!AverageCheck(r) = AverageCheck(r)
    BY <1>1, <1>2, <1>4, <1>5 DEF From!AverageCheck, AverageCheck
  <1>7. From(V, P, G)!Services = Services
    BY DEF From!Services, Services
  <1>8. \A b, s : From(V, P, G)!Extra(b, s) <=> Extra(b, s)
    BY DEF From!Extra, Extra
  <1>9. \A b : From(V, P, G)!ExtrasOf(b) = ExtrasOf(b)
    BY <1>7, <1>8 DEF From!ExtrasOf, ExtrasOf
  <1>10. \A v, S : From(V, P, G)!LineQty(v, S) = LineQty(v, S)
    BY OperatorsAre
  <1>11. \A vs, S : From(V, P, G)!Qty(vs, S) = Qty(vs, S)
    BY DEF From!Qty, Qty, From!LineQty, LineQty, From!Total, Total,
           From!MapThenSumSet, MapThenSumSet, From!MapThenFoldSet, MapThenFoldSet
  <1>12. \A vs : From(V, P, G)!ExtraQty(vs) = ExtraQty(vs)
    BY DEF From!ExtraQty, ExtraQty, From!LineQty, LineQty, From!Total, Total, From!ExtrasOf, ExtrasOf,
           From!Services, Services, From!Extra, Extra,
           From!MapThenSumSet, MapThenSumSet, From!MapThenFoldSet, MapThenFoldSet
  <1>13. \A xs : From(V, P, G)!ExtraPaid(xs) = ExtraPaid(xs)
    BY <1>8 DEF From!ExtraPaid, ExtraPaid
  <1>14. From(V, P, G)!RevenueBlock(r) = RevenueBlock(r)
    <2>1. From(V, P, G)!PairAmount(From(V, P, G)!ExtraPaid(From(V, P, G)!PaidServices(r)))
            = PairAmount(ExtraPaid(PaidServices(r)))
      BY <1>1, <1>2, <1>13
    <2>2. From(V, P, G)!Qty(From(V, P, G)!CompletedVisits(r), From(V, P, G)!Services)
          = Qty(CompletedVisits(r), Services)
      BY <1>1, <1>7, <1>11
    <2>3. From(V, P, G)!Total(LAMBDA g : IF g.qty < 0 THEN -g.qty ELSE g.qty, From(V, P, G)!SoldGoods(r))
            = Total(LAMBDA g : IF g.qty < 0 THEN -g.qty ELSE g.qty, SoldGoods(r))
      BY <1>1 DEF From!Total, Total, From!MapThenSumSet, MapThenSumSet, From!MapThenFoldSet, MapThenFoldSet
    <2>4. From(V, P, G)!ExtraQty(From(V, P, G)!CompletedVisits(r)) = ExtraQty(CompletedVisits(r))
      BY <1>1, <1>12
    <2>5. {v \in From(V, P, G)!CompletedVisits(r) : \E l \in v.lines : From(V, P, G)!Extra(v.co, l.service)}
            = {v \in CompletedVisits(r) : \E l \in v.lines : Extra(v.co, l.service)}
      BY <1>1, <1>8
    <2>6. From(V, P, G)!Clients({v \in From(V, P, G)!CompletedVisits(r) :
                                   \E l \in v.lines : From(V, P, G)!Extra(v.co, l.service)})
            = Clients({v \in CompletedVisits(r) : \E l \in v.lines : Extra(v.co, l.service)})
      BY <2>5, ConditionsAre
    <2>7. QED
      BY <2>1, <2>2, <2>3, <2>4, <2>6, OperatorsAre DEF From!RevenueBlock, RevenueBlock
  <1>15. \A check, block : From(V, P, G)!Cards(check, block) = Cards(check, block)
    BY <1>3 DEF From!Cards, Cards
  <1>16. From(V, P, G)!PeriodSummary(r) = PeriodSummary(r)
    BY <1>6, <1>14, <1>15 DEF From!PeriodSummary, PeriodSummary
  <1>17. QED
    BY <1>16 DEF V, P, G

\* A breakdown is read off its counts alone.
LEMMA BreakdownIs ==
  ASSUME NEW V, NEW P, NEW G
  PROVE  /\ \A counts, status : From(V, P, G)!ReadyBreakdown(counts, status) = ReadyBreakdown(counts, status)
         /\ \A q, cos, reason :
              {v \in V : /\ v.co \in cos /\ Within(v.day, q) /\ Business(v.staff)
                         /\ Reported(v.co, v.day) /\ Happened(v) /\ Chosen(q, v.staff)}
              = {v \in visits : /\ v.co \in cos /\ Within(v.day, q) /\ Business(v.staff)
                                /\ Reported(v.co, v.day) /\ Happened(v) /\ Chosen(q, v.staff)}
              => From(V, P, G)!LocalBreakdown(q, cos, reason) = LocalBreakdown(q, cos, reason)
  <1>1. From(V, P, G)!Fields = Fields
    BY DEF From!Fields, Fields
  <1>2. \A counts : From(V, P, G)!Shares(counts) = Shares(counts)
    BY <1>1, OperatorsAre DEF From!Shares, Shares, From!MapThenSumSet, MapThenSumSet,
           From!MapThenFoldSet, MapThenFoldSet, From!Fields, Fields
  <1>3. \A counts, status : From(V, P, G)!ReadyBreakdown(counts, status) = ReadyBreakdown(counts, status)
    BY <1>2 DEF From!ReadyBreakdown, ReadyBreakdown
  <1>4. ASSUME NEW q, NEW cos, NEW reason,
              {v \in V : /\ v.co \in cos /\ Within(v.day, q) /\ Business(v.staff)
                         /\ Reported(v.co, v.day) /\ Happened(v) /\ Chosen(q, v.staff)}
              = {v \in visits : /\ v.co \in cos /\ Within(v.day, q) /\ Business(v.staff)
                                /\ Reported(v.co, v.day) /\ Happened(v) /\ Chosen(q, v.staff)}
        PROVE From(V, P, G)!LocalBreakdown(q, cos, reason) = LocalBreakdown(q, cos, reason)
    <2> DEFINE A == {v \in V : /\ v.co \in cos /\ From(V, P, G)!Within(v.day, q) /\ From(V, P, G)!Business(v.staff)
                               /\ From(V, P, G)!Reported(v.co, v.day) /\ From(V, P, G)!Happened(v)
                               /\ From(V, P, G)!Chosen(q, v.staff)}
               B == {v \in visits : /\ v.co \in cos /\ Within(v.day, q) /\ Business(v.staff)
                                    /\ Reported(v.co, v.day) /\ Happened(v) /\ Chosen(q, v.staff)}
               cancelled(S) == {v \in S : v.att \in {Cancelled}}
               completed(S) == {v \in S : v.att \in {Completed}}
               incomplete(S) == {v \in S : v.att \notin {Completed, Cancelled}}
    <2>1. A = B
      BY <1>4, ConditionsAre
    <2>2. From(V, P, G)!Cancelled = Cancelled
      BY DEF From!Cancelled, Cancelled
    <2>3. From(V, P, G)!LocalBreakdown(q, cos, reason) =
            From(V, P, G)!ReadyBreakdown(
              [total |-> From(V, P, G)!Cardinality(A),
               cancelled |-> From(V, P, G)!Cardinality({v \in A : v.att \in {From(V, P, G)!Cancelled}}),
               completed |-> From(V, P, G)!Cardinality({v \in A : v.att \in {From(V, P, G)!Completed}}),
               incomplete |-> From(V, P, G)!Cardinality(
                 {v \in A : v.att \notin {From(V, P, G)!Completed, From(V, P, G)!Cancelled}})], reason)
      BY DEF From!LocalBreakdown
    <2>4. LocalBreakdown(q, cos, reason) =
            ReadyBreakdown([total |-> Cardinality(B), cancelled |-> Cardinality(cancelled(B)),
                            completed |-> Cardinality(completed(B)),
                            incomplete |-> Cardinality(incomplete(B))], reason)
      BY DEF LocalBreakdown
    <2> HIDE DEF A, B
    <2>5. From(V, P, G)!LocalBreakdown(q, cos, reason) =
            ReadyBreakdown([total |-> Cardinality(A), cancelled |-> Cardinality(cancelled(A)),
                            completed |-> Cardinality(completed(A)),
                            incomplete |-> Cardinality(incomplete(A))], reason)
      <3>1. /\ From(V, P, G)!Cardinality(A) = Cardinality(A)
            /\ From(V, P, G)!Cardinality({v \in A : v.att \in {From(V, P, G)!Cancelled}}) = Cardinality(cancelled(A))
            /\ From(V, P, G)!Cardinality({v \in A : v.att \in {From(V, P, G)!Completed}}) = Cardinality(completed(A))
            /\ From(V, P, G)!Cardinality({v \in A : v.att \notin {From(V, P, G)!Completed, From(V, P, G)!Cancelled}})
               = Cardinality(incomplete(A))
        BY <2>2, ConditionsAre, OperatorsAre
      <3> HIDE DEF cancelled, completed, incomplete
      <3>2. QED
        BY <1>3, <2>3, <3>1
    <2> HIDE DEF cancelled, completed, incomplete
    <2>6. QED
      BY <2>1, <2>4, <2>5
  <1>5. QED
    BY <1>3, <1>4

\* The visits a branch reports up to the end of a question.
Inside(r) == {v \in visits : Reported(v.co, v.day) /\ v.day <= r.to}

\* The least of some numbers is the least of those up to a bound, if there are any.
LEMMA LeastUpTo ==
  ASSUME NEW S \in SUBSET Nat, NEW n \in Int, NEW T, T = {x \in S : x <= n}, T # {}
  PROVE  Min(T) = Min(S) /\ Min(S) \in S /\ \A y \in S : Min(S) <= y
  <1>1. T \in SUBSET Nat /\ S # {} /\ \A x \in S : x \in Nat
    OBVIOUS
  <1>2. Min(S) \in S /\ \A y \in S : Min(S) <= y
    <2>1. \E x \in S : \A y \in S : x <= y
      BY <1>1, LeastIn
    <2>2. QED
      BY <2>1 DEF Min
  <1>3. Min(T) \in T /\ \A y \in T : Min(T) <= y
    <2>1. \E x \in T : \A y \in T : x <= y
      BY <1>1, LeastIn
    <2>2. QED
      BY <2>1 DEF Min
  <1>4. Min(T) \in S /\ Min(T) <= n
    BY <1>3
  <1>5. Min(S) <= Min(T)
    BY <1>2, <1>4
  <1>6. Min(S) \in Nat /\ Min(T) \in Nat
    BY <1>1, <1>2, <1>4
  <1>7. Min(S) \in T
    BY <1>2, <1>4, <1>5, <1>6
  <1>8. Min(T) <= Min(S)
    BY <1>3, <1>7
  <1>9. QED
    BY <1>2, <1>5, <1>6, <1>8

\* Visits outside the window of their branch or after the period are in no figure about visits and clients.
LEMMA OutsideSilent ==
  ASSUME HistoryInv, NEW r, r.to \in Int
  PROVE  From(Inside(r), payments, sales)!VisitFigures(r) = VisitFigures(r)
  <1> DEFINE V == Inside(r)
             P == payments
             G == sales
  <1>1. \A v : v \in V <=> v \in visits /\ Reported(v.co, v.day) /\ v.day <= r.to
    BY DEF Inside
  <1>2. From(V, P, G)!AverageCheck(r).appointments = From(V, P, G)!Cardinality(From(V, P, G)!CompletedVisits(r))
    BY DEF From!AverageCheck, From!Check
  <1>3. AverageCheck(r).appointments = Cardinality(CompletedVisits(r))
    BY DEF AverageCheck, Check
  <1> HIDE DEF V, P, G
  <1>4. From(V, P, G)!CompletedVisits(r) = CompletedVisits(r)
    <2>1. ASSUME NEW v PROVE v \in From(V, P, G)!CompletedVisits(r) <=> v \in CompletedVisits(r)
      BY <1>1, ConditionsAre DEF From!CompletedVisits, CompletedVisits, From!History, History, Within
    <2>2. /\ From(V, P, G)!CompletedVisits(r) \subseteq CompletedVisits(r)
          /\ CompletedVisits(r) \subseteq From(V, P, G)!CompletedVisits(r)
      BY <2>1
    <2>3. QED
      BY <2>2
  <1>5. \A v : v \in From(V, P, G)!History(r) <=> v \in History(r) /\ v.day <= r.to
    BY <1>1, ConditionsAre DEF From!History, History
  <1>6. {v \in From(V, P, G)!History(r) : v.day <= r.to} = {v \in History(r) : v.day <= r.to}
    BY <1>5
  <1>7. From(V, P, G)!AverageCheck(r).appointments = AverageCheck(r).appointments
    BY <1>2, <1>3, <1>4, OperatorsAre
  <1>8. From(V, P, G)!VisitFrequency(r) = VisitFrequency(r)
    <2> DEFINE A == {v \in From(V, P, G)!History(r) : v.day <= r.to}
               B == {v \in History(r) : v.day <= r.to}
               came(c) == Cardinality(VisitsOf(B, c))
               seen(c) == From(V, P, G)!Cardinality(From(V, P, G)!VisitsOf(A, c))
               here == Clients(CompletedVisits(r))
               there == From(V, P, G)!Clients(From(V, P, G)!CompletedVisits(r))
    <2>1. From(V, P, G)!VisitFrequency(r) =
            [total |-> From(V, P, G)!Cardinality(there),
             one |-> From(V, P, G)!Cardinality({c \in there : seen(c) <= OneVisit}),
             few |-> From(V, P, G)!Cardinality({c \in there : OneVisit < seen(c) /\ seen(c) <= FewVisits}),
             many |-> From(V, P, G)!Cardinality({c \in there : seen(c) > FewVisits})]
      BY DEF From!VisitFrequency
    <2>2. VisitFrequency(r) =
            [total |-> Cardinality(here), one |-> Cardinality({c \in here : came(c) <= OneVisit}),
             few |-> Cardinality({c \in here : OneVisit < came(c) /\ came(c) <= FewVisits}),
             many |-> Cardinality({c \in here : came(c) > FewVisits})]
      BY DEF VisitFrequency
    <2>3. here = there
      BY <1>4, ConditionsAre
    <2>4. ASSUME NEW c PROVE seen(c) = came(c)
      <3>1. From(V, P, G)!VisitsOf(A, c) = VisitsOf(B, c)
        BY <1>6 DEF From!VisitsOf, VisitsOf
      <3> HIDE DEF A, B
      <3>2. QED
        BY <3>1, OperatorsAre
    <2> HIDE DEF here, there, came, seen
    <2>5. /\ {c \in there : seen(c) <= OneVisit} = {c \in here : came(c) <= OneVisit}
          /\ {c \in there : OneVisit < seen(c) /\ seen(c) <= FewVisits}
               = {c \in here : OneVisit < came(c) /\ came(c) <= FewVisits}
          /\ {c \in there : seen(c) > FewVisits} = {c \in here : came(c) > FewVisits}
      BY <2>3, <2>4
    <2>6. \A S : From(V, P, G)!Cardinality(S) = Cardinality(S)
      BY OperatorsAre
    <2>7. QED
      BY <2>1, <2>2, <2>3, <2>5, <2>6
  <1> DEFINE here == Clients(CompletedVisits(r))
             first(c) == FirstVisit(History(r), c)
             seen(c) == From(V, P, G)!FirstVisit(From(V, P, G)!History(r), c)
  <1>9. ASSUME NEW c \in here PROVE seen(c) = first(c)
    <2> DEFINE S == {v.day : v \in VisitsOf(History(r), c)}
               T == {v.day : v \in From(V, P, G)!VisitsOf(From(V, P, G)!History(r), c)}
    <2>1. seen(c) = From(V, P, G)!Min(T) /\ first(c) = Min(S)
      BY DEF From!FirstVisit, FirstVisit
    <2>2. T = {x \in S : x <= r.to}
      BY <1>5 DEF From!VisitsOf, VisitsOf
    <2>3. S \in SUBSET Nat
      BY DaysFinite DEF HistoryInv, History, VisitsOf
    <2>4. T # {}
      <3>1. PICK v \in CompletedVisits(r) : v.client = c
        BY <1>9 DEF Clients
      <3>2. v \in VisitsOf(History(r), c) /\ v.day <= r.to
        BY <3>1 DEF CompletedVisits, VisitsOf, Within
      <3>3. v.day \in S
        BY <3>2
      <3> HIDE DEF S
      <3>4. QED
        BY <2>2, <3>2, <3>3
    <2> HIDE DEF S, T
    <2>5. Min(T) = Min(S)
      BY <2>2, <2>3, <2>4, LeastUpTo
    <2>6. QED
      BY <2>1, <2>5, OperatorsAre
  <1>10. From(V, P, G)!ClientRecency(r) = ClientRecency(r)
    <2>1. From(V, P, G)!Clients(From(V, P, G)!CompletedVisits(r)) = here
      BY <1>4, ConditionsAre
    <2>2. From(V, P, G)!ClientRecency(r) =
            [total |-> From(V, P, G)!Cardinality(From(V, P, G)!Clients(From(V, P, G)!CompletedVisits(r))),
             new |-> From(V, P, G)!Cardinality(
               {c \in From(V, P, G)!Clients(From(V, P, G)!CompletedVisits(r)) : seen(c) >= r.from}),
             repeat |-> From(V, P, G)!Cardinality(
               {c \in From(V, P, G)!Clients(From(V, P, G)!CompletedVisits(r)) : seen(c) < r.from})]
      BY DEF From!ClientRecency
    <2>3. ClientRecency(r) = [total |-> Cardinality(here),
                              new |-> Cardinality({c \in here : first(c) >= r.from}),
                              repeat |-> Cardinality({c \in here : first(c) < r.from})]
      BY DEF ClientRecency
    <2> HIDE DEF here, first, seen
    <2>4. /\ {c \in here : seen(c) >= r.from} = {c \in here : first(c) >= r.from}
          /\ {c \in here : seen(c) < r.from} = {c \in here : first(c) < r.from}
      BY <1>9
    <2>5. QED
      BY <2>1, <2>2, <2>3, <2>4, OperatorsAre
  <1> HIDE DEF here, first, seen
  <1>11. From(V, P, G)!FirstVisits(r) = FirstVisits(r)
    <2> DEFINE A == {v \in V : /\ v.att = From(V, P, G)!Completed /\ From(V, P, G)!Business(v.staff)
                               /\ v.day <= r.to /\ From(V, P, G)!Reported(v.co, v.day)
                               /\ From(V, P, G)!InScope(r, v.co) /\ v.client # From(V, P, G)!Null}
               B == {v \in visits : /\ v.att = Completed /\ Business(v.staff) /\ v.day <= r.to
                                    /\ Reported(v.co, v.day) /\ InScope(r, v.co) /\ v.client # Null}
    <2>1. A = B
      BY <1>1, ConditionsAre
    <2>2. From(V, P, G)!FirstVisits(r) =
            {v \in From(V, P, G)!CompletedVisits(r) :
               /\ v.client # From(V, P, G)!Null
               /\ v.day = From(V, P, G)!FirstVisit({u \in A : u.co = v.co}, v.client)}
      BY DEF From!FirstVisits
    <2>3. FirstVisits(r) = {v \in CompletedVisits(r) :
                              v.client # Null /\ v.day = FirstVisit({u \in B : u.co = v.co}, v.client)}
      BY DEF FirstVisits
    <2> HIDE DEF A, B
    <2>4. \A S, c : From(V, P, G)!FirstVisit(S, c) = FirstVisit(S, c)
      BY OperatorsAre DEF From!FirstVisit, FirstVisit, From!VisitsOf, VisitsOf
    <2>5. QED
      BY <1>4, <2>1, <2>2, <2>3, <2>4, ConditionsAre
  <1>12. From(V, P, G)!LocalBreakdown(r, CompanyIds(r), "local") = LocalBreakdown(r, CompanyIds(r), "local")
    <2>1. {v \in V : /\ v.co \in CompanyIds(r) /\ Within(v.day, r) /\ Business(v.staff)
                     /\ Reported(v.co, v.day) /\ Happened(v) /\ Chosen(r, v.staff)}
          = {v \in visits : /\ v.co \in CompanyIds(r) /\ Within(v.day, r) /\ Business(v.staff)
                            /\ Reported(v.co, v.day) /\ Happened(v) /\ Chosen(r, v.staff)}
      BY <1>1 DEF Within
    <2>2. QED
      BY <2>1, BreakdownIs
  <1>13. From(V, P, G)!VisitFigures(r) = VisitFigures(r)
    BY <1>7, <1>8, <1>10, <1>11, <1>12, ConditionsAre DEF From!VisitFigures, VisitFigures
  <1>14. QED
    BY <1>13 DEF V, P, G

\* Rows of other branches are in no figure of a question, and visits outside the window of their branch or
\* after the period in none of its figures about visits and clients.
THEOREM OthersAreSilent == RSpec => []OtherRowsSilent
  <1>1. HistoryInv => OtherRowsSilent
    <2> SUFFICES ASSUME HistoryInv, NEW q \in Questions
                 PROVE  LET mine(rows) == {x \in rows : x.co \in CompanyIds(q)}
                            inside == {v \in visits : Reported(v.co, v.day) /\ v.day <= q.to}
                            r == Resolved(q)
                        IN  /\ From(mine(visits), mine(payments), mine(sales))!PeriodSummary(r) = PeriodSummary(r)
                            /\ From(inside, payments, sales)!VisitFigures(r) = VisitFigures(r)
      BY DEF OtherRowsSilent
    <2>1. q \in AQuestion
      BY QuestionsAssumption DEF AQuestion
    <2>2. /\ Resolved(q).to = q.to /\ q.to \in Int
          /\ \A b : InScope(Resolved(q), b) => b \in CompanyIds(q)
      BY <2>1, ResolvedIs DEF AQuestion
    <2>3. From(RowsOf(CompanyIds(q), visits), RowsOf(CompanyIds(q), payments),
               RowsOf(CompanyIds(q), sales))!PeriodSummary(Resolved(q)) = PeriodSummary(Resolved(q))
      BY <2>2, ScopedSummary
    <2>4. From(Inside(Resolved(q)), payments, sales)!VisitFigures(Resolved(q)) = VisitFigures(Resolved(q))
      BY <2>2, OutsideSilent
    <2>5. Inside(Resolved(q)) = {v \in visits : Reported(v.co, v.day) /\ v.day <= q.to}
      BY <2>2 DEF Inside
    <2>6. QED
      BY <2>3, <2>4, <2>5 DEF RowsOf
  <1>2. QED
    BY <1>1, HistoryInvariant, PTL

-----------------------------------------------------------------------------
(* The run and the reports.                                                *)

\* The behaviours of the run are behaviours of the reports.
LEMMA RunIsReports == MCSpec => RSpec
  <1>1. [RNext /\ Facts' <= MaxFacts /\ Apart']_rvars => [RNext]_rvars
    OBVIOUS
  <1>2. QED
    BY <1>1, PTL DEF MCSpec, RSpec
=============================================================================
