---------------------------- MODULE StaffAccounts ----------------------------
(***************************************************************************)
(* Portal accounts and the rows of the staff table that stand for them in  *)
(* the filters and editors of the dashboard.                               *)
(*                                                                         *)
(* A row of YClients belongs to the CRM, and the sync alone decides whether*)
(* it is fired; an account may be linked to one such row in each of its    *)
(* branches.  Where it has none the portal keeps a mirror row of its own.  *)
(* Administrators create, change, delete, link, unlink and provision       *)
(* accounts in concurrent transactions; opening the list of accounts       *)
(* repairs the mirrors from what it read a moment earlier.                 *)
(*                                                                         *)
(* A transaction is its read and its commit; `rows` and Locks say what it  *)
(* holds in between.  portal_user_id is not a foreign key.                 *)
(***************************************************************************)
EXTENDS Integers, FiniteSets, FiniteSetsExt

CONSTANTS
  Procs,       \* requests in progress
  Made,        \* ids of accounts that an administrator creates
  Crm,         \* ids of the rows of YClients, and of the accounts provisioned from them
  Companies,
  Home,        \* the branch of a row of YClients
  NULL,
  MaxMirrors,  \* bound: mirror rows ever inserted
  MaxOps       \* bound: requests ever begun

Users == Made \cup Crm
Mirrors == 1 .. MaxMirrors
Rows == Crm \cup Mirrors

ASSUME ConstantsAssumption ==
  /\ {MaxMirrors, MaxOps} \subseteq Nat
  /\ Home \in [Crm -> Companies]
  /\ NULL \notin Users \cup Companies
  /\ Made \cap Crm = {} /\ Mirrors \cap Users = {}
  /\ IsFiniteSet(Procs) /\ IsFiniteSet(Companies) /\ IsFiniteSet(Users)

VARIABLES
  user,     \* portal_users with portal_user_branches: state, personal role or not, active, branches
  staff,    \* staff: there, company, portal_user_id, fired
  facts,    \* row |-> sum of the manual facts of one month
  hired,    \* rows that YClients lists as working
  deleted,  \* history: accounts ever deleted
  txn,      \* requests in progress
  ops

vars == <<user, staff, facts, hired, deleted, txn, ops>>

NoUser == [state |-> "none", personal |-> FALSE, active |-> FALSE, branches |-> {}]
NoRow == [there |-> FALSE, company |-> NULL, user |-> NULL, fired |-> TRUE]
NoWrites == [add |-> {}, wake |-> {}, fire |-> {}, sweep |-> {}]
NoTxn == [kind |-> "none", user |-> NULL, seen |-> NoUser, row |-> NULL, rows |-> {}, writes |-> NoWrites]

Init ==
  /\ \E seeded \in SUBSET Made :   \* accounts that were never mirrored
       user = [u \in Users |-> IF u \in seeded
                 THEN [state |-> "live", personal |-> TRUE, active |-> TRUE, branches |-> Companies] ELSE NoUser]
  /\ staff = [r \in Rows |-> IF r \in Crm
                THEN [there |-> TRUE, company |-> Home[r], user |-> NULL, fired |-> FALSE] ELSE NoRow]
  /\ facts = [r \in Rows |-> 0]
  /\ hired = Crm
  /\ deleted = {}
  /\ txn = [p \in Procs |-> NoTxn]
  /\ ops = 0

-----------------------------------------------------------------------------
(* sync_portal_user_staff: what to write, given the rows of an account.    *)

\* portal_user_syncs_to_staff (owners and platform administrators are not here).
Syncs(account) == account.state = "live" /\ account.active

Linked(t, u) == {r \in Rows : t[r].there /\ t[r].user = u}

\* One row stands for a branch: a linked row of YClients over a mirror, a live
\* row over a fired one, a younger over an older one.
Ahead(t, r, s) ==
  \/ r \in Crm /\ s \notin Crm
  \/ (r \in Crm <=> s \in Crm) /\ ~t[r].fired /\ t[s].fired
  \/ (r \in Crm <=> s \in Crm) /\ (t[r].fired <=> t[s].fired) /\ r > s

Stands(t, u, r) == \A s \in Linked(t, u) : s = r \/ t[s].company # t[r].company \/ Ahead(t, r, s)

\* mutant: every mirror of a branch is woken, the second one too
BadRepairsAll(t, u, account) ==
  IF ~Syncs(account) \/ account.branches = {} THEN NoWrites
    ELSE LET rows == Linked(t, u)
             kept == {r \in rows \ Crm : t[r].company \in account.branches}
         IN  [add |-> {u} \X (account.branches \ {t[r].company : r \in rows}),
              wake |-> {r \in kept : t[r].fired},
              fire |-> {r \in (rows \ Crm) \ kept : ~t[r].fired},
              sweep |-> {}]

\* [add: branches without a row, wake and fire: mirrors, sweep: whose mirrors all go]
Repairs(t, u, account) ==
  IF ~Syncs(account) \/ account.branches = {}
    THEN [NoWrites EXCEPT !.sweep = IF \E r \in Linked(t, u) \ Crm : ~t[r].fired THEN {u} ELSE {}]
    ELSE LET rows == Linked(t, u)
             kept == {r \in rows \ Crm : t[r].company \in account.branches /\ Stands(t, u, r)}
         IN  [add |-> {u} \X (account.branches \ {t[r].company : r \in rows}),
              wake |-> {r \in kept : t[r].fired},
              fire |-> {r \in (rows \ Crm) \ kept : ~t[r].fired},
              sweep |-> {}]

Together(ws) == [add |-> UNION {w.add : w \in ws}, wake |-> UNION {w.wake : w \in ws},
                 fire |-> UNION {w.fire : w \in ws}, sweep |-> UNION {w.sweep : w \in ws}]

Touched(t, w) == w.wake \cup w.fire \cup {r \in Mirrors : t[r].there /\ t[r].user \in w.sweep}

\* New mirrors take free ids, one for each <<account, branch>>.
Fresh(t, w) ==
  LET free == {r \in Mirrors : ~t[r].there}
  IN  {f \in [w.add -> free] : \A a, b \in w.add : a # b => f[a] # f[b]}

Written(t, w, f) ==
  [r \in Rows |->
     IF \E a \in w.add : f[a] = r
       THEN LET a == CHOOSE a \in w.add : f[a] = r
            IN  [there |-> TRUE, company |-> a[2], user |-> a[1], fired |-> FALSE]
     ELSE IF r \in w.wake THEN [t[r] EXCEPT !.fired = FALSE]
     ELSE IF r \in w.fire \/ (r \in Mirrors /\ t[r].there /\ t[r].user \in w.sweep)
       THEN [t[r] EXCEPT !.fired = TRUE]
     ELSE t[r]]

-----------------------------------------------------------------------------
(* Locks.                                                                  *)

\* SELECT ... FOR UPDATE locks nothing where the account is gone: see LinkClaim.
Holder(p) == txn[p].kind \in {"update", "claimed"}
AccountFree(u) == \A p \in Procs : ~(Holder(p) /\ txn[p].user = u)
RowsFree(rs) == \A p \in Procs : txn[p].rows \cap rs = {}

Begin(p, t) ==
  /\ txn[p] = NoTxn /\ ops < MaxOps
  /\ txn' = [txn EXCEPT ![p] = t]
  /\ ops' = ops + 1

Finish(p) == txn' = [txn EXCEPT ![p] = NoTxn] /\ ops' = ops

-----------------------------------------------------------------------------
(* Requests of administrators.                                             *)

\* POST /admin/users: an account that administers branches.
CreateUser(u, bs) ==
  /\ user[u].state = "none" /\ bs # {}
  /\ ops < MaxOps /\ ops' = ops + 1
  /\ user' = [user EXCEPT ![u] = [state |-> "live", personal |-> FALSE, active |-> TRUE, branches |-> bs]]
  /\ \E f \in Fresh(staff, Repairs(staff, u, user'[u])) :
       staff' = Written(staff, Repairs(staff, u, user'[u]), f)
  /\ UNCHANGED <<facts, hired, deleted, txn>>

\* PATCH /admin/users/{id}: the account is flushed, then its rows are read.
UpdateFlush(p, u, account) ==
  /\ user[u].state = "live" /\ AccountFree(u)
  /\ account.state = "live" /\ account # user[u] /\ account.branches # {}
  /\ Begin(p, [NoTxn EXCEPT !.kind = "update", !.user = u, !.seen = account,
                            !.writes = Repairs(staff, u, account)])
  /\ UNCHANGED <<user, staff, facts, hired, deleted>>

UpdateCommit(p) ==
  /\ txn[p].kind = "update"
  /\ RowsFree(Touched(staff, txn[p].writes))
  /\ user' = [user EXCEPT ![txn[p].user] = txn[p].seen]
  /\ \E f \in Fresh(staff, txn[p].writes) : staff' = Written(staff, txn[p].writes, f)
  /\ Finish(p)
  /\ UNCHANGED <<facts, hired, deleted>>

\* DELETE /admin/users/{id}: the rows are detached, then the account goes.
DeleteDetach(p, u) ==
  /\ user[u].state = "live" /\ RowsFree(Linked(staff, u))
  /\ Begin(p, [NoTxn EXCEPT !.kind = "delete", !.user = u, !.rows = Linked(staff, u)])
  /\ UNCHANGED <<user, staff, facts, hired, deleted>>

DeleteCommit(p) ==
  /\ txn[p].kind = "delete" /\ AccountFree(txn[p].user)
  /\ user' = [user EXCEPT ![txn[p].user] = [NoUser EXCEPT !.state = "gone"]]
  /\ staff' = [r \in Rows |-> IF r \notin txn[p].rows THEN staff[r]
                              ELSE IF r \in Crm THEN [staff[r] EXCEPT !.user = NULL]
                              ELSE [staff[r] EXCEPT !.fired = TRUE]]
  /\ deleted' = deleted \cup {txn[p].user}
  /\ Finish(p)
  /\ UNCHANGED <<facts, hired>>

\* GET /admin/users: the mirrors of every account are compared ...
RepairRead(p) ==
  /\ Begin(p, [NoTxn EXCEPT !.kind = "repair",
                 !.writes = Together({Repairs(staff, u, user[u]) : u \in {v \in Users : Syncs(user[v])}})])
  /\ txn'[p].writes # NoWrites
  /\ UNCHANGED <<user, staff, facts, hired, deleted>>

\* ... and what differed is written, to the row ids that were read.
RepairCommit(p) ==
  /\ txn[p].kind = "repair"
  /\ RowsFree(Touched(staff, txn[p].writes))
  /\ \E f \in Fresh(staff, txn[p].writes) : staff' = Written(staff, txn[p].writes, f)
  /\ Finish(p)
  /\ UNCHANGED <<user, facts, hired, deleted>>

\* POST /admin/users/{id}/staff-links: the account is loaded ...
LinkLoad(p, u, s) ==
  /\ user[u].state = "live" /\ user[u].personal
  /\ Begin(p, [NoTxn EXCEPT !.kind = "link", !.user = u, !.seen = user[u], !.row = s])
  /\ UNCHANGED <<user, staff, facts, hired, deleted>>

Linkable(u, s, seen) ==
  /\ staff[s].there /\ ~staff[s].fired /\ staff[s].user = NULL
  /\ staff[s].company \in seen.branches
  /\ \A r \in Linked(staff, u) \cap Crm : staff[r].company # staff[s].company

\* mutant: the account is not locked before its links are counted
BadLinkClaim(p) ==
  /\ txn[p].kind = "link"
  /\ LET u == txn[p].user
         s == txn[p].row
         mirrors == {r \in Linked(staff, u) \cap Mirrors : staff[r].company = staff[s].company}
     IN  IF Linkable(u, s, txn[p].seen)
           THEN /\ RowsFree({s} \cup mirrors)
                /\ txn' = [txn EXCEPT ![p].kind = IF user[u].state = "live" THEN "claimed" ELSE "stray",
                                      ![p].rows = {s} \cup mirrors]
                /\ ops' = ops
           ELSE Finish(p)
  /\ UNCHANGED <<user, staff, facts, hired, deleted>>

\* ... its row is locked, and the row of YClients and the mirrors are taken.
LinkClaim(p) ==
  /\ txn[p].kind = "link" /\ AccountFree(txn[p].user)
  /\ LET u == txn[p].user
         s == txn[p].row
         mirrors == {r \in Linked(staff, u) \cap Mirrors : staff[r].company = staff[s].company}
     IN  IF Linkable(u, s, txn[p].seen)
           THEN /\ RowsFree({s} \cup mirrors)
                /\ txn' = [txn EXCEPT ![p].kind = IF user[u].state = "live" THEN "claimed" ELSE "stray",
                                      ![p].rows = {s} \cup mirrors]
                /\ ops' = ops
           ELSE Finish(p)
  /\ UNCHANGED <<user, staff, facts, hired, deleted>>

\* mutant: the facts of the mirror replace those of the row
BadLinkCommit(p) ==
  /\ txn[p].kind \in {"claimed", "stray"}
  /\ LET s == txn[p].row
         mirrors == txn[p].rows \ {s}
     IN  /\ staff' = [r \in Rows |-> IF r = s THEN [staff[s] EXCEPT !.user = txn[p].user]
                                     ELSE IF r \in mirrors THEN [staff[r] EXCEPT !.fired = TRUE, !.user = NULL]
                                     ELSE staff[r]]
         /\ facts' = [r \in Rows |-> IF r = s /\ mirrors # {} THEN MapThenSumSet(LAMBDA m : facts[m], mirrors)
                                     ELSE IF r \in mirrors THEN 0 ELSE facts[r]]
  /\ Finish(p)
  /\ UNCHANGED <<user, hired, deleted>>

\* The mirrors retire: their facts are added to the row, they are fired and detached.
LinkCommit(p) ==
  /\ txn[p].kind \in {"claimed", "stray"}
  /\ LET s == txn[p].row
         mirrors == txn[p].rows \ {s}
     IN  /\ staff' = [r \in Rows |-> IF r = s THEN [staff[s] EXCEPT !.user = txn[p].user]
                                     ELSE IF r \in mirrors THEN [staff[r] EXCEPT !.fired = TRUE, !.user = NULL]
                                     ELSE staff[r]]
         /\ facts' = [r \in Rows |-> IF r = s THEN MapThenSumSet(LAMBDA m : facts[m], txn[p].rows)
                                     ELSE IF r \in mirrors THEN 0 ELSE facts[r]]
  /\ Finish(p)
  /\ UNCHANGED <<user, hired, deleted>>

\* DELETE /admin/users/{id}/staff-links/{staff_id}: the account is loaded ...
UnlinkLoad(p, u, s) ==
  /\ user[u].state = "live" /\ staff[s].user = u
  /\ Begin(p, [NoTxn EXCEPT !.kind = "unlink", !.user = u, !.seen = user[u], !.row = s])
  /\ UNCHANGED <<user, staff, facts, hired, deleted>>

\* ... the row is released, and the branch gets its mirror back.
UnlinkCommit(p) ==
  /\ txn[p].kind = "unlink" /\ AccountFree(txn[p].user)
  /\ LET u == txn[p].user
         s == txn[p].row
         released == [staff EXCEPT ![s].user = NULL]
         w == Repairs(released, u, txn[p].seen)
     IN  IF staff[s].user = u
           THEN /\ RowsFree({s} \cup Touched(released, w))
                /\ \E f \in Fresh(released, w) : staff' = Written(released, w, f)
           ELSE staff' = staff
  /\ Finish(p)
  /\ UNCHANGED <<user, facts, hired, deleted>>

\* POST /admin/staff/{id}/create-account: the row is loaded and checked ...
ProvisionLoad(p, s) ==
  /\ staff[s].there /\ ~staff[s].fired /\ staff[s].user = NULL
  /\ user[s].state # "live"
  /\ Begin(p, [NoTxn EXCEPT !.kind = "provision", !.user = s, !.row = s])
  /\ UNCHANGED <<user, staff, facts, hired, deleted>>

\* ... and the account takes its id, unless another request has made it.
ProvisionCommit(p) ==
  /\ txn[p].kind = "provision"
  /\ LET s == txn[p].row
     IN  IF user[s].state # "live"
           THEN /\ RowsFree({s})
                /\ user' = [user EXCEPT ![s] = [state |-> "live", personal |-> TRUE, active |-> TRUE,
                                                branches |-> {Home[s]}]]
                /\ staff' = [staff EXCEPT ![s].user = s]
           ELSE UNCHANGED <<user, staff>>
  /\ Finish(p)
  /\ UNCHANGED <<facts, hired, deleted>>

-----------------------------------------------------------------------------
(* The editors and the sync.                                               *)

\* Somebody enters a manual fact for a row that works.
EnterFact(r) ==
  /\ staff[r].there /\ ~staff[r].fired /\ facts[r] = 0
  /\ RowsFree({r})
  /\ facts' = [facts EXCEPT ![r] = 1]
  /\ UNCHANGED <<user, staff, hired, deleted, txn, ops>>

\* YClients hires or fires somebody.
HireOrFire(s) ==
  /\ ops < MaxOps /\ ops' = ops + 1
  /\ hired' = IF s \in hired THEN hired \ {s} ELSE hired \cup {s}
  /\ UNCHANGED <<user, staff, facts, deleted, txn>>

\* sync_staff of a branch: the rows of YClients, linked or not, are as it says.
SyncStaff(b) ==
  LET rows == {r \in Crm : staff[r].there /\ staff[r].company = b}
  IN  /\ RowsFree(rows)
      /\ staff' = [r \in Rows |-> IF r \in rows THEN [staff[r] EXCEPT !.fired = (r \notin hired)] ELSE staff[r]]
      /\ UNCHANGED <<user, facts, hired, deleted, txn, ops>>

-----------------------------------------------------------------------------

WorkingAccounts == [state : {"live"}, personal : BOOLEAN, active : BOOLEAN, branches : SUBSET Companies]

Request(p) ==
  \/ RepairRead(p)
  \/ \E u \in Users :
       \/ DeleteDetach(p, u)
       \/ \E a \in WorkingAccounts : UpdateFlush(p, u, a)
       \/ \E s \in Crm : LinkLoad(p, u, s) \/ UnlinkLoad(p, u, s)
  \/ \E s \in Crm : ProvisionLoad(p, s)

Proceed(p) ==
  \/ UpdateCommit(p) \/ DeleteCommit(p) \/ RepairCommit(p) \/ LinkClaim(p) \/ LinkCommit(p)
  \/ UnlinkCommit(p) \/ ProvisionCommit(p)

Next ==
  \/ \E p \in Procs : Request(p) \/ Proceed(p)
  \/ \E u \in Made, bs \in SUBSET Companies : CreateUser(u, bs)
  \/ \E r \in Rows : EnterFact(r)
  \/ \E s \in Crm : HireOrFire(s)
  \/ \E b \in Companies : SyncStaff(b)

Spec == Init /\ [][Next]_vars

-----------------------------------------------------------------------------
(* Properties.                                                             *)

TypeOK ==
  /\ user \in [Users -> [state : {"none", "live", "gone"}, personal : BOOLEAN, active : BOOLEAN,
                         branches : SUBSET Companies]]
  /\ staff \in [Rows -> [there : BOOLEAN, company : Companies \cup {NULL}, user : Users \cup {NULL},
                         fired : BOOLEAN]]
  /\ \A r \in Rows : staff[r].there <=> staff[r].company # NULL
  /\ facts \in [Rows -> Nat]
  /\ hired \subseteq Crm /\ deleted \subseteq Users
  /\ ops \in 0 .. MaxOps

LinkedOnce(u) ==
  \A r, s \in Linked(staff, u) \cap Crm : staff[r].company = staff[s].company => r = s

\* «One linked row per branch» cannot be raced past, while no account of that id
\* was deleted: an account that could see two rows of a branch would count two
\* people's numbers as its own.
LinkedOnceUntilDeleted == \A u \in Users \ deleted : LinkedOnce(u)

\* The words of link_staff's docstring, for every account.  Not an invariant: a link
\* that finds its account deleted has nothing to lock and is written all the same,
\* and the next account of that id has it (found with MaxOps = 4).
OneLinkPerBranch == \A u \in Users : LinkedOnce(u)

\* What a repair leaves, from any table that races can produce: in each branch
\* of a working account one row stands for it (an id that was deleted may have
\* more rows of YClients there, and no mirror next to them), and opening the
\* list once more writes nothing.
Standing(t, u, b) == {r \in Linked(t, u) : t[r].company = b /\ (r \in Crm \/ ~t[r].fired)}
StandsAlone(rows, u) == \E r \in rows : rows = {r} \/ (u \in deleted /\ rows \subseteq Crm)
RepairSettles ==
  LET accounts == {v \in Users : Syncs(user[v])}
      w == Together({Repairs(staff, u, user[u]) : u \in accounts})
  IN  \A f \in Fresh(staff, w) :
        LET t == Written(staff, w, f)
        IN  \A u \in accounts :
              /\ Repairs(t, u, user[u]) = NoWrites
              /\ \A b \in Companies :
                   LET rows == Standing(t, u, b)
                   IN  IF b \in user[u].branches THEN StandsAlone(rows, u) ELSE rows \subseteq Crm

\* Manual facts move with the person and are never lost or counted twice.
FactsConserved ==
  [][LET Sum(f) == MapThenSumSet(LAMBDA r : f[r], Rows)
     IN  Sum(facts') = Sum(facts) + (IF \E r \in Rows : EnterFact(r) THEN 1 ELSE 0)]_vars
=============================================================================
