----------------------------- MODULE DatedFetch -----------------------------
(***************************************************************************)
(* One step of a run that reads the rows of a window from YClients and     *)
(* stores them: YClientsAPI halves the window until every piece fits on    *)
(* one page, reads a day that does not fit page by page, and tells the     *)
(* step whether the window may be purged before the rows are stored.       *)
(* Meanwhile people keep adding, moving and deleting rows in YClients.     *)
(*                                                                         *)
(* YClients sorts the rows of a window by day and breaks the ties of a day *)
(* anew for every request.  It honours the dates, the page number and the  *)
(* total, or it does not (Endpoints).                                      *)
(***************************************************************************)
EXTENDS Integers, Sequences, FiniteSets, FiniteSetsExt

CONSTANTS
  Rows, LastDay,
  Windows,         \* the <<first, last>> days a step may be asked for
  Starts,          \* the days of the rows, as they may be at first
  Endpoints,       \* [dates, pages, counts : BOOLEAN]: what the endpoint honours
  PageSize,        \* MAX_PER_PAGE
  Base, PerPage,   \* SPLIT_REQUESTS_BASE, SPLIT_REQUESTS_PER_PAGE
  MaxChanges,      \* bound: changes made in YClients
  MaxSteps,        \* bound: steps
  ManyRequests, ManyItems   \* bounds at which the counters of a fetch stop

ASSUME FetchAssumption ==
  /\ IsFiniteSet(Rows) /\ LastDay \in Nat \ {0}
  /\ Windows \subseteq (1 .. LastDay) \X (1 .. LastDay)
  /\ Starts \subseteq [Rows -> 0 .. LastDay]
  /\ Endpoints \subseteq [dates : BOOLEAN, pages : BOOLEAN, counts : BOOLEAN]
  /\ {PageSize, Base, PerPage} \subseteq Nat \ {0}
  /\ {MaxChanges, MaxSteps, ManyRequests, ManyItems} \subseteq Nat
  /\ ManyItems > PageSize + Cardinality(Rows)
  /\ ManyRequests > Base + PerPage * Cardinality(Rows)

VARIABLES
  source,          \* the day of each row in YClients; 0: it has none
  stored,          \* the day of each row in the mirror
  endpoint,
  step,            \* "idle", "probe", "walk" (a busy day, page by page) or "store"
  window, full,    \* the arguments of the step
  todo,            \* the ranges still to be read
  got,             \* rows returned so far, by the day they had: _split_seen
  page, items, count,   \* of a walk: the page number, all_items and its length
  requests,        \* _split_requests
  complete,        \* last_dated_fetch_complete
  steady,          \* history: the rows nobody touched since the step began
  shrunk,          \* history: a row left the rows of a walk that was under way
  changes, steps

fetch == <<window, full, endpoint>>
progress == <<todo, got, page, items, count, requests, complete>>
history == <<steady, shrunk>>
fetchVars == <<source, stored, fetch, step, progress, history, changes, steps>>

Nothing == [r \in Rows |-> 0]
Held(days) == {r \in Rows : days[r] # 0}
Within(days, w) == {r \in Rows : w[1] <= days[r] /\ days[r] <= w[2]}

FetchInit ==
  /\ source \in Starts
  /\ stored \in {source, Nothing}
  /\ endpoint \in Endpoints
  /\ window = <<1, LastDay>> /\ full = FALSE
  /\ step = "idle" /\ todo = <<>> /\ got = Nothing
  /\ page = 1 /\ items = Nothing /\ count = 0 /\ requests = 0
  /\ complete = TRUE /\ steady = {} /\ shrunk = FALSE
  /\ changes = 0 /\ steps = 0

(***************************************************************************)
(* The answers of YClients.                                                *)
(***************************************************************************)
Matching(w) == IF endpoint.dates THEN Within(source, w) ELSE Held(source)

Prefix(S, all) == \A r \in S, q \in all \ S : source[r] <= source[q]

(* The rows that may stand on page p of the rows of a window. *)
Answers(w, p) ==
  LET all == Matching(w)
      skip == IF endpoint.pages THEN (p - 1) * PageSize ELSE 0
      passed == Min({skip, Cardinality(all)})
      size == Min({PageSize, Cardinality(all) - passed}) IN
  {A \in kSubset(size, all) :
     \E B \in kSubset(passed, all \ A) : Prefix(B, all) /\ Prefix(A \cup B, all)}

Dated(A) == [r \in Rows |-> IF r \in A THEN source[r] ELSE 0]

(***************************************************************************)
(* Reading a window.                                                       *)
(***************************************************************************)
(* _keep_new_rows: what was returned first stands. *)
KeepNewRows(rows) == got' = [r \in Rows |-> IF got[r] # 0 THEN got[r] ELSE rows[r]]

(* A mutant: the budget grows with every row served again. *)
BadAllowed == Base + PerPage * (requests \div PageSize)
Allowed == Base + PerPage * (Cardinality(Held(got)) \div PageSize)

(* The request is made unless the budget is spent. *)
SpendSplitBudget == requests < Allowed /\ requests' = Min({requests + 1, ManyRequests})

BeginStep(w, f) ==
  /\ step = "idle" /\ steps < MaxSteps
  /\ window' = w /\ full' = f
  /\ step' = "probe" /\ todo' = <<w>> /\ got' = Nothing
  /\ requests' = 0 /\ complete' = TRUE
  /\ steady' = Held(source) /\ shrunk' = FALSE /\ steps' = steps + 1
  /\ UNCHANGED <<source, stored, endpoint, page, items, count, changes>>

Taken(w) == todo' = Tail(todo) /\ step' = IF Tail(todo) = <<>> THEN "store" ELSE "probe"

(* A mutant: the second half starts a day late. *)
BadHalves(w) ==
  LET mid == w[1] + (w[2] - w[1]) \div 2 IN <<<<w[1], mid>>, <<mid + 2, w[2]>>>>
Halves(w) ==
  LET mid == w[1] + (w[2] - w[1]) \div 2 IN <<<<w[1], mid>>, <<mid + 1, w[2]>>>>

(* The first page of a range decides. *)
Probe ==
  /\ step = "probe" /\ SpendSplitBudget
  /\ LET w == Head(todo) IN
     \E A \in Answers(w, 1) :
       \/ /\ Cardinality(A) < PageSize
          /\ KeepNewRows(Dated(A)) /\ Taken(w)
          /\ UNCHANGED <<page, items, count>>
       \/ /\ Cardinality(A) >= PageSize /\ w[1] < w[2]
          /\ todo' = Halves(w) \o Tail(todo)
          /\ UNCHANGED <<got, step, page, items, count>>
       \/ /\ Cardinality(A) >= PageSize /\ w[1] >= w[2]
          /\ step' = "walk" /\ page' = 1 /\ items' = Nothing /\ count' = 0
          /\ UNCHANGED <<got, todo>>
  /\ UNCHANGED <<source, stored, fetch, complete, history, changes, steps>>

(* Is this page the last one that _get_all_pages asks for? *)
LastPage(A, n) ==
  \/ Cardinality(A) < PageSize
  \/ endpoint.counts /\ n >= Cardinality(Matching(Head(todo)))

(* A mutant: a day that fills two pages counts as safe. *)
BadExposed(n) == n > 2 * PageSize
Exposed(n) == n > PageSize

ReadPage ==
  /\ step = "walk" /\ SpendSplitBudget
  /\ \E A \in Answers(Head(todo), page) :
       LET n == Min({count + Cardinality(A), ManyItems})
           read == [r \in Rows |-> IF items[r] # 0 THEN items[r] ELSE Dated(A)[r]] IN
       \/ /\ LastPage(A, n)
          /\ complete' = (complete /\ ~Exposed(n))
          /\ KeepNewRows(read) /\ Taken(Head(todo))
          /\ page' = 1 /\ items' = Nothing /\ count' = 0
       \/ /\ ~LastPage(A, n)
          /\ page' = Min({page + 1, ManyItems}) /\ items' = read /\ count' = n
          /\ UNCHANGED <<complete, got, todo, step>>
  /\ UNCHANGED <<source, stored, fetch, history, changes, steps>>

(* A request fails after its retries, the answer cannot be used, or the *)
(* budget is spent: run_sync_step takes the error and the run goes on.  *)
Abandon ==
  /\ step \in {"probe", "walk"}
  /\ step' = "idle" /\ todo' = <<>>
  /\ page' = 1 /\ items' = Nothing /\ count' = 0 /\ requests' = 0 /\ got' = Nothing
  /\ UNCHANGED <<source, stored, fetch, complete, history, changes, steps>>

OutOfBudget == requests >= Allowed /\ Abandon

(***************************************************************************)
(* Storing what was read.                                                  *)
(***************************************************************************)
(* A mutant: the step purges whatever the client says of the window. *)
BadWindowSafeToPurge == full
WindowSafeToPurge == full /\ complete

(* An empty answer deletes nothing; otherwise the window is purged, if that *)
(* is safe, and the rows are inserted or updated in the same transaction.   *)
Store ==
  /\ step = "store"
  /\ LET purged == IF Held(got) # {} /\ WindowSafeToPurge THEN Within(stored, window) ELSE {} IN
     stored' = [r \in Rows |-> IF got[r] # 0 THEN got[r] ELSE IF r \in purged THEN 0 ELSE stored[r]]
  /\ step' = "idle" /\ requests' = 0 /\ got' = Nothing
  /\ UNCHANGED <<source, fetch, todo, page, items, count, complete, history, changes, steps>>

(* The transaction fails and is rolled back. *)
RollBack ==
  /\ step = "store"
  /\ step' = "idle" /\ requests' = 0 /\ got' = Nothing
  /\ UNCHANGED <<source, stored, fetch, todo, page, items, count, complete, history, changes, steps>>

(***************************************************************************)
(* Somebody adds, moves or deletes a row in YClients.                      *)
(***************************************************************************)
Change(r, d) ==
  /\ changes < MaxChanges /\ source[r] # d
  /\ source' = [source EXCEPT ![r] = d]
  /\ changes' = changes + 1
  /\ steady' = steady \ {r}
  /\ shrunk' = (shrunk \/ (step = "walk" /\ page > 1 /\ r \in Matching(Head(todo))))
  /\ UNCHANGED <<stored, fetch, step, progress, steps>>

Advance == Probe \/ ReadPage \/ Store \/ RollBack \/ OutOfBudget

FetchNext ==
  \/ \E w \in Windows, f \in BOOLEAN : BeginStep(w, f)
  \/ Probe \/ ReadPage \/ Abandon \/ OutOfBudget \/ Store \/ RollBack
  \/ \E r \in Rows, d \in 0 .. LastDay : Change(r, d)

FetchSpec == FetchInit /\ [][FetchNext]_fetchVars
(* A worker runs one step after another; nothing is assumed of YClients. *)
FairFetch == FetchSpec /\ WF_fetchVars(Advance)
-----------------------------------------------------------------------------
(* Once the window counts as complete, every row of it that nobody touched  *)
(* since the step began was read, however the ties were broken, unless a    *)
(* row left a busy day between two of its pages (_fetch_single_page_ranges).*)
SteadyRowsRead ==
  step = "store" /\ complete /\ ~shrunk
    => steady \cap Within(source, window) \subseteq Held(got)

(* No step takes a row out of the mirror that is still where it says: what  *)
(* cannot be read reliably is not purged (_window_safe_to_purge), and an    *)
(* endpoint that stops honouring dates or pages costs no rows.              *)
NoSteadyRowLost ==
  [][\A r \in Held(stored) \ Held(stored') :
        r \notin steady \/ stored[r] # source[r] \/ shrunk]_fetchVars

(* Whatever the endpoint serves, a step ends: one that ignores the dates or *)
(* the page number spends the budget (_spend_split_budget).                 *)
FetchEnds == (step # "idle") ~> (step = "idle")
=============================================================================
