----------------------------- MODULE ManualFacts -----------------------------
(***************************************************************************)
(* The hand-entered facts of one month (reviews, additional OPZ): the rows *)
(* of manual_fact_metrics, the transactions that save them, and the editor *)
(* pages of several people with the drafts their browser tabs keep.        *)
(*                                                                         *)
(* There is no lock between two people.  A page posts every row it shows,  *)
(* with the value it showed (`previous_value`); the server refuses the     *)
(* whole batch when a changed row no longer holds that value.  A page can  *)
(* be reloaded at any time, and an answer lost: what was typed comes back  *)
(* from the draft, if the server still shows what it was typed over.       *)
(*                                                                         *)
(* On the server one action is one statement, as far as another            *)
(* transaction can notice it; on a page, one event.                        *)
(***************************************************************************)
EXTENDS Integers, FiniteSets

CONSTANTS
  NRows,      \* rows of the editor: (branch, administrator) in key order
  Values,     \* counts that a cell may hold
  NULL,       \* nothing entered
  Hidden,     \* the page shows no such row
  Nothing,    \* no draft of a row
  Editors,    \* browser tabs with the editor open
  Saves,      \* slots for POST requests in progress
  Movers,     \* rows whose staff member may come and go
  Split,      \* rows that may still be split over several database rows
  MaxPosts,   \* bound: saves ever sent
  MaxEdits,   \* bound: cells ever typed into
  MaxTrouble, \* bound: reloads, failures and lost answers
  Starts      \* bound: how much of the bounds a behaviour may begin with as spent

Rows == 1 .. NRows
Legacy == {-1, -2}   \* ids of rows from before a month was one row

ASSUME EditorAssumption ==
  /\ {NRows, MaxPosts, MaxEdits, MaxTrouble} \subseteq Nat
  /\ NULL \notin Values /\ Hidden \notin Values \cup {NULL}
  /\ Starts \subseteq [posts : 0 .. MaxPosts, edits : 0 .. MaxEdits, trouble : 0 .. MaxTrouble]
  /\ NULL \notin Editors /\ Movers \subseteq Rows /\ Split \subseteq Rows

VARIABLES
  stored,   \* row |-> the ids and the sum of what manual_fact_metrics holds for it
  active,   \* rows whose staff member is an administrator of this month
  txn,      \* saves in progress
  page,     \* what a tab shows: mode, values of the last answer, cells, pending draft
  over,     \* history: tab |-> row |-> the value that was shown when the cell was typed
  draft,    \* sessionStorage of a tab: row |-> what was typed over what
  spent     \* how many saves, edits and troubles there were so far

editVars == <<stored, active, txn, page, over, draft, spent>>

Cells == Values \cup {NULL}

Empty == [ids |-> {}, value |-> NULL]
NoRows == [r \in Rows |-> Hidden]
NoDraft == [r \in Rows |-> Nothing]
ClosedPage == [mode |-> "opening", shown |-> NoRows, cells |-> NoRows, timer |-> FALSE,
               refused |-> FALSE]
NoItem == [value |-> Hidden, previous |-> Hidden, over |-> Hidden]
FreeSlot == [step |-> "free", by |-> NULL, id |-> 0, items |-> [r \in Rows |-> NoItem],
             read |-> [r \in Rows |-> {}], todo |-> {}, mine |-> {}]

EditInit ==
  /\ stored \in {f \in [Rows -> {Empty} \cup [ids : {Legacy}, value : Values]] :
                    \A r \in Rows \ Split : f[r] = Empty}
  /\ active = Rows
  /\ txn = [s \in Saves |-> FreeSlot]
  /\ page = [e \in Editors |-> ClosedPage]
  /\ over = [e \in Editors |-> NoRows]
  /\ draft = [e \in Editors |-> NoDraft]
  /\ spent \in Starts

Trouble == spent.trouble < MaxTrouble /\ spent' = [spent EXCEPT !.trouble = @ + 1]

-----------------------------------------------------------------------------
(* What a GET shows: administrators of the month and whoever has a value.  *)

HasValue == {r \in Rows : stored[r].ids # {}}

Snapshot == [r \in Rows |-> IF r \in active \cup HasValue THEN stored[r].value ELSE Hidden]

-----------------------------------------------------------------------------
(* The page.                                                               *)

Changed(e) == {r \in Rows : page[e].cells[r] # page[e].shown[r]}

Working(e) == page[e].mode = "editing"

\* What the pending write of a draft will store: the changed rows only.
DraftOf(e) ==
  [r \in Rows |-> IF r \in Changed(e)
                    THEN [value |-> page[e].cells[r], previous |-> page[e].shown[r], over |-> over[e][r]]
                    ELSE Nothing]

\* The rows are drawn: a new baseline, and a pending draft is dropped.
Rendered(e, mode, loaded) == [mode |-> mode, shown |-> loaded, cells |-> loaded, timer |-> FALSE,
                              refused |-> FALSE]

\* Drafted rows that the server still shows as they were when they were typed.
Restorable(e, loaded) ==
  {r \in Rows : draft[e][r] # Nothing /\ loaded[r] # Hidden /\ draft[e][r].previous = loaded[r]}

\* The answer of a load arrives: on a new page, or on one where somebody has
\* typed or saved since it was asked for.  (An answer that is late shows what a
\* page shows that was drawn in time and has grown old.)
Load(e) ==
  LET loaded == Snapshot
      back == Restorable(e, loaded)
      mode == IF page[e].mode = "opening" THEN "editing" ELSE page[e].mode
  IN  /\ page' = [page EXCEPT ![e] =
           [mode |-> mode, shown |-> loaded,
            cells |-> [r \in Rows |-> IF r \in back THEN draft[e][r].value ELSE loaded[r]],
            timer |-> back # {} /\ mode = "editing", refused |-> FALSE]]
      /\ over' = [over EXCEPT ![e] =
           [r \in Rows |-> IF r \in back THEN draft[e][r].over ELSE loaded[r]]]
      /\ draft' = IF back = {} /\ loaded # NoRows THEN [draft EXCEPT ![e] = NoDraft] ELSE draft
      /\ UNCHANGED <<stored, active, txn, spent>>

Type(e, r, v) ==
  /\ Working(e)
  /\ page[e].shown[r] # Hidden
  /\ page[e].cells[r] # v
  /\ page' = [page EXCEPT ![e].cells[r] = v, ![e].timer = TRUE, ![e].refused = FALSE]
  /\ over' = [over EXCEPT ![e][r] = page[e].shown[r]]
  /\ spent.edits < MaxEdits /\ spent' = [spent EXCEPT !.edits = @ + 1]
  /\ UNCHANGED <<stored, active, txn, draft>>

\* The pending write of the draft (its timer, or the page is hidden).
StoreDraft(e) ==
  /\ page[e].timer
  /\ draft' = [draft EXCEPT ![e] = DraftOf(e)]
  /\ page' = [page EXCEPT ![e].timer = FALSE]
  /\ UNCHANGED <<stored, active, txn, over, spent>>

Discard(e) ==
  /\ Working(e)
  /\ Changed(e) # {}
  /\ page' = [page EXCEPT ![e] = Rendered(e, "editing", page[e].shown)]
  /\ over' = [over EXCEPT ![e] = page[e].shown]
  /\ draft' = [draft EXCEPT ![e] = NoDraft]
  /\ UNCHANGED <<stored, active, txn, spent>>

\* The page is reloaded or its session ends: a pending draft is written first,
\* and nobody waits for an answer any more.
Abandoned(e) == [s \in Saves |-> IF txn[s].by = e THEN [txn[s] EXCEPT !.by = NULL] ELSE txn[s]]

Reload(e) ==
  /\ page[e].mode # "opening"
  /\ draft' = IF page[e].timer THEN [draft EXCEPT ![e] = DraftOf(e)] ELSE draft
  /\ page' = [page EXCEPT ![e] = ClosedPage]
  /\ over' = [over EXCEPT ![e] = NoRows]
  /\ txn' = Abandoned(e)
  /\ Trouble
  /\ UNCHANGED <<stored, active>>

\* Every row on the page is posted, typed into or not.
Items(e) ==
  [r \in Rows |-> IF page[e].shown[r] = Hidden THEN NoItem
                  ELSE [value |-> page[e].cells[r], previous |-> page[e].shown[r], over |-> over[e][r]]]

\* Mistake: the draft is dropped when the save is sent.
BadSave(e, s) ==
  /\ Working(e)
  /\ page[e].shown # NoRows
  /\ txn[s] = FreeSlot
  /\ spent.posts < MaxPosts
  /\ page' = [page EXCEPT ![e].mode = "saving"]
  /\ draft' = [draft EXCEPT ![e] = NoDraft]
  /\ txn' = [txn EXCEPT ![s] = [FreeSlot EXCEPT !.step = "sent", !.by = e, !.id = spent.posts + 1, !.items = Items(e)]]
  /\ spent' = [spent EXCEPT !.posts = @ + 1]
  /\ UNCHANGED <<stored, active, over>>

Save(e, s) ==
  /\ Working(e)
  /\ page[e].shown # NoRows
  /\ txn[s] = FreeSlot
  /\ spent.posts < MaxPosts
  /\ page' = [page EXCEPT ![e].mode = "saving"]
  /\ txn' = [txn EXCEPT ![s] = [FreeSlot EXCEPT !.step = "sent", !.by = e, !.id = spent.posts + 1, !.items = Items(e)]]
  /\ spent' = [spent EXCEPT !.posts = @ + 1]
  /\ UNCHANGED <<stored, active, over, draft>>

\* The answer to a save: the editor as a GET would show it now; the draft is settled.
ReceiveSaved(e, s) ==
  /\ txn[s].step = "done" /\ txn[s].by = e
  /\ txn' = [txn EXCEPT ![s] = FreeSlot]
  /\ page' = [page EXCEPT ![e] = Rendered(e, "editing", Snapshot)]
  /\ over' = [over EXCEPT ![e] = Snapshot]
  /\ draft' = [draft EXCEPT ![e] = NoDraft]
  /\ UNCHANGED <<stored, active, spent>>

\* 409: the draft is refused with the save, then the rows are loaded again.
ReceiveConflict(e, s) ==
  /\ txn[s].step = "conflict" /\ txn[s].by = e
  /\ txn' = [txn EXCEPT ![s] = FreeSlot]
  /\ page' = [page EXCEPT ![e].mode = "recovering", ![e].timer = FALSE, ![e].refused = TRUE]
  /\ draft' = [draft EXCEPT ![e] = NoDraft]
  /\ UNCHANGED <<stored, active, over, spent>>

Recover(e) ==
  /\ page[e].mode = "recovering"
  /\ page' = [page EXCEPT ![e] = Rendered(e, "editing", Snapshot)]
  /\ over' = [over EXCEPT ![e] = Snapshot]
  /\ UNCHANGED <<stored, active, txn, draft, spent>>

RecoverFails(e) ==
  /\ page[e].mode = "recovering"
  /\ page' = [page EXCEPT ![e].mode = "editing"]
  /\ Trouble
  /\ UNCHANGED <<stored, active, txn, over, draft>>

\* Any other error: the page keeps what was typed.
ReceiveError(e, s) ==
  /\ txn[s].step = "error" /\ txn[s].by = e
  /\ txn' = [txn EXCEPT ![s] = FreeSlot]
  /\ page' = [page EXCEPT ![e].mode = "editing"]
  /\ UNCHANGED <<stored, active, over, draft, spent>>

\* A timeout, or an answer that is lost: the server goes on.
SaveFails(e, s) ==
  /\ txn[s].by = e
  /\ page' = [page EXCEPT ![e].mode = "editing"]
  /\ txn' = [txn EXCEPT ![s].by = NULL]
  /\ Trouble
  /\ UNCHANGED <<stored, active, over, draft>>

-----------------------------------------------------------------------------
(* The server: _write_manual_facts.                                        *)

Posted(s) == {r \in Rows : txn[s].items[r] # NoItem}
Edited(s) == {r \in Posted(s) : txn[s].items[r].value # txn[s].items[r].previous}
Closed(s) == Posted(s) \ (active \cup HasValue)

\* A row that is closed by now, and was not empty on the page: somebody cleared it.
Gone(s) == \E r \in Closed(s) : txn[s].items[r].previous # NULL

NotOpen(s) == \E r \in Closed(s) : txn[s].items[r].value # NULL

\* Mistake: a row that was empty on the page is taken for one without a version.
BadStale(s) ==
  \E r \in Edited(s) \ Closed(s) :
    txn[s].items[r].previous # NULL /\ stored[r].value # txn[s].items[r].previous

\* A changed row that no longer holds what its page showed.
Stale(s) == \E r \in Edited(s) \ Closed(s) : stored[r].value # txn[s].items[r].previous

\* The rows are read and the whole batch is checked before anything is written.
ReadRows(s) ==
  /\ txn[s].step = "sent"
  /\ txn' = [txn EXCEPT ![s] =
       IF Gone(s) THEN [txn[s] EXCEPT !.step = "conflict"]
       ELSE IF NotOpen(s) THEN [txn[s] EXCEPT !.step = "error"]
       ELSE IF Stale(s) THEN [txn[s] EXCEPT !.step = "conflict"]
       ELSE [txn[s] EXCEPT !.step = "writing", !.todo = Edited(s),
                           !.read = [r \in Rows |-> IF r \in Edited(s) THEN stored[r].ids ELSE {}]]]
  /\ UNCHANGED <<stored, active, page, over, draft, spent>>

\* Mistake: in the order of the payload, which differs from page to page.
BadNextRows(s) == txn[s].todo

\* Rows are written in key order.
NextRows(s) == {r \in txn[s].todo : \A k \in txn[s].todo : r <= k}

\* A row that another transaction has written and not committed is waited for.
Held(r, s) == \E z \in Saves : z # s /\ r \in txn[z].mine

\* Every row read is still there, and the month row is not somebody else's:
\* the count of the DELETE, and the unique index.
Writable(s, r) ==
  /\ txn[s].read[r] \subseteq stored[r].ids
  /\ txn[s].items[r].value # NULL => stored[r].ids \ (txn[s].read[r] \cup Legacy) = {}

WriteRow(s, r) ==
  /\ txn[s].step = "writing"
  /\ r \in NextRows(s) /\ ~Held(r, s)
  /\ txn' = [txn EXCEPT ![s] =
       IF Writable(s, r)
         THEN [txn[s] EXCEPT !.todo = @ \ {r}, !.mine = @ \cup {r}]
         ELSE [txn[s] EXCEPT !.step = "conflict", !.todo = {}, !.mine = {}]]
  /\ UNCHANGED <<stored, active, page, over, draft, spent>>

\* What a transaction leaves in a row: the rows it read are deleted, and the new
\* value, if there is one, is one row.
Written(s, r) ==
  IF txn[s].items[r].value = NULL THEN Empty
  ELSE [ids |-> (stored[r].ids \ txn[s].read[r]) \cup {txn[s].id}, value |-> txn[s].items[r].value]

Commit(s) ==
  /\ txn[s].step = "writing" /\ txn[s].todo = {}
  /\ stored' = [r \in Rows |-> IF r \in txn[s].mine THEN Written(s, r) ELSE stored[r]]
  /\ txn' = [txn EXCEPT ![s].step = "done", ![s].mine = {}]
  /\ UNCHANGED <<active, page, over, draft, spent>>

\* A statement raises, or the request never reached the server.
HandlerFails(s) ==
  /\ txn[s].step \in {"sent", "writing"}
  /\ txn' = [txn EXCEPT ![s].step = "error", ![s].todo = {}, ![s].mine = {}]
  /\ Trouble
  /\ UNCHANGED <<stored, active, page, over, draft>>

\* The answer has no reader left.
Unread(s) ==
  /\ txn[s].step \in {"done", "conflict", "error"} /\ txn[s].by = NULL
  /\ txn' = [txn EXCEPT ![s] = FreeSlot]
  /\ UNCHANGED <<stored, active, page, over, draft, spent>>

\* The sync changes the position of a staff member, or fires one.
StaffChanges(r) ==
  /\ active' = IF r \in active THEN active \ {r} ELSE active \cup {r}
  /\ Trouble
  /\ UNCHANGED <<stored, txn, page, over, draft>>

-----------------------------------------------------------------------------
PageStep(e) ==
  \/ Load(e)
  \/ \E r \in Rows, v \in Cells : Type(e, r, v)
  \/ StoreDraft(e) \/ Discard(e) \/ Reload(e)
  \/ Recover(e) \/ RecoverFails(e)
  \/ \E s \in Saves : Save(e, s) \/ ReceiveSaved(e, s) \/ ReceiveConflict(e, s) \/ ReceiveError(e, s)
                     \/ SaveFails(e, s)

HandlerStep(s) ==
  \/ ReadRows(s) \/ Commit(s) \/ HandlerFails(s) \/ Unread(s)
  \/ \E r \in Rows : WriteRow(s, r)

EditNext ==
  \/ \E e \in Editors : PageStep(e)
  \/ \E s \in Saves : HandlerStep(s)
  \/ \E r \in Movers : StaffChanges(r)

EditSpec == EditInit /\ [][EditNext]_editVars

-----------------------------------------------------------------------------
(* Properties.                                                             *)

\* Types; a stored row has a value, and a row without one is not stored.
Shown == Cells \cup {Hidden}
Item == [value : Shown, previous : Shown, over : Shown]
Modes == {"opening", "editing", "saving", "recovering"}
Ids == Legacy \cup (1 .. MaxPosts)
EditTypeOK ==
  /\ stored \in [Rows -> [ids : SUBSET Ids, value : Cells]]
  /\ \A r \in Rows : stored[r].ids = {} <=> stored[r].value = NULL
  /\ active \subseteq Rows
  /\ txn \in [Saves -> [step : {"free", "sent", "writing", "done", "conflict", "error"},
                        by : Editors \cup {NULL}, id : 0 .. MaxPosts, items : [Rows -> Item],
                        read : [Rows -> SUBSET Ids], todo : SUBSET Rows, mine : SUBSET Rows]]
  /\ page \in [Editors -> [mode : Modes, shown : [Rows -> Shown], cells : [Rows -> Shown], timer : BOOLEAN,
                         refused : BOOLEAN]]
  /\ over \in [Editors -> [Rows -> Shown]]
  /\ draft \in [Editors -> [Rows -> Item \cup {Nothing}]]
  /\ spent \in [posts : 0 .. MaxPosts, edits : 0 .. MaxEdits, trouble : 0 .. MaxTrouble]

\* Whatever a save replaces was on the page of its author when he typed over
\* it, and a row nobody typed into keeps its author: through stale pages,
\* lost answers, retries, reloads and restored drafts ("someone else's save in
\* between would otherwise be silently overwritten by a stale number").
NothingOverwrittenUnseen ==
  [][\A r \in Rows : stored'[r] # stored[r] =>
       \E s \in Saves :
         /\ txn[s].step = "writing"
         /\ txn[s].items[r].over = stored[r].value
         /\ txn[s].items[r].value = stored'[r].value
         /\ stored'[r].value # stored[r].value]_editVars

\* A month is one row: a value is never added to what it replaces, be it a
\* month split over several rows or the row of a save that came in between.
MonthIsOneRow == \A r \in Rows : stored[r].ids \subseteq Legacy \/ Cardinality(stored[r].ids) = 1

\* No two saves wait for each other ("payload order could cross the waits into
\* a PostgreSQL deadlock").
WaitsFor(s, z) ==
  /\ txn[s].step = "writing" /\ z # s
  /\ \E r \in NextRows(s) : r \in txn[z].mine
NoCircularWait == \A s, z \in Saves : ~(WaitsFor(s, z) /\ WaitsFor(z, s))

\* What is typed and neither saved, discarded nor refused by the server is in
\* the draft, or is about to be: a reload at any moment does not cost the work.
TypingIsBacked ==
  \A e \in Editors :
    ~page[e].timer /\ ~page[e].refused =>
      \A r \in Changed(e) : draft[e][r] = DraftOf(e)[r]
=============================================================================
