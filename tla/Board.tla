------------------------------- MODULE Board --------------------------------
(***************************************************************************)
(* One tab of the dashboard: its views and their addresses in the history  *)
(* of the browser, the question whether to leave unsaved input, and the    *)
(* requests of the views, of which only the latest may draw (main.js,      *)
(* unsavedChanges.js, dashboardRequestState.js, manualEntryEditor.js).     *)
(*                                                                         *)
(* A traversal of the history is asynchronous: `travel` holds those that   *)
(* were asked for, by the person or by the page, and each ends in a        *)
(* popstate.  Drafts are in ManualFacts: here typed input either comes     *)
(* back with the rows or does not.                                         *)
(***************************************************************************)
EXTENDS Integers, Sequences, SequencesExt

CONSTANTS
  Views, Editors,      \* the views, and those with input to protect
  Filters,             \* what the pickers of a view can ask for
  First,               \* the view and the filter of a fresh page
  FirstFilter,
  MaxMoves             \* bound: presses and clicks of the person

ASSUME BoardAssumption == First \in Views /\ Editors \subseteq Views

VARIABLES
  hist, at,            \* entries of the browser's history, and the one it is at
  pos,                 \* historyPosition
  view,                \* activeView
  travel,              \* traversals under way
  expected,            \* suppressedHistoryTraversal
  handler,             \* the popstate handler that waits, handlingHistoryNavigation
  correcting,          \* historyCorrectionPromise
  ask,                 \* what the open dialog will do on "leave"
  held,                \* what keeps decisionPending after the dialog
  arriving,            \* navigations that wait for the list of staff
  pick, asked,         \* filter in the pickers, and of the latest request
  flights, current,    \* requests under way, and the current one of each view
  rows,                \* the filter of the rows shown
  typed, saving,       \* views with unsaved input, and the rows each is saving
  seq, moves

nav == <<hist, at, pos, travel, expected, correcting>>
net == <<asked, flights, current, rows, seq>>
vars == <<hist, at, pos, view, travel, expected, handler, correcting, ask, held, arriving,
          pick, asked, flights, current, rows, typed, saving, seq, moves>>

None == 0
StaffList == -1       \* what a held decision may wait for, next to the id of a request
Correction == -2
NoPos == -1
NoAsk == [kind |-> "none"]
Settled == travel = <<>>   \* the person clicks after the browser has moved
Moves == moves < MaxMoves /\ moves' = moves + 1
Entry(v, tag) == [view |-> v, tag |-> tag]

Init ==
  /\ hist = <<Entry(First, 0)>> /\ at = 1 /\ pos = 0 /\ view = First
  /\ travel = <<>> /\ expected = NoPos /\ handler = None /\ correcting = FALSE
  /\ ask = NoAsk /\ held = None /\ arriving = {"free"}
  /\ pick = [v \in Views |-> FirstFilter] /\ asked = [v \in Views |-> None]
  /\ flights = {} /\ current = [v \in Views |-> None] /\ rows = [v \in Views |-> None]
  /\ typed = {} /\ saving = [v \in Views |-> None] /\ seq = 0 /\ moves = 0

-----------------------------------------------------------------------------
(* Requests of a view *)

(* createLatestRequestScope.start: the older request of the view is aborted, its answer is late; *)
(* a decision that was held by it is released, or held by the new one.                           *)
Start(v, f, how) ==
  /\ held' = IF how = "held" THEN seq + 1 ELSE IF held # None /\ held = current[v] THEN None ELSE held
  /\ seq' = seq + 1
  /\ flights' = flights \cup {[id |-> seq + 1, view |-> v, filter |-> f]}
  /\ current' = [current EXCEPT ![v] = seq + 1]
  /\ asked' = [asked EXCEPT ![v] = f]

(* A mutant: whatever arrives is drawn. *)
BadIsCurrent(r) == TRUE
IsCurrent(r) == current[r.view] = r.id

(* A held decision ends with the request it started. *)
Released(r) == IF held = r.id THEN None ELSE held

(* The answer draws the rows; what was typed since comes back from a draft, or is lost with the rows. *)
Answer(r) ==
  /\ flights' = flights \ {r}
  /\ IF IsCurrent(r)
     THEN /\ current' = [current EXCEPT ![r.view] = None]
          /\ rows' = [rows EXCEPT ![r.view] = r.filter]
          /\ typed' \in {typed, typed \ {r.view}}
          /\ held' = Released(r)
     ELSE UNCHANGED <<current, rows, typed, held>>
  /\ UNCHANGED <<nav, view, handler, ask, arriving, pick, asked, saving, seq, moves>>

(* An error or the timeout: the rows stay under an error that offers a retry. *)
Fail(r) ==
  /\ IsCurrent(r)
  /\ flights' = flights \ {r}
  /\ current' = [current EXCEPT ![r.view] = None]
  /\ asked' = [asked EXCEPT ![r.view] = rows[r.view]]
  /\ held' = Released(r)
  /\ UNCHANGED <<nav, view, handler, ask, arriving, pick, rows, typed, saving, seq, moves>>

-----------------------------------------------------------------------------
(* createUnsavedChangesGuard *)

Blocked == saving[view] # None \/ ask # NoAsk \/ held # None
(* A mutant: a pending save counts, unsaved input does not. *)
BadNeedsGuard == saving[view] # None
NeedsGuard == view \in typed \/ saving[view] # None

(* pushDashboardHistory at the entry where the browser is *)
Pushed(v) == Append(SubSeq(hist, 1, at), Entry(v, pos + 1))

(* The action of a guarded move: a link, the second half of a traversal, or a new filter. *)
Go(move, how) ==
  CASE move.kind = "link" ->
         /\ hist' = Pushed(move.view) /\ at' = at + 1 /\ pos' = pos + 1 /\ view' = move.view
         /\ arriving' = arriving \cup {how}
         /\ held' = IF how = "held" THEN StaffList ELSE held
         /\ UNCHANGED <<travel, expected, correcting, handler, pick, net>>
    [] move.kind = "pick" ->
         /\ pick' = [pick EXCEPT ![view] = move.filter] /\ Start(view, move.filter, how)
         /\ UNCHANGED <<nav, view, handler, arriving, rows>>
    [] move.kind = "go" ->
         /\ travel' = IF correcting THEN travel ELSE Append(travel, move.delta)
         /\ handler' = IF correcting THEN move.delta ELSE None
         /\ held' = IF correcting THEN Correction ELSE held
         /\ UNCHANGED <<hist, at, pos, view, expected, correcting, arriving, pick, net>>

Guarded(move) ==
  IF Blocked THEN UNCHANGED <<nav, view, handler, ask, held, arriving, pick, net>>
  ELSE IF view \in typed THEN ask' = move /\ UNCHANGED <<nav, view, handler, held, arriving, pick, net>>
  ELSE ask' = NoAsk /\ Go(move, "free")

(* A link to another view, or a picker: out of reach under the dialog. *)
Click(v) ==
  /\ Settled /\ ask = NoAsk /\ Moves
  /\ Guarded([kind |-> "link", view |-> v])
  /\ UNCHANGED <<typed, saving>>

Pick(f) ==
  /\ Settled /\ ask = NoAsk /\ view \in Editors /\ f # pick[view] /\ Moves
  /\ Guarded([kind |-> "pick", filter |-> f])
  /\ UNCHANGED <<typed, saving>>

Stay ==
  /\ Settled /\ ask # NoAsk
  /\ ask' = NoAsk /\ handler' = None
  /\ UNCHANGED <<nav, view, held, arriving, pick, net, typed, saving, moves>>

(* discard, then the action; only the second half of a traversal awaits one that is under way. *)
Leave ==
  /\ ask # NoAsk /\ (Settled \/ ask.kind = "go")
  /\ ask' = NoAsk /\ typed' = typed \ {view}
  /\ Go(ask, "held")
  /\ UNCHANGED <<saving, moves>>

(* ensureStaffForView, then loadCurrentView: of the view that is active by now. *)
Arrive(how) ==
  /\ how \in arriving
  /\ arriving' = arriving \ {how}
  /\ Start(view, pick[view], how)
  /\ UNCHANGED <<nav, view, handler, ask, pick, rows, typed, saving, moves>>

-----------------------------------------------------------------------------
(* Typing and saving *)

Type ==
  /\ view \in Editors \ typed /\ saving[view] = None /\ rows[view] # None /\ ask = NoAsk /\ Moves
  /\ typed' = typed \cup {view}
  /\ UNCHANGED <<nav, view, handler, ask, held, arriving, pick, net, saving>>

(* The save is for the rows shown, whatever the pickers say. *)
Save ==
  /\ saving[view] = None /\ view \in Editors /\ rows[view] # None /\ ask = NoAsk /\ Moves
  /\ saving' = [saving EXCEPT ![view] = rows[view]]
  /\ UNCHANGED <<nav, view, handler, ask, held, arriving, pick, net, typed>>

(* Its answer, or the reload after a conflict, draws rows also where a load has drawn others. *)
Draw(v, f) ==
  /\ rows' = [rows EXCEPT ![v] = f] /\ typed' = typed \ {v}
  /\ asked' = IF current[v] = None THEN [asked EXCEPT ![v] = f] ELSE asked

Saved(v) ==
  /\ saving[v] # None
  /\ saving' = [saving EXCEPT ![v] = None]
  /\ Draw(v, saving[v]) \/ Draw(v, pick[v]) \/ UNCHANGED <<rows, typed, asked>>
  /\ UNCHANGED <<nav, view, handler, ask, held, arriving, pick, flights, current, seq, moves>>

-----------------------------------------------------------------------------
(* The history of the browser *)

(* The person presses back or forward; also while a dialog is open. *)
Press(d) ==
  /\ Len(travel) < 2 /\ Moves
  /\ travel' = Append(travel, d)
  /\ UNCHANGED <<hist, at, pos, view, expected, handler, correcting, ask, held, arriving, pick, net, typed, saving>>

(* A mutant: the traversal that puts the position back is taken for one of the person. *)
BadExpects == FALSE
Expects == expected # NoPos

(* restoreHistoryPosition ended: what waited for it goes on. *)
Complete(rest) ==
  /\ pos' = expected /\ expected' = NoPos
  /\ IF correcting
     THEN /\ correcting' = FALSE
          /\ IF held = Correction
             THEN travel' = Append(rest, handler) /\ handler' = None /\ held' = None
             ELSE travel' = rest /\ UNCHANGED <<handler, held>>
          /\ UNCHANGED ask
     ELSE /\ UNCHANGED <<correcting, held>>
          /\ IF Blocked THEN travel' = rest /\ handler' = None /\ UNCHANGED ask
             ELSE IF view \in typed
             THEN travel' = rest /\ ask' = [kind |-> "go", delta |-> handler] /\ UNCHANGED handler
             ELSE travel' = Append(rest, handler) /\ handler' = None /\ UNCHANGED ask
  /\ UNCHANGED <<hist, view, arriving>>

(* historyNavigationDecision: put the browser back where the page is ... *)
Restore(delta, rest) ==
  /\ travel' = IF delta = 0 THEN rest ELSE Append(rest, delta)
  /\ IF Expects \/ delta = 0 THEN UNCHANGED <<expected, correcting>>
     ELSE expected' = pos /\ correcting' = TRUE
  /\ UNCHANGED <<hist, pos, view, handler, ask, held, arriving>>

(* ... before asking whether to leave ... *)
GuardTraversal(delta, rest) ==
  /\ travel' = Append(rest, delta)
  /\ handler' = -delta /\ expected' = pos
  /\ UNCHANGED <<hist, pos, view, correcting, ask, held, arriving>>

(* ... or follow it. *)
Follow(entry, rest) ==
  /\ travel' = rest /\ pos' = entry.tag /\ view' = entry.view
  /\ arriving' = IF entry.view = view THEN arriving ELSE arriving \cup {"free"}
  /\ UNCHANGED <<hist, expected, handler, correcting, ask, held>>

(* A traversal takes place and fires popstate, unless there is no such entry. *)
Traverse ==
  /\ travel # <<>>
  /\ LET to == at + Head(travel)
         rest == Tail(travel)
         delta == pos - hist[to].tag
     IN  IF to \notin DOMAIN hist
         THEN travel' = rest /\ UNCHANGED <<hist, at, pos, expected, correcting, view, handler, ask, held, arriving>>
         ELSE /\ at' = to
              /\ IF Expects
                 THEN IF hist[to].tag = expected THEN Complete(rest) ELSE Restore(expected - hist[to].tag, rest)
                 ELSE IF handler # None THEN Restore(delta, rest)
                 ELSE IF NeedsGuard /\ delta # 0 THEN GuardTraversal(delta, rest)
                 ELSE Follow(hist[to], rest)
  /\ UNCHANGED <<pick, net, typed, saving, moves>>

(* A link with a hash of its own: the entry is tagged by hashchange, or as a copy of the current  *)
(* one while the dialog is open (guardUnknown).                                                   *)
HashLink(v) ==
  /\ v # view /\ Settled /\ ask = NoAsk /\ Moves
  /\ IF ~NeedsGuard
     THEN /\ hist' = Pushed(v) /\ at' = at + 1 /\ pos' = pos + 1 /\ view' = v
          /\ arriving' = arriving \cup {"free"}
          /\ UNCHANGED ask
     ELSE /\ hist' = Append(SubSeq(hist, 1, at), Entry(view, pos)) /\ at' = at + 1
          /\ ask' = IF Blocked THEN NoAsk ELSE [kind |-> "link", view |-> v]
          /\ UNCHANGED <<pos, view, arriving>>
  /\ UNCHANGED <<travel, expected, handler, correcting, held, pick, net, typed, saving>>

Next ==
  \/ \E r \in flights : Answer(r) \/ Fail(r)
  \/ \E v \in Views : Click(v) \/ HashLink(v) \/ Saved(v)
  \/ \E f \in Filters : Pick(f)
  \/ \E d \in {-1, 1} : Press(d)
  \/ \E how \in {"free", "held"} : Arrive(how)
  \/ Stay \/ Leave \/ Type \/ Save \/ Traverse

Spec == Init /\ [][Next]_vars

-----------------------------------------------------------------------------
(* Once the browser has moved and no dialog is open, the address bar, the position the page keeps *)
(* and the view it shows agree, and nothing waits for a traversal or a request that will not end. *)
HistoryAgrees ==
  travel = <<>> /\ ask = NoAsk =>
    /\ expected = NoPos /\ handler = None /\ ~correcting
    /\ hist[at].tag = pos /\ hist[at].view = view
    /\ held # None => (held = StaffList /\ "held" \in arriving) \/ \E v \in Views : current[v] = held

(* A view without a request under way shows the rows it asked for last.                           *)
LatestShown == \A v \in Views : current[v] = None => rows[v] = asked[v]

(* A view with unsaved input is left only by somebody who was asked and said so.                  *)
AskedBeforeLeaving ==
  [][view' # view /\ view \in typed => ask.kind = "link" /\ ask' = NoAsk]_vars
=============================================================================
