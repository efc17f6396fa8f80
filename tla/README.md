# A TLA+ development of the YClients BI portal

The repository copies one or several YClients companies into PostgreSQL (a sync, run by workers
and timers) and serves dashboards, editors and reports from the copy (a FastAPI application and a
browser front end). This directory models the parts whose correctness depends on the order of
events or on many queries telling one story, model-checks them on small instances, and proves the
safety properties of the sync, the fetches, the sessions, the mail links, the staff accounts, the plan,
the manual facts, the figures and the browser tab for every value of the constants.

    tlc -workers 2 -config SyncQueueRace.cfg MCSyncQueue.tla
    tlapm SyncQueue_proofs.tla

`PROJECT.json` lists the runs with their properties, the source lines behind every definition, the
mutants that show that each property can fail, the hazards and the theorems.

## Inventory

| component | state it keeps | operations | hard behaviour | here |
|---|---|---|---|---|
| Sync lock, queue, workers (`sync_control`, `sync_jobs`, `sync_worker`, `sync_orchestrator`, `main`) | advisory lock; `sync_runs`, `sync_jobs`, gates in `sync_state` | trigger, claim, run, hand back, finish, reap, auto-enqueue, retention | processes interleave between commits; deaths; exceptions in the middle of bookkeeping | `SyncQueue`, `SyncLedger`, `SyncQueue_proofs` |
| Sync pipeline: windows, coverage, checkpoint (`sync_pipeline`) | coverage row of each source, historical marker, checkpoint | resolve a window, purge, load, certify, move the checkpoint | one of several sources fails; a death after the purge; outages; the reporting start moves | `SyncCoverage`, `SyncPipeline_proofs` |
| YClients client (`yclients_api`) and the steps that store its rows | per-fetch budget, completeness, mirrored rows, `staff_schedules` | halve a window, walk the pages of a day, purge and store, replace shifts | off-by-one of the halves, rows that shift between pages, runaways, two clocks | `DatedFetch`, `Shifts`, `SyncPipeline_proofs` |
| Manual fact editors (`_write_manual_facts`, `manualEntryEditor.js`, `editorDrafts.js`) | `manual_fact_metrics`, the page, its draft in `sessionStorage` | load, type, draft, restore, save, recover | two editors over one month, lost answers, stale drafts, lock order | `ManualFacts`, `Handlers_proofs` |
| Plan settings (`save_plan_settings`, the page in `main.js`) | `plan_branch_settings`, `plan_staff_inputs`, `plan_metrics` of a month | load, copy last month, type, save whole | month lock, people who left, metrics imported from elsewhere | `PlanSettings`, `PlanSettings_proofs` |
| Dashboard figures (`dashboard_service`) | none: reads the mirror, and `service_labels` | summary, daily chart, years, services, goods, splits | a dozen queries of their own over the same rows; windows, NULLs, ids of two kinds | `Mirror`, `Figures`, `Overview`, `FigureChecks`, `Branches_proofs`, `Figures_proofs` |
| Report catalog (`reports_*`, `report_common`, part of `payment_methods`) | `manual_payment_amounts` | finance, payments, clients, operations, goods, combinations | the same, and cohorts whose time is not over | `Reports`, `FigureChecks`, `Branches_proofs`, `Figures_proofs` |
| Rebookings and rows of Plan/fact (`dashboard_service`) | none: reads visits, bookings, shifts, plans | which booking is a rebooking, whose it is, rows, overview of a person, editor, year | reads as little as it can; roles by month; the same sharing-out on five screens | `Rebookings`, `Administrators`, `PlanSettings_proofs` |
| Sessions (`auth_sessions`, `auth_deps`, part of `auth.js`) | `portal_refresh_tokens`, `token_version`, cookie jars | login, refresh, logout, revoke, list, account-wide changes | lost and overtaken answers, replay against grace, cap, password change against login | `AuthSessions`, `Handlers_proofs` |
| E-mail tokens and passwords (`auth_service`, `auth_routes`) | `portal_email_tokens`, cooldown stamp, in-flight guard | mail, open, spend, change password or address | mail before commit, double use, double issue, deadlock | `MailLinks`, `Browser_proofs` |
| Staff accounts (`portal_staff_*`, provisioning) | `staff` rows of the CRM and mirror rows, links | create, change, delete, link, unlink, provision, repair, hire, fire | repairs from stale reads, two links at once, facts that move | `StaffAccounts`, `Branches_proofs` |
| One tab of the front end (`main.js`, `dashboardRequestState.js`, `unsavedChanges.js`) | history, view, requests, unsaved input | click, pick, type, save, back, forward, stay, leave | asynchronous traversals, answers out of order, dialogs | `Board`, `Browser_proofs` |
| Idle monitor (`idleSession.js`) | activity of the tab and of all tabs | tick, input, confirm | a shared time written now and then | `IdleTabs`, `Browser_proofs` |
| Tenant scope, credentials, stale pages of the Yandex Pay editor, YClients counts, views, schema, HTTP, scripts | | | | not modelled (below) |

How they interact: the API inserts jobs and the workers take them (table `sync_jobs`); a worker or
a timer takes the advisory lock and executes the pipeline under it, so runs of one branch never
overlap (`LockExcludes` is what `SyncCoverage` and `DatedFetch` rely on). A step of the pipeline is
one `DatedFetch`; the verdict it returns decides whether the window may be purged. What the steps
leave in the tables is the mirror: `Mirror` and `Rebookings` have one action per row YClients may
answer, so every mixture of read and unread rows is a state. The staff the pipeline writes decides
which rows of an editor are open (`StaffChanges` of `ManualFacts`, `Turn` of `PlanSettings`,
`hired` of `StaffAccounts`). What the editors store is read again by the rows of Plan/fact
(`TopUps`, `plans` of `Administrators`). Every request of a page carries a session of
`AuthSessions`; a changed password ends all of them.

## The modules

Definitions keep the names of the code in camel case (`claim_next_job` is `ClaimNextJob`). Names that
begin with `Bad` are plausible mistakes in the definition they precede; no behaviour uses them, they
exist to show that a property can fail.

Four runs hold two components that share no state (`part` says which one moves): their behaviours
are a disjoint union, so nothing is said about both at once.

### SyncQueue, SyncLedger

One action is one database commit, or one call on the advisory lock; `pc` says which commit a
process makes next. The processes are the docker worker (`Loopers`, with its idle branch: reaper,
auto-enqueue, retention), `sync_worker.py --once` (`OneShots`), `main.py` under systemd timers
(`Clis`) and the API, which only inserts. `Crash` is a death anywhere (docker deploys send SIGTERM,
which is one), `Fault` a statement that raises and is handled where the code catches it
(`Handler`), `Reject` a write that a foreign key or a deleted row refuses. A timestamp is kept as
its age, saturating above the largest threshold it is compared with, so time runs forever in a
finite state space. `execute_sync` is one step (`Execute`) with either result; what it does is
`SyncCoverage`. Claiming under `FOR UPDATE SKIP LOCKED` is the first queued row in id order.

A deployment with one-shot workers only has no reaper: the liveness below is about the deployment of
`docker-compose`, with one docker worker. After a reap, a late `finish_job` overwrites the status but
not the error message; the message is not modelled.

`SyncLedger` is the abstract specification of the two tables for whoever only reads them: jobs start
in the order of their ids and a closed one stays closed, one run at a time, only closed rows are
deleted. `MCSyncQueue` holds the refinement mapping.

### SyncCoverage

The loop of `execute_sync` over one branch: window, cleanup, the four checkpoint steps, marker,
checkpoint, each one commit. Days are integers; what a load stores is abstracted to `read`, the day
on which a source last answered for a day. Any step may fail, the run may die anywhere, days pass
inside a run, and the operator moves the reporting start. Catalogs, the rows, and the difference
between the server's and the branch's time zone are left out (`Shifts` has the latter); a paginated
window that the client reports as incomplete counts as read.

### DatedFetch, Shifts

`DatedFetch` is one step over one window: `todo` holds the halves still to be read, `Probe` asks for
the first page of one and halves it when it is full, `ReadPage` walks the pages of a single day,
`Store` purges when the client calls the fetch complete and upserts otherwise. YClients breaks the
ties of a day anew for every request and people change rows meanwhile; an endpoint may ignore the
dates, the page number or the total. `shrunk` is history: a row left a busy day between two of its
pages. Then the day loses a neighbour while the fetch still counts as complete, and a full refresh
purges it until the next run; both safety properties name this exception, and the comment of
`_fetch_single_page_ranges` does not.

`Shifts` is the replacement of the shifts of one employee by a run whose server may be a day off the
branch. `done` is history: shifts mirrored when their day was over at the branch. An empty answer on
the last run of a day clears that day's shifts too; the comment (`sync_pipeline.py:1881`) speaks only
of days the next run reads again, and for the branch's today that is so only if another run comes
before midnight. The property is about days that are over.

### AuthSessions, MailLinks

The sessions of one user. Requests and answers take any time and may be lost; a refresh is its read
and its conditional update, an account-wide change its read and its commit. `Coordinated` says what
`withRefreshLock` (Web Locks) gives: the pages of a browser wait for one refresh at a time. The lock
is held while the page waits and no longer: `GiveUp` is a page that is reloaded or closed, an error
of the network, a 502 to 504 of the proxy. The request stays under way, and the server may handle it
after the one that `acquireStartupSession` sends next. So a session can be lost although every page
takes the lock: of two refreshes with T0 the second is answered with T1, then the first arrives within
the grace period and puts T2 in its place. `MovedOn` names that step, `astray` the sessions it has hit,
and `JarRecognised` says that nothing else loses one. Assumed of browsers: the answer of a request
that was cancelled sets no cookie. Logins of one user
serialise on the user row (`last_login_at`), so the cap is counted atomically. Left out: CSRF, the
demo account's own cap, deletion of the user. `sessions` has one account-wide change; two that overlap
are in the model, and the theorem about them says what it needs.

`MailLinks` is one account with its links. A request is one transaction of several statements; the
first that writes holds the row of the account to the end, one that spends a link holds the link
before that, and PostgreSQL fails one of two that wait for each other. The mail leaves before the
commit. A link works when it is neither used, expired nor invalidated; `Fails` is any statement, mail
or commit that fails, and the guard against repeated mails is given up in each case.

### StaffAccounts

Accounts, the CRM rows of `staff`, the mirror rows the portal keeps for accounts without one, and the
sum of the manual facts of a row. A transaction is its read and its commit; between the two it holds
the rows it locked (`Locks`). Opening the list repairs what it read a moment ago. `hired` is
YClients; the sync alone fires or wakes CRM rows. `deleted` is history: accounts that were ever
deleted. A link whose account is gone by the time it is locked has nothing to lock and goes on
(`stray`); `portal_user_id` is no foreign key, so the row is left with the id of a gone account, and a
later provision of that id finds it there. Left out: names and logins that are refused, and of the
merge everything but the sums.

### ManualFacts

The rows of one month and metric, the save transaction (its read and checks, then one statement per
row in key order, then its commit) and the editor pages. A page posts every row it shows with the
value it showed (`previous`); the server refuses the batch when a changed row no longer holds it.
`Held` is what PostgreSQL does: a row another transaction has written is waited for. Answers of a
load are one step with the read: a late answer shows what a page shows that was drawn in time and
has grown old. `over` is history, the value that was on the page when a cell was typed. Left out:
the pickers, the row scopes of staff accounts, the rounding of legacy raw values, the explicit
logout, which drops every draft on purpose, and what is typed while a load is under way: its answer
redraws the rows and cancels the pending draft (`manualEntryEditor.js:104`). The answer of a save
that outlasts a load of another filter draws its own rows; `Board` has that order of requests, not
the cells in it.

### PlanSettings

The plan of one month. A page loads coefficients and inputs of the branches it may edit, and a save
replaces the rows of those branches whole, under an advisory lock of the month. `ReadPlan` is
everything the transaction reads and deletes, `Commit` its inserts; between the two the unique
indexes are what a second save could run into (`Collides`). Metrics of another source survive until a
save edits the person or branch they are about. One number per person and one coefficient per branch
stand for the six and seven of the code. Numbers count halves of what a page shows, for the page
rounds (`ShownInputs`, `ShownShares`: whole clients, percents of two decimals) and the save neither
rounds what it is sent nor compares it rounded. So an untouched page is silent only about a branch whose
numbers it shows exactly (`ShownExactly`): a stored 12.345 % comes back as 12.35 %, the branch counts as
edited, its metrics are computed from the new coefficient and its imported totals give way; a clients
plan of 16.5 from elsewhere comes back as 17 and that person's imported metrics go. The other branches
of the same page stay as they are. `Shares`, `Typed` and an imported plan of the run are such numbers.
A save sends no previous values: of two people the last one wins, although the page has words for
"Their plan wins" (`main.js:2345`), which answers a 409 that the month lock makes unreachable.

### Mirror, Figures, Overview, Reports, FigureChecks

`Mirror` has the tables the figures read (visits with their service lines, payments, goods sales,
reporting windows, read ranges) and one action per row that YClients may answer or an operator may
change, plus the conditions every query shares: who is staff, which days a branch reports, what had
happened when the page was read, which visit a payment belongs to (our own id for visits from before
external ids). `Figures` turns each query into a set of rows and a sum, `Overview` composes the pages
from them, `Reports` the report catalog with the Yandex Pay totals, and `FigureChecks` states what
they owe each other. A question is a period, a branch or none, the branches an account may see, and
a staff filter (all, one person, a group, also an empty one). One clock for every timestamp; money is
whole, and each payment is twice the one before, so that no sum is right by accident.

### Rebookings, Administrators

`Rebookings` has both the rule, over all rows there are (`Rebooked`), and what the code reads of them
(`Candidates`, `Visits`, `Opz`). `Administrators` adds roles by month (the metrics of a month before
its inputs, and these before the position), runs of months with the same roles, shifts that may end
on the next day, and the sharing-out of events: the creator if on shift, else the least loaded on
shift, else the creator, else the least loaded. Each screen composes these itself, as its query does.
One branch; moments are half days, months have two days, the branch's clock is half a day behind or
ahead of UTC, and the months of typed additions run on the clock of Moscow (`HomeZone`).

The rows of Plan/fact add up to the branch but for barbers who left (their row is gone, their visits
are not) and, in a month with administrators and without barbers, every event is an administrator's.
Typed additions of the rows equal the branch's while nobody has left: an administrator who left and
whose role was that of an input of a partial month, or of one month of a longer period, counts in the
branch and has no row. Of one who left and does have a row, a page about several months may count a
typed value that the editor of its month calls uncountable: in that month nothing ties the person to
the branch (`_countable_manual_opz_keys` asks `_period_relevant_staff_clause` about the month, the row
about the period). `ScreensAgree` compares the two in pages about one month and for people who stay.

### Board, IdleTabs

`Board` is one tab. The browser's history is a sequence of entries with the tag the page stores in
them (`historyPosition`), traversals are asynchronous (`travel`) and end in a popstate; the page
corrects, asks, or follows. Requests of a view end in any order, a save is one of them, and the list
of staff may arrive late. `Settled` is the one assumption: the person clicks after the browser has
moved; a `pushState` that meets a pending `history.go` is left out.

`IdleTabs` is the idle monitor of every tab: its own last activity at once, the shared one now and
then. A clock set back and a blocked `localStorage` are left out.

## Runs

| run | what it asks | bounds |
|---|---|---|
| `queue_race` | two workers, every interleaving of commits with the reaper and job retention: a live sync keeps its run and its job | 2 jobs, 2 faults, stale limit and retention of one tick |
| `queue_idle` | one docker worker with every idle task: no job names a deleted run, auto-enqueue is throttled, each commit is a step of `SyncLedger` | 2 jobs, 1 fault, every threshold one tick |
| `queue_live` | under fair scheduling every queued job is closed | 2 jobs, 1 run of `main.py`, 1 fault |
| `coverage` | coverage rows never claim an unread day, the marker is backed by the rows and the checkpoint, a pinned branch gets its marker back | 3 days, 2 failures, deaths or moves |
| `fetch` | a row nobody touched is read and never lost, a step ends, shifts of days that are over stay | 4 rows on 3 days, pages of 2, 1 change, 5 kinds of endpoint; 4 dates, 1 change of the rota |
| `facts` | stale pages, lost answers, reloads, restored drafts, a staff member who leaves: nothing is overwritten unseen, nothing typed is lost, two saves never wait for each other | 2 tabs, 2 rows (one split), 2 saves; 2 edits and 3 troubles, or 4 edits without trouble |
| `plans` | stored metrics tell the stored plan, saves queue, an untouched page changes nothing of a branch it shows exactly; rebookings follow the rule, rows add up, screens agree | 2 editors, 3 people in 2 branches, 2 saves, 1 hire, departure or leaving branch; 3 of 11 visits and bookings, 1 change of plans, shifts or staff, 4 periods, 2 clocks |
| `figures` | pages and reports tell the same figures, parts make wholes, no figure leaves its branch or window, what is certified was read, clients had time to return | 4 facts that differ from an empty mirror, of 6 visits, 5 payments, 1 sale, windows, ranges, labels, typed totals (a label, a typed total, the wider range and the tick count for two; ranges, labels and typed totals one kind at a time); 7 days, 4 questions |
| `sessions` | no lost, repeated or overtaken answer costs a browser a live session, unless a refresh it gave up on is handled after a later one; access after a change is current; the cap | 2 browsers, 2 requests, 3 sessions, 3 tokens, cap 2, 1 change |
| `links` | at most one mailed link works and it sets one password; the guard against repeated mails is given back | 3 requests, 2 links, 2 edits, 1 fault |
| `staffing` | no second link in a branch while no account of that id was deleted, a repair settles any table, no manual fact is lost or counted twice | 2 requests at a time, 3 operations, 2 CRM rows, 2 mirror rows |
| `browser` | address, position and view agree again, the latest request is shown, unsaved input is left only when asked; idleness is measured across tabs | 2 views, 2 filters, 5 moves; 2 tabs, 13 ticks |

Why the bounds are enough. Two workers and two jobs are the least in which one worker's reaper meets
another's finish and the order of claims matters; ids are never reused, so a third job repeats the
first two. Thresholds of one tick make every age class (below, at, above) reachable. In `coverage`
`RefreshDays = 0` makes a single missed day an outage longer than the refresh window, so that three
days hold a connection, an outage and a recovery; two events are a failure and what goes wrong while
recovering. In `fetch` three rows on a day are more than a page, so that a window is halved twice and
a day is walked; `Crowds` with a row still to come cover one that appears. In `sessions` one tick of
grace is 30 s, three tokens are two rotations in a row, which is what a refresh that comes late needs, and cap 2 with 3 sessions evicts once. In
`facts` three troubles are a lost answer, a reload and a staff change in one behaviour; the part
without trouble needs four edits, since a circle takes two rows in each of two batches. In `plans`
two saves and one change are a save that was overtaken; three rows are a visit, its booking and a
second of either, which is what the anchor, the eve of a period and the sharing-out turn on, and two
months of two days hold a change of role inside a period. In `figures` a wrong join shows with a
visit, a payment and one setting (a window, a label, a range), which four facts hold; a label, a
typed total or a tick says nothing without rows next to it. In
`links` three requests are two senders and one who opens. In `staffing` a race takes two requests
and a third that repairs what they left. In `browser` five moves are an edit, a traversal over it,
another one while the first is corrected, and an answer to the dialog. The theorems below need none
of these bounds.

Fairness. `queue_live` and `coverage`: docker restarts a dead worker, the operating system runs every
live process and the clock advances; in `SyncCoverage` workers keep starting runs, of no particular
mode. Nobody owes the system a trigger, a timer or a `--once`. `links`: the event loop runs every
task and the database answers, or fails a deadlock. `fetch`: the step itself goes on; nothing is
assumed of YClients. Failures are bounded in number, which is the usual "once failures stop".
Deadlock is not checked where the system may stop: a page nobody touches, a bounded number of rows
or requests.

## What is proved

`SyncQueue_proofs` proves, from `ConstantsAssumption` alone, type correctness, mutual exclusion of
the advisory lock, `OneRunningRun`, `LiveRunStaysOpen`, `JobHasOneOwner`, `NoDanglingRun`,
`NewestRowsKept`, `LiveJobUntouched`, `ActiveJobsNotDeleted` and `GateArmedByUnscopedSuccess`, for
any number of processes, jobs, tenants and faults. None of them is inductive alone. The invariant has
four layers, each kept with the help of those below: `TypeInv` (types, and that a point which uses a
job, run or result is only reached with one), `LockInv` (who is inside `run_sync_job` or probing
holds the lock), `RunInv` (ids are drawn in order, the newest run is kept, the run of a process is
open while it may still be closed by it), `JobInv` (a claimed job has one owner and is not queued,
references point to runs that exist). The action properties follow from it step by step.

Two more theorems have the hypothesis `OneReaper`: the docker worker is the only worker, as in
`docker-compose`, or there is none and every worker is a `--once`. `QueueIsLedger` is the refinement:
initial states map to initial states of `SyncLedger` and every step to one of its steps or a stutter.
Two layers are added for it. `OwnInv`: a job stays running from its claim to the end of its run, and
what the reaper has read as stale is still running when it writes (with two docker workers it is not:
one reaper closes a job that the other worker has closed meanwhile, and a closed job moves again).
`AgeInv` is for `EnqueueThrottled`: the jobs of a tenant were requested in the order of their ids, so
that the newest automatic job the loop looks at speaks for all of them (`LeastIn`, `Newest`), and what
it found (`Rested`) still holds when it inserts. With two loops both may look before either inserts.

`SyncPipeline_proofs` proves `TypeOK`, `CoverageTruthful`, `MarkerBacked` and `IncrementalExtends` for
every window setting and any number of failures. The strengthening is that a run ends on a day that
has come (`Calendar`), that the sources a run has passed without failure reach its end
(`LoadedSoFar`), and that an incremental run starts inside or next to every row (`StartsInside`).

The same module proves `SteadyRowsRead` and `NoSteadyRowLost` for any number of rows, any page size
and budget, every way of breaking ties and every kind of endpoint. The invariant: a row nobody touched
was read or its day is in `todo` (`Covered`), and a walk before its second page holds one full page of
rows that are still there (`WalkInv`). The heart is the verdict: a walk of a day that returned no more
than a page was either short or had an empty second page, so the page it holds is the whole day, by
counting (`WalkReadsAll`); an endpoint that ignores dates or pages returns more than a page or the
budget ends the step. Halves cover their range (`HalvesCover`). `PastShiftsStay` proves
`PastShiftsKept` of `Shifts`: what is over lies before the branch's date, an empty answer clears from
that date on at the earliest, and one with entries writes back what it clears of the past. `PullIsBoth`
says that the behaviours of the run are behaviours of both parts.

`Handlers_proofs` proves of `ManualFacts` `EditTypeOK`, `TypingIsBacked`, `MonthIsOneRow`, `NoCircularWait` and the action
property `NothingOverwrittenUnseen` for any number of rows, tabs and saves in flight. The chain behind
the last one: a cell that differs from what its page shows was typed over exactly that (`PageForm`),
a draft and a posted item keep this (`DraftForm`, `ItemForm`), and a row that a save has written still
holds the ids and the value the save read (`Replaced`). The step into `Replaced` is the heart: the
count of the DELETE shows that the rows read are still there, and since a month is empty, one row or
the legacy rows (`Shapes`), then they are all there is; if nothing was read, the unique index and the
absence of legacy rows leave the month empty. For this, what a save has not written yet must be what
it read or differ in its ids (`Unwritten`), and ids must never be drawn twice (`IdsDrawn`,
`IdsFresh`). `NoCircularWait` needs only that whatever a save has written precedes what it has left.

The same module proves of `AuthSessions` type correctness and three things for any number of browsers, sessions, tokens and losses.
`SessionsCapped`: the only step that adds a session in use is a login, which retires by last use all
but the newest `Cap`; the proof counts what `Retained` keeps, and needs that no two sessions were used
at the same moment. `JarRecognised`, under the constant `Coordinated` (Web Locks): the inductive
`JarInv` says that the tokens of a session are held by one browser (`OneHolder`), that a token in an
answer under way is nowhere else and is the current one of its row (`OnlyOnItsWay`,
`AnswerIsCurrent`), and that a refresh which is waited for shows the token its jar has
(`JarMatchesRequest`). The last two leave out the sessions in `astray`; refreshes that nobody waits for
are any number, at any point. One of them that is granted either finds its own token in the jar and no
newer one under way, and then the jar holds the previous token of the row (`InHand`), or it has been
overtaken, and its session goes astray.
`ValidAccessIsCurrent` is proved of the behaviours with `[]OneChangeAtATime`: the version of the user
row is then as many as the changes committed (`VersionsExact`). Without the hypothesis it is false,
and the code does that too: see below.

`Browser_proofs` proves `OneLinkWorksOnce` of `MailLinks` for any number of requests and links. The invariant is
about who holds what: one transaction at a time holds the row of the account (`OneHolder`), once it
has ended the older links it has claimed every one that works (`LiveClaimed`), no two have claimed the
same link (`RowsApart`), and a link with which a password was set is used (`SpentIsUsed`).

`Branches_proofs` proves of `StaffAccounts` `LinkedOnceUntilDeleted`, `RepairSettles`, and that nobody but the sync
fires or wakes a row of YClients. Between the claim of a row and its commit the lock of the account stands for the
count of its links (`OneHolder`, `ClaimStands`); an account that is not there was deleted or has never
been linked (`NeverLinked`), and a request outlives its account only by a deletion (`Accounted`). What
the repairs write, however old what they read, are mirrors. A repair that is not overtaken settles any
table: what it writes of an account is that account's own share (`RepairShares`), of the mirrors of a branch
the youngest live one stands, else the youngest, and only where no row of YClients does (`OneStands`);
so afterwards a live mirror is alone in its branch (`Settled`), and in such a table nothing is left to
write (`NothingLeft`). Writing the proof showed that the property was too strong as it stood: an id
that was deleted may have two rows of YClients in one branch, with four operations instead of three.
`FactsConserved` is about a sum over the rows: a link adds up the facts of its rows in one of them and
leaves all others alone.

`Sums_proofs` is what the other modules know of sums. The sum of a finite set is defined by recursion over
its subsets; what holds of it is shown by the least counterexample, by number of elements (`Smaller`): the
recursion has a solution (`SumExists`), any element may be taken out (`SumRemove`), a sum is that of a
part and of the rest (`SumSplit`), and of the sums of the parts it falls into (`SumParts`).

`Branches_proofs` proves with these lemmas `PartsAddUp` of the figures, for any branches, people, mirrored
rows and questions. The three joins that find payments (`PaidServices`, `DirectPayments`,
`GoodsPayments`) attribute each row to one person, and that person works in the branch of the row
(`AttributedAtHome`): a payment of a visit belongs to the visit's master, however the two were matched
(`PaysHere`, `PaidVisitsAre`). So the rows of a network fall into those of its branches and the rows of
a group into those of its people, none in two and none in no part (`OneBranch`, `OnePerson`,
`BranchesAddUp`, `PeopleAddUp`); a group of nobody earns nothing (`NobodyEarns`). The invariant behind it
is that names in the mirror are looked up among the people of the row's own branch (`RowsInv`, from
`_load_staff_map`). `RunIsReports` says that the behaviours of the run are behaviours of `Reports`.
`PaymentsNetOut` is proved there too. The revenue is the sum of what each branch earned in each month in
each bucket (`RevenueOfAccounts`, since every payment of a question lies in one of these accounts:
`PaidKeys`); a column adds up its accounts and a month its own (`SumByRow`), and a typed total moves money
within a row, so the rows of the table and of the trend make up the revenue (`TableAddsUp`,
`TrendAddsUp`). Where every column applies its totals, both sides count the same ones, once by branch and
once by month (`CountedParts`, `YandexAgrees`). `TypedInv` keeps what the last clause needs: no total
reaches a day that was not over when it was typed (`ThroughBy`, `SavedIs`), and the clock only advances.

And `ClientsHadTime`. The first and the last visit are chosen by a strict order only if no two visits share an
id: `HistoryInv` says where ids come from, and `IdIsFree` that a visit which is mirrored keeps its own or
the one it adopts, and that a new one is free. Up to its horizon a branch reports and the days are over
(`HorizonKnown`), and a month's last day is shifted furthest (`ShiftGrows`), so a cohort that is mature
for its last day is so for every client. What a client who left is worth is bounded by the positive
payments of his own visits (`RiskIsPaid`): the bound used to be all payments, which refunds can lower.

And `CertifiedDays`. A source is not missing exactly if every branch that reports on part of the year was
read for every day asked for (`MissingIs`, over the least and the greatest of those days), so what a
shown year spans and what its money leans on was read (`KnownYear`), and each visit that was paid for is
among what the money of its month leans on (`PaidLeans`). The money of a year is that of its months
(`YearIsItsMonths`): those its cut meets ask for no more than the year and are known too
(`MonthsOfYear`), and any other month of the year earned nothing (`QuietMonth`), since nothing is paid
before the first activity or after today (`CutIs`).

And `OtherRowsSilent`. The mirror without the rows of other branches, or without the visits outside the
window of their branch and after the period, is a mirror of its own, and each figure read over it is
compared with the figure over the whole: matching a payment with a visit is the same, row by row
(`MatchesAre`), so the same rows are counted (`ScopedRows`, `ScopedSummary`) and sums over the same rows
are equal (`OperatorsAre`). For visits outside a window `ConditionsAre` says that the conditions of the
queries choose the same visits in both, and the earliest future one is the least of either (`LeastUpTo`).

`Figures_proofs` proves `FiguresAgree`: the pages and reports, each from a query of its own, make up the
figures of the overview. A report is a table: rows are filed under a key, and each row sums its file.
`TableSum` adds up any such table, provided that every row has its key in the table and no two keys make
the same record, which the code gets from grouping (a table is a set here, so equal rows would be counted
once). For money, counts and quantities it is `PairTable`, `AmountTable`, `CountTable`, `SumTable`; what is
left is to say which rows a report files and under what. The daily chart files payments and visits by
day and the financial overview days by period (`DailyAddsUp`, `FinancesAddUp`), the years file months
(`YearsAddUp`), services by master or not (`ServicesAddUp`), goods and sellers by payment and by
stock movement (`GoodsAddUp`, `SellersAddUp`, `MergedAddUp`), and so on for clients, records, masters and
the load. Clients fall into buckets by the count of their visits and halves by the day of the first
(`ClientsAddUp`); whoever came before the period came at least twice by its end. The three shares are cut to whole
numbers and the largest remainders get the rest: the rest is at most two (`Remainders`), so as many
shares are raised as it takes (`SharesMakeHundred`). The Pareto parts are places in an order by
revenue and name; the places need not be consecutive for the parts to be everybody once (`ParetoIsAll`).
Goods sold over the counter and with a visit are two halves (`LinksAddUp`), since the completed visit
that a payment matches is among the visits with goods; and a month's cohort and its new clients are the
same people by two queries (`NewcomersAre`): a client is of one branch, so his first visit is the first
of the pair, and months follow one another. The invariant is `AnswersInv`: a visit says what some record
of YClients says (`Says`), and a stock movement has an id of its own. Writing the
proof showed a clause to be too strong as it stood: extras of a visit without a master are in the
overview but in no row of the masters, so the masters' extras and those make up the overview's.

Assumed: branches and people are finitely many, ids are natural numbers and amounts integers, rows are of
days of the calendar, and a question names branches and people there are, one person being asked about in
his own branch (`MirrorAssumption`, `QuestionsAssumption`); a visit has finitely many lines, a client of its
branch and somebody of the staff or nobody, and a movement has an id (`RowsAssumption`); the buckets are one
visit, a few and more (`BucketsAssumption`); days are numbered on and months with them, no year between two days is without
days, and the clock stays in the calendar (`CalendarAssumption`); typed
totals are of branches and months there are (`TypedAssumption`); a new visit gets an id that no visit had
before, the sequence of the table (`HistoryAssumption`).

`PlanSettings_proofs` proves `SavesQueue`, `MetricsTellThePlan` and `UneditedSaveIsSilent` for any
number of editors, people and branches. `IInv` says who holds the month (`LockHeld`), that metrics of
the portal are computed from the stored inputs and that none of these is missing (`OwnAreComputed`,
`ComputedAreThere`), that a page knows of every imported metric it would drop (`ToldAreShown`,
`ToldAreStored`), and that a save which has read the plan holds what follows from its page and the
plan as it stands (`ReadyArePrepared`, which the month lock keeps true). An untouched page is compared
branch by branch: nothing that another branch holds, exact or not, reaches the rows of one whose numbers
are shown exactly (`UntouchedIs`, `UntouchedRows`). The totals of a branch are a
sum nobody has to add up: equal inputs give equal totals. The constants are assumed to be what the
database holds: an imported metric is filed where its person works, and keys are unique.

The same module proves of the other half of `plans` that `OpzIsTheRule` for any visits, bookings,
branch clock less than a day off and period, from `FactsAssumption` (days and minutes are integers)
alone. An anchor lies on the day of its booking or the day before, so the visits that the code reads
contain it (`PairsRead`), and they answer for each kept booking what all visits would (`AnchorSame`); a
booking of the same visit that lies outside the window of bookings read is a later one
(`FirstBooking`), so the first of those read is the first of all. `ScopesAreOne`: the condition on
shifts written in SQL and the one in Python choose the same shifts. `EditorListsAdministrators`: the
people the editor lists in a month are those whose role counts in it. `PlansIsPlan` says that the
behaviours of the run are behaviours of `PlanSettings`.

And `RowsAddUp`, for any roles, shifts, typed numbers and periods. The runs of months with the same roles cut
a period: they cover its days, no two meet, and a day's run has the roles of its month (`SomeRun`, `OneRun`,
`SegmentsCut`). The sharing-out is a recursion over the set of events, and by the least counterexample it
has a solution (`GivingExists`), which gives each event to one administrator of the segment, whatever the shifts say
(`AssignedIn`, `AssignmentsAre`, `CreditsAre`). A rebooking's id is that of its booking, so no two share one
(`OneAnchor`, `RebookingsCome`). Within a segment each event is therefore in its barber's row, if he is listed, and
in one administrator's, if the segment has any and has that barber or no barber (`SharedTimes`, `OpzShared`,
`VisitsShared`). Counting the pairs of row and event by rows and by events gives both sides, segment by
segment and over the period (`OpzGathered`, `VisitsGathered`). Typed numbers are keyed by person and month, so a
person's are counted in the segments of his months as an administrator (`TopUpGathered`).

And `ScreensAgree`. The overview of a person shares the events out among everybody, like his row
(`OverviewIs`), so its parts, its split into first and repeat, its days and the editor's number add up to the
row (`OverviewAddsUp`, `SeriesAddsUp`, `EditorAgrees`). Asking only people with a typed number loses nothing
(`HoldersHoldAll`), and the same keys counted by month or by person make the same total (`KeysByMonth`,
`MonthsMakeThePeriod`). Writing the proof showed a clause to be false in general: the row of a person who left,
over several months, counts a typed value the editor of its month does not (see Administrators above).

Assumed besides `FactsAssumption`: months have one length, days are without a gap and a page asks about days
of the calendar (`CalendarAssumption`); people are finitely many with positive ids, roles are the two the
code reads, typed numbers are natural (`TeamAssumption`). The invariant is `Books`: visits are
finitely many with ids of their own, and what is saved is among what somebody may save.

`Browser_proofs` proves `HistoryAgrees`, `LatestShown` and `AskedBeforeLeaving` of `Board`, for any views,
filters, length of history and number of presses and requests under way. Agreement is claimed only
when the browser is at rest, so the invariant says what holds during a traversal: positions are
counted on along the history, one page has one view (`Ordered`); while the page waits for a position it
is its own, some entry has it, and a traversal of exactly the missing distance is queued (`Here`),
which by `Ordered` never leaves the history (`WayBack`); every flag has somebody who will take it down
(`Waiting`, `Holding`). `CompleteStep` is the heart: an entry with the position waited for is the page
shown (`SameTag`), and whichever of the three ways the handler takes, the flags fit again. Of the
requests it says that the current one of a view, if any, is the one for what was asked last
(`Requests`). `IdleIsMeasured` of `IdleTabs` is proved for any number of tabs and any durations in their
order: no mark is ahead of the last input, and the shared one lags by less than a note and a write; a
tab whose note is newer than its mark and the shared one took it when it was due for the prompt
(`IdleInv`). Assumed of the constants: the first view is a view, editors are views, the durations are
natural numbers in the order `idleSession.js` has them.

`OneRunningRun`, `JobHasOneOwner`, `NewestRowsKept`, `ActiveJobsNotDeleted`,
`GateArmedByUnscopedSuccess`, `IncrementalExtends`, `MonthIsOneRow` and the type invariants are
proved and not listed in a run.

Only model-checked: liveness (`QueuedJobSettles`, `PinnedEnds`, `GuardReleased`, `FetchEnds`), which is
out of the prover's reach. Every invariant and action property of a run is proved.

## Where the code disagrees with its own words

Met while modelling; no run is spent on them, since each follows from reading the lines side by side.

- `reap_stale_jobs` promises that the job of a live worker is never touched (`sync_jobs.py:123`);
  between the unlock of a long sync (`sync_orchestrator.py:229`) and `finish_job`
  (`sync_worker.py:157`) another worker's idle branch fails it. `LiveJobUntouched` is about the time
  under the lock.
- "A run that holds the lock is alive; one that does not is orphaned" (`sync_orchestrator.py:54`): the
  lock belongs to a connection, and a sync whose lock connection drops goes on while its run is
  abandoned under it. The models keep the connection.
- "So «one linked row per branch» cannot be raced past" (`portal_staff_link.py:55`): the lock is a
  `SELECT ... FOR UPDATE` of the account, which locks nothing when the account was deleted after it was
  loaded, and `link_staff` does not look. The row keeps the id of an account that is gone; an account
  provisioned later from the row of that id (`portal_account_provision.py:96`) starts with two linked
  rows in one branch, and a repair keeps both. `OneLinkPerBranch` fails with four operations instead of three;
  `LinkedOnceUntilDeleted` is what holds.
- Account-wide changes raise `token_version` so that older access ends (`auth_routes.py:676`, 696, 1095):
  each reads it, adds one and writes, without a lock, so two that overlap commit the same version, and
  a token minted between the two passes although the second change was to end it.
- A branch leaves full mode although the comments of a full pass failed, since comments have no
  coverage row (`sync_pipeline.py:2269` against 538); those days are not read again.
- "A reset link mailed to the old address must not outlive the address" (`auth_routes.py:1089`): an
  invitation whose profile was read before the change (line 1393) is mailed to the old address after
  it, and works.
- A rotation by the previous token assumes that the client never got the current one
  (`auth_sessions.py:179`). Without Web Locks two pages may refresh at once, and a second lost answer
  then costs the session. With them the same happens after a reload: a refresh the page gave up on,
  handled after the next one was answered, replaces the token the browser has just been given. The next
  refresh is a 401 and the user signs in again. `sessions` runs with the locks and shows that this is
  the one way; after the grace period the late request is a replay and ends the session outright.
- A tenant that takes over a branch gets a company row of its own (`data_sources.py:224`), where the
  docstring of `portal_tenant_ownership` speaks of reassigning the branch.
- The notes of `Shifts`, `DatedFetch` and `PlanSettings` above name three more.

## Not modelled, and why

- Job events and progress columns, the report-usage sweep, catalogs and parsing of rows: no other
  step reads them.
- Tenant scope and ownership: rows that administrators change one at a time. That no other owner
  claims a company is checked and inserted in two statements (`data_sources.py:24`), without an index
  behind it; two owners who connect at once would both get the company.
- YClients credentials: a run reads them once, at its start. A re-encryption that meets a rotation
  writes back what it read before: a secret stored under the old key is encrypted anew when it is
  loaded (`yclients_credentials.py:154`), and the test of a credential awaits YClients between that
  and its commit (`yclients_credential_routes.py:451`).
- The editor of Yandex Pay from a stale page: one row per branch and month that carries the amount and
  its last day, compared with what the page showed as in `ManualFacts`. `Reports` saves from a page that
  shows what is stored (`SaveYandexPay`, into `entered`).
- The counts of YClients analytics: a read-only client with a cache of tokens.
- Of the figures: wording, charts, notes, levels of staff and caches of one request; of the rows of
  Plan/fact: money, services, goods and visibility. Views, schema, migrations, seeds and scripts: no
  behaviour of their own, or run by hand one at a time.

## Plan

Left, in this order: credentials against a running sync, and two owners of one company; the
explicit logout and loads under way in `ManualFacts`.
