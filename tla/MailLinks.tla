------------------------------ MODULE MailLinks ------------------------------
(***************************************************************************)
(* The password links of one portal account: reset and invite mails, the   *)
(* requests that spend or end them, and the transactions of all of these,  *)
(* which interleave.                                                       *)
(*                                                                         *)
(* A request is one database transaction.  Its first statement that writes *)
(* flushes the account (UPDATE portal_users), so from there on the request *)
(* holds the row of the account until it commits; a request that spends a  *)
(* link holds the row of the link before that.  Row locks are read off the *)
(* steps of the requests.  PostgreSQL breaks a circle of waits by failing  *)
(* one of the two.  A mail leaves before the commit of its own link.       *)
(***************************************************************************)
EXTENDS Naturals, FiniteSets

CONSTANTS
  Procs,       \* slots for requests and background tasks
  Addresses,   \* e-mail addresses the account may have
  NULL,
  MaxLinks,    \* bound: mails ever asked for
  MaxEdits,    \* bound: links opened, passwords changed, new addresses, disablings
  MaxFaults    \* bound: mails refused, statements and commits that fail

Links == 1 .. MaxLinks

ASSUME ConstantsAssumption ==
  /\ {MaxLinks, MaxEdits, MaxFaults} \subseteq Nat
  /\ NULL \notin Addresses \cup Procs \cup Links

VARIABLES
  account,   \* committed: email, is_active, "a mail was sent a moment ago", password number
  link,      \* committed state of each link: none, live, used, expired
  mailed,    \* link |-> the address it was mailed to
  guard,     \* _auth_emails_in_flight has the reset mail of this account
  req,       \* slot |-> the request in progress
  spends,    \* history: link |-> passwords set with it
  spent      \* bounds used so far

mailvars == <<account, link, mailed, guard, req, spends, spent>>

Mails == {"forgot", "invite"}
Kinds == Mails \cup {"reset", "change", "email"}
Steps == {"idle", "asking", "queued", "loaded", "opened", "spent", "stamped", "cleared", "sent", "done"}
Idle == [kind |-> "none", step |-> "idle", email |-> NULL, link |-> NULL, rows |-> {}]

MailInit ==
  /\ account \in [email : Addresses, active : {TRUE}, cooling : {FALSE}, password : {0}]
  /\ link = [l \in Links |-> "none"]
  /\ mailed = [l \in Links |-> NULL]
  /\ guard = FALSE
  /\ req = [p \in Procs |-> Idle]
  /\ spends = [l \in Links |-> 0]
  /\ spent = [mails |-> 0, edits |-> 0, faults |-> 0]

-----------------------------------------------------------------------------
(* Row locks.                                                              *)

\* The account was flushed: its row is held until the transaction ends.
HoldsAccount(p) == req[p].step \in {"stamped", "cleared", "sent"}

Live == {l \in Links : link[l] = "live"}
Unused == {l \in Links : link[l] \in {"live", "expired"}}
Drawn == {l \in Links : link[l] # "none" \/ mailed[l] # NULL \/ \E p \in Procs : req[p].link = l}

AccountFree == \A q \in Procs : ~HoldsAccount(q)
RowsFree(p, ls) == \A q \in Procs \ {p} : req[q].rows \cap ls = {}

\* p waits for a row that q holds.
WaitsFor(p, q) ==
  \/ req[p].step \in {"loaded", "spent"} /\ HoldsAccount(q)
  \/ req[p].step = "stamped" /\ req[q].rows \cap Unused # {}
  \/ req[p].step = "opened" /\ req[p].link \in req[q].rows

Begin(p, kind, step, e, l) ==
  /\ req[p] = Idle
  /\ req' = [req EXCEPT ![p] = [kind |-> kind, step |-> step, email |-> e, link |-> l, rows |-> {}]]

Goto(p, step) == req' = [req EXCEPT ![p].step = step]

-----------------------------------------------------------------------------
(* Mails.                                                                  *)

\* What is left of a request that has ended: a background task still has to
\* leave the guard.
Ended(p) == IF req[p].kind = "forgot" THEN [Idle EXCEPT !.kind = "forgot", !.step = "done"] ELSE Idle

MailBound == spent.mails < MaxLinks /\ spent' = [spent EXCEPT !.mails = @ + 1]

\* POST /forgot-password reads the account ...
ForgotRead(p) ==
  /\ account.active /\ ~account.cooling
  /\ MailBound
  /\ Begin(p, "forgot", "asking", NULL, NULL)
  /\ UNCHANGED <<account, link, mailed, guard, spends>>

\* ... and queues a background task, unless one is in flight already.
ForgotQueue(p) ==
  /\ req[p].step = "asking"
  /\ IF guard THEN req' = [req EXCEPT ![p] = Idle] ELSE Goto(p, "queued")
  /\ guard' = TRUE
  /\ UNCHANGED <<account, link, mailed, spends, spent>>

\* The task loads the account in a session of its own.
LoadAccount(p) ==
  /\ req[p].step = "queued"
  /\ req' = [req EXCEPT ![p].step = "loaded", ![p].email = account.email]
  /\ UNCHANGED <<account, link, mailed, guard, spends, spent>>

\* POST /admin/distribute-credentials loads every account before the first mail.
Distribute(p) ==
  /\ MailBound
  /\ Begin(p, "invite", "loaded", account.email, NULL)
  /\ UNCHANGED <<account, link, mailed, guard, spends>>

BadStamp(p) ==
  /\ req[p].step \in {"loaded", "spent"}
  /\ Goto(p, "stamped")
  /\ UNCHANGED <<account, link, mailed, guard, spends, spent>>

\* The first UPDATE flushes what was set on the account (the time of the mail,
\* the new password, the new address), and so takes its row.
Stamp(p) ==
  /\ req[p].step \in {"loaded", "spent"}
  /\ AccountFree
  /\ Goto(p, "stamped")
  /\ UNCHANGED <<account, link, mailed, guard, spends, spent>>

\* Every unused link is marked as used; a mail draws its own.
InvalidateTokens(p) ==
  /\ req[p].step = "stamped"
  /\ RowsFree(p, Unused)
  /\ \E l \in IF req[p].kind \in Mails THEN Links \ Drawn ELSE {req[p].link} :
       req' = [req EXCEPT ![p].step = "cleared", ![p].link = l, ![p].rows = @ \cup Unused]
  /\ UNCHANGED <<account, link, mailed, guard, spends, spent>>

\* The mail goes out, to the address that was loaded.
SendMail(p) ==
  /\ req[p].kind \in Mails /\ req[p].step = "cleared"
  /\ mailed' = [mailed EXCEPT ![req[p].link] = req[p].email]
  /\ Goto(p, "sent")
  /\ UNCHANGED <<account, link, guard, spends, spent>>

\* The links as the transaction leaves them.
Closed(p) == [l \in Links |-> IF l \in req[p].rows THEN "used" ELSE link[l]]

CommitMail(p) ==
  /\ req[p].step = "sent"
  /\ link' = [Closed(p) EXCEPT ![req[p].link] = "live"]
  /\ account' = [account EXCEPT !.cooling = TRUE]
  /\ req' = [req EXCEPT ![p] = Ended(p)]
  /\ UNCHANGED <<mailed, guard, spends, spent>>

BadLeaveGuard(p) ==
  /\ req[p].step = "done"
  /\ req' = [req EXCEPT ![p] = Idle]
  /\ guard' = (guard /\ ~account.cooling)
  /\ UNCHANGED <<account, link, mailed, spends, spent>>

\* The task has ended, well or not.
LeaveGuard(p) ==
  /\ req[p].step = "done"
  /\ req' = [req EXCEPT ![p] = Idle]
  /\ guard' = FALSE
  /\ UNCHANGED <<account, link, mailed, spends, spent>>

\* An entry older than _AUTH_EMAIL_IN_FLIGHT_SECONDS does not count.
GuardLapses ==
  /\ guard
  /\ guard' = FALSE
  /\ UNCHANGED <<account, link, mailed, req, spends, spent>>

-----------------------------------------------------------------------------
(* Requests that spend a link, or end all of them.                         *)

EditBound == spent.edits < MaxEdits /\ spent' = [spent EXCEPT !.edits = @ + 1]

\* POST /reset-password with a link from a mailbox.
OpenLink(p) ==
  /\ \E l \in Links : mailed[l] # NULL /\ Begin(p, "reset", "opened", NULL, l)
  /\ EditBound
  /\ UNCHANGED <<account, link, mailed, guard, spends>>

\* One conditional UPDATE: it waits for whoever holds the link.
ConsumeEmailToken(p) ==
  /\ req[p].step = "opened"
  /\ RowsFree(p, {req[p].link})
  /\ IF link[req[p].link] = "live" /\ account.active
       THEN req' = [req EXCEPT ![p].step = "spent", ![p].rows = {req[p].link}]
       ELSE req' = [req EXCEPT ![p] = Idle]
  /\ UNCHANGED <<account, link, mailed, guard, spends, spent>>

\* POST /change-password with the current password, by somebody signed in.
ChangePassword(p) ==
  /\ account.active
  /\ EditBound
  /\ Begin(p, "change", "loaded", NULL, NULL)
  /\ UNCHANGED <<account, link, mailed, guard, spends>>

\* An administrator gives the account another address.
ChangeEmail(p) ==
  /\ EditBound
  /\ \E a \in Addresses \ {account.email} : Begin(p, "email", "loaded", a, NULL)
  /\ UNCHANGED <<account, link, mailed, guard, spends>>

\* A password or an address is committed, with the end of every link.
CommitEdit(p) ==
  /\ req[p].kind \in {"reset", "change", "email"} /\ req[p].step = "cleared"
  /\ link' = Closed(p)
  /\ account' = IF req[p].kind = "email" THEN [account EXCEPT !.email = req[p].email]
                ELSE [account EXCEPT !.password = @ + 1]
  /\ spends' = IF req[p].kind = "reset" THEN [spends EXCEPT ![req[p].link] = @ + 1] ELSE spends
  /\ req' = [req EXCEPT ![p] = Idle]
  /\ UNCHANGED <<mailed, guard, spent>>

\* An administrator disables the account, or enables it again: one UPDATE and
\* its commit.  Links are not touched.
SetActive ==
  /\ AccountFree
  /\ EditBound
  /\ account' = [account EXCEPT !.active = ~@]
  /\ UNCHANGED <<link, mailed, guard, req, spends>>

-----------------------------------------------------------------------------
(* Time, failures and deadlocks.                                           *)

CoolDownEnds ==
  /\ account.cooling
  /\ account' = [account EXCEPT !.cooling = FALSE]
  /\ UNCHANGED <<link, mailed, guard, req, spends, spent>>

LinkExpires(l) ==
  /\ link[l] = "live"
  /\ link' = [link EXCEPT ![l] = "expired"]
  /\ UNCHANGED <<account, mailed, guard, req, spends, spent>>

RollBack(p) ==
  /\ req' = [req EXCEPT ![p] = Ended(p)]
  /\ UNCHANGED <<account, link, mailed, guard, spends>>

\* A statement, the mail server or the commit fails.
Fails(p) ==
  /\ req[p].step \in {"queued", "loaded", "opened", "spent", "stamped", "cleared", "sent"}
  /\ spent.faults < MaxFaults
  /\ spent' = [spent EXCEPT !.faults = @ + 1]
  /\ RollBack(p)

\* PostgreSQL fails one of two that wait for each other.
DeadlockVictim(p) ==
  /\ \E q \in Procs \ {p} : WaitsFor(p, q) /\ WaitsFor(q, p)
  /\ RollBack(p)
  /\ spent' = spent

-----------------------------------------------------------------------------

Arrives(p) == ForgotRead(p) \/ Distribute(p) \/ OpenLink(p) \/ ChangePassword(p) \/ ChangeEmail(p)

Proceeds(p) ==
  \/ ForgotQueue(p) \/ LoadAccount(p) \/ Stamp(p) \/ InvalidateTokens(p) \/ SendMail(p) \/ CommitMail(p)
  \/ LeaveGuard(p) \/ ConsumeEmailToken(p) \/ CommitEdit(p) \/ DeadlockVictim(p)

MailNext ==
  \/ \E p \in Procs : Arrives(p) \/ Proceeds(p) \/ Fails(p)
  \/ \E l \in Links : LinkExpires(l)
  \/ GuardLapses \/ SetActive \/ CoolDownEnds

MailSpec == MailInit /\ [][MailNext]_mailvars

\* The event loop runs every task, the database answers.
FairMailSpec == MailSpec /\ \A p \in Procs : WF_mailvars(Proceeds(p))

-----------------------------------------------------------------------------
(* Properties.                                                             *)

TypeOK ==
  /\ account \in [email : Addresses, active : BOOLEAN, cooling : BOOLEAN, password : Nat]
  /\ link \in [Links -> {"none", "live", "used", "expired"}]
  /\ mailed \in [Links -> Addresses \cup {NULL}]
  /\ guard \in BOOLEAN
  /\ req \in [Procs -> [kind : Kinds \cup {"none"}, step : Steps, email : Addresses \cup {NULL},
                        link : Links \cup {NULL}, rows : SUBSET Links]]
  /\ spends \in [Links -> Nat]
  /\ spent \in [mails : 0 .. MaxLinks, edits : 0 .. MaxEdits, faults : 0 .. MaxFaults]

\* "Only the newest mail link stays valid" and "spend a token exactly once": of
\* all links mailed to an account at most one works, however mails and edits
\* overlap, and it sets one password, however often and however concurrently it
\* is opened.  (Nothing but the row of the account, taken before the older links
\* are ended, stands between two senders, and its own row between two openings.)
OneLinkWorksOnce ==
  /\ \A k, l \in Live : k = l
  /\ \A l \in Links : spends[l] <= 1

\* Whatever fails, the next request for a mail is not refused for ever.
GuardReleased == guard ~> ~guard
=============================================================================
