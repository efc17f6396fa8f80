----------------------------- MODULE AuthSessions -----------------------------
(***************************************************************************)
(* The refresh sessions of one portal user: the rows of                    *)
(* portal_refresh_tokens, the columns of the user they depend on, the      *)
(* cookie jars of browsers and the requests between them.                  *)
(*                                                                         *)
(* A row is one session.  A refresh rotates its token in place and         *)
(* remembers the one before, which is accepted again for a grace period:   *)
(* the answer that carried the new one may have been lost.  Requests and   *)
(* answers take any time, so their order at the server and at the browser  *)
(* is free; a request or an answer may be lost; and a request whose page   *)
(* has given up on it (a reload, an error of the proxy) is handled all the *)
(* same, perhaps after the next one.                                       *)
(*                                                                         *)
(* One action is one commit, or one read that a later commit of the same   *)
(* request relies on.  Tokens are numbers in the order in which they are   *)
(* drawn; 0 is "none".  A session is used when it is given a token and at  *)
(* no other time, so the session last used is the one whose current token  *)
(* is the youngest.                                                        *)
(***************************************************************************)
EXTENDS Naturals, FiniteSets

CONSTANTS
  Browsers,      \* cookie jars; the pages of one browser share a jar
  Requests,      \* slots for requests in flight
  Changers,      \* slots for account-wide changes in flight
  Coordinated,   \* the pages of a browser wait for one refresh at a time (Web Locks)
  Cap,           \* AUTH_MAX_ACTIVE_SESSIONS
  Grace,         \* REFRESH_ROTATION_GRACE, in ticks
  NoBrowser,     \* whose a free request is
  MaxSessions,   \* bound: rows ever inserted
  MaxTokens,     \* bound: refresh tokens ever drawn
  MaxChanges     \* bound: account-wide changes ever committed

ASSUME ConstantsAssumption ==
  /\ {Grace, MaxSessions, MaxTokens, MaxChanges} \subseteq Nat
  /\ Cap \in Nat \ {0}
  /\ Coordinated \in BOOLEAN
  /\ NoBrowser \notin Browsers

SessionIds == 1 .. MaxSessions

VARIABLES
  user,     \* portal_users: [tv |-> token_version, active |-> is_active]
  rows,     \* portal_refresh_tokens by id
  jar,      \* the cookies of a browser
  req,      \* requests in flight
  chg,      \* account-wide changes in flight
  drawn,    \* sessions and tokens drawn so far
  epoch,    \* history: account-wide changes committed so far
  astray    \* history: sessions that a refresh rotated too late (see MovedOn)

vars == <<user, rows, jar, req, chg, drawn, epoch, astray>>

NoRow == [hash |-> 0, prev |-> 0, age |-> 0, expired |-> FALSE]

\* The refresh cookie, and what the access cookie claims: session and token
\* version.  `epoch` is history: that of the user row it was minted from.
NoCookies == [token |-> 0, sid |-> 0, tv |-> 0, epoch |-> 0]

\* A request carries the refresh cookie of its browser, and its page may or may
\* not still be waiting; `sid`, `grace`, `tv` and `epoch` are what the server has
\* read for it, `cookies` its answer.
NoRequest == [kind |-> "none", by |-> NoBrowser, waited |-> FALSE, step |-> "free", token |-> 0,
              sid |-> 0, grace |-> FALSE, tv |-> 0, epoch |-> 0, cookies |-> NoCookies]
NoChange == [kind |-> "none", tv |-> 0]

Init ==
  /\ user = [tv |-> 0, active |-> TRUE]
  /\ rows = [s \in SessionIds |-> NoRow]
  /\ jar = [b \in Browsers |-> NoCookies]
  /\ req = [i \in Requests |-> NoRequest]
  /\ chg = [c \in Changers |-> NoChange]
  /\ drawn = [sessions |-> 0, tokens |-> 0]
  /\ epoch = 0
  /\ astray = {}

-----------------------------------------------------------------------------
(* Rows.                                                                   *)

InUse(row) == row.hash # 0 /\ ~row.expired
Live(s) == rows[s].hash # 0
Unexpired(s) == InUse(rows[s])

\* The row a token belongs to, and whether only as its previous token.
Current(t) == {s \in SessionIds : t # 0 /\ rows[s].hash = t}
Previous(t) == {s \in SessionIds : t # 0 /\ rows[s].prev = t}

\* An access token passes while its session stands and its version is current.
ValidAccess(c) ==
  /\ c.sid # 0 /\ Unexpired(c.sid)
  /\ user.active /\ c.tv = user.tv

\* ORDER BY last_used_at DESC among the sessions in use: those before s.
UsedAfter(table, s) == {r \in SessionIds : InUse(table[r]) /\ table[r].hash > table[s].hash}

\* A mistake: one too many is kept.
BadRetainedMany(table) ==
  {s \in SessionIds : InUse(table[s]) /\ Cardinality(UsedAfter(table, s)) <= Cap}

\* _maintain_user_sessions: what remains without the expired rows and, of the
\* others, without those beyond the cap.
Retained(table) ==
  {s \in SessionIds : InUse(table[s]) /\ Cardinality(UsedAfter(table, s)) < Cap}

Maintain(table) ==
  rows' = [s \in SessionIds |-> IF s \in Retained(table) THEN table[s] ELSE NoRow]

Delete(S) == rows' = [s \in SessionIds |-> IF s \in S THEN NoRow ELSE rows[s]]

\* What a request mints for session s: a new refresh token and an access token.
Minted(i, s) ==
  [token |-> drawn.tokens + 1, sid |-> s, tv |-> req[i].tv, epoch |-> req[i].epoch]

-----------------------------------------------------------------------------
(* The browser.                                                            *)

\* withRefreshLock: held while a page waits for its refresh, and no longer.
Refreshing(b) == \E i \in Requests : req[i].kind = "refresh" /\ req[i].by = b /\ req[i].waited

Send(i, b, kind) ==
  /\ req[i] = NoRequest
  /\ jar[b].token # 0
  /\ req' = [req EXCEPT ![i] = [NoRequest EXCEPT !.kind = kind, !.by = b, !.waited = TRUE,
                                                 !.step = "sent", !.token = jar[b].token]]
  /\ UNCHANGED <<user, rows, jar, chg, drawn, epoch, astray>>

SendRefresh(i, b) == (Coordinated => ~Refreshing(b)) /\ Send(i, b, "refresh")
SendLogout(i, b) == Send(i, b, "logout")

\* The answer arrives: cookies are set, cleared, or (an error) left alone.
Receive(i) ==
  /\ req[i].step \in {"granted", "cleared", "refused"}
  /\ jar' = CASE req[i].step = "granted" -> [jar EXCEPT ![req[i].by] = req[i].cookies]
              [] req[i].step = "cleared" -> [jar EXCEPT ![req[i].by] = NoCookies]
              [] OTHER -> jar
  /\ req' = [req EXCEPT ![i] = NoRequest]
  /\ UNCHANGED <<user, rows, chg, drawn, epoch, astray>>

\* The page stops waiting: it is reloaded or closed, the network fails or the
\* proxy answers 502, 503 or 504.  The request stays under way and the server may
\* handle it whenever it likes; an answer that was there already is lost.
GiveUp(i) ==
  /\ req[i].waited
  /\ req' = [req EXCEPT ![i] = IF @.step \in {"sent", "read"} THEN [@ EXCEPT !.waited = FALSE]
                                                             ELSE NoRequest]
  /\ UNCHANGED <<user, rows, jar, chg, drawn, epoch, astray>>

\* The request does not reach the server.
Lose(i) ==
  /\ req[i].step = "sent"
  /\ req' = [req EXCEPT ![i] = NoRequest]
  /\ UNCHANGED <<user, rows, jar, chg, drawn, epoch, astray>>

-----------------------------------------------------------------------------
(* The server: sessions.                                                   *)

\* A statement raises: nothing is committed and the answer is an error.
ServerFails(i) ==
  /\ req[i].step = "read"
  /\ req' = [req EXCEPT ![i] = NoRequest]
  /\ UNCHANGED <<user, rows, jar, chg, drawn, epoch, astray>>

At(i, kind, step) == req[i].kind = kind /\ req[i].step = step

\* An answer; nothing else of the request is needed any more.  Nobody gets it
\* when the page has given up.
Answer(i, step, cookies) ==
  req' = [req EXCEPT ![i] = IF req[i].waited
                              THEN [NoRequest EXCEPT !.kind = req[i].kind, !.by = req[i].by,
                                                     !.waited = TRUE, !.step = step, !.cookies = cookies]
                              ELSE NoRequest]
Refuse(i) == Answer(i, "refused", NoCookies)

\* POST /auth/login: the user row is read, then the password is verified in a
\* thread.  (On its way here the request depended on nothing.)
Login(i, b) ==
  /\ req[i] = NoRequest
  /\ user.active
  /\ req' = [req EXCEPT ![i] = [NoRequest EXCEPT !.kind = "login", !.by = b, !.waited = TRUE,
                                                 !.step = "read", !.tv = user.tv, !.epoch = epoch]]
  /\ UNCHANGED <<user, rows, jar, chg, drawn, epoch, astray>>

\* issue_session.  The transaction holds the user row (last_login_at), so two
\* logins of one user never count the rows at the same time.
IssueSession(i) ==
  /\ At(i, "login", "read")
  /\ drawn.sessions < MaxSessions /\ drawn.tokens < MaxTokens
  /\ LET s == drawn.sessions + 1
         new == [hash |-> drawn.tokens + 1, prev |-> 0, age |-> 0, expired |-> FALSE]
     IN  /\ Maintain([rows EXCEPT ![s] = new])
         /\ Answer(i, "granted", Minted(i, s))
         /\ drawn' = [sessions |-> s, tokens |-> drawn.tokens + 1]
  /\ UNCHANGED <<user, jar, chg, epoch, astray>>

\* rotate_session up to its update: the row by its current token, else by its
\* previous one; the latter after the grace period is a replay and ends the
\* session.  Then the user.
LoadRotatable(i) ==
  LET cur == Current(req[i].token)
      old == IF cur = {} THEN Previous(req[i].token) ELSE {}
      late == {s \in old : rows[s].age > Grace}
      usable == {s \in cur \cup (old \ late) : ~rows[s].expired /\ user.active}
  IN  /\ At(i, "refresh", "sent")
      /\ Delete(late)
      /\ IF usable = {}
           THEN Refuse(i)
           ELSE \E s \in usable :
                  req' = [req EXCEPT ![i].step = "read", ![i].sid = s, ![i].grace = (s \in old),
                                     ![i].tv = user.tv, ![i].epoch = epoch]
      /\ UNCHANGED <<user, jar, chg, drawn, epoch, astray>>

\* A mistake: whatever was current becomes the previous token.
BadRotated(i) == [hash |-> drawn.tokens + 1, prev |-> rows[req[i].sid].hash, age |-> 0,
                  expired |-> FALSE]

\* The rotated row.  Within the grace period the client still holds the
\* previous token, so it stays the previous one.
Rotated(i) == [hash |-> drawn.tokens + 1, age |-> 0, expired |-> FALSE,
               prev |-> IF req[i].grace THEN rows[req[i].sid].prev ELSE req[i].token]

\* The browser has another token than the one of this refresh, or is about to.
MovedOn(i) ==
  \/ jar[req[i].by].token # req[i].token
  \/ \E j \in Requests : At(j, "refresh", "granted") /\ req[j].by = req[i].by

\* The conditional update: nothing when the token has moved on or the row is gone.
RotateSession(i) ==
  LET s == req[i].sid
      matches == IF req[i].grace THEN rows[s].prev = req[i].token
                                 ELSE rows[s].hash = req[i].token
  IN  /\ At(i, "refresh", "read")
      /\ \/ /\ matches /\ Unexpired(s)
            /\ drawn.tokens < MaxTokens
            /\ Maintain([rows EXCEPT ![s] = Rotated(i)])
            /\ Answer(i, "granted", Minted(i, s))
            /\ drawn' = [drawn EXCEPT !.tokens = @ + 1]
            /\ astray' = IF ~req[i].waited /\ MovedOn(i) THEN astray \cup {s} ELSE astray
         \/ /\ ~(matches /\ Unexpired(s))
            /\ Refuse(i)
            /\ UNCHANGED <<rows, drawn, astray>>
      /\ UNCHANGED <<user, jar, chg, epoch>>

\* Deletes by the current token only; the cookies are cleared in any case.
RevokeRefresh(i) ==
  /\ At(i, "logout", "sent")
  /\ Delete(Current(req[i].token))
  /\ Answer(i, "cleared", NoCookies)
  /\ UNCHANGED <<user, jar, chg, drawn, epoch, astray>>

\* DELETE /auth/sessions/{id}: access is checked when the request is handled,
\* and its answer concerns no cookie.
RevokeSessionById(b, s) ==
  /\ ValidAccess(jar[b]) /\ Live(s)
  /\ Delete({s})
  /\ UNCHANGED <<user, jar, req, chg, drawn, epoch, astray>>

\* GET /auth/sessions cleans up on the way.
ListUserSessions(b) ==
  /\ ValidAccess(jar[b])
  /\ Maintain(rows)
  /\ UNCHANGED <<user, jar, req, chg, drawn, epoch, astray>>

-----------------------------------------------------------------------------
(* The server: changes of the whole account.  A password is hashed, or a    *)
(* form checked, between the read of the user and the commit.               *)

ChangeRead(c, kind) ==
  /\ chg[c] = NoChange
  /\ user.active
  /\ chg' = [chg EXCEPT ![c] = [kind |-> kind, tv |-> user.tv]]
  /\ UNCHANGED <<user, rows, jar, req, drawn, epoch, astray>>

BadChangeCommit(c) ==
  /\ chg[c] # NoChange
  /\ epoch < MaxChanges
  /\ user' = [user EXCEPT !.active = @ /\ chg[c].kind # "deactivate"]
  /\ Delete(SessionIds)
  /\ epoch' = epoch + 1
  /\ chg' = [chg EXCEPT ![c] = NoChange]
  /\ UNCHANGED <<jar, req, drawn, astray>>

\* Password change, reset and script, logout-all, new e-mail, deactivation:
\* the version read, plus one; every row deleted; one commit.
ChangeCommit(c) ==
  /\ chg[c] # NoChange
  /\ epoch < MaxChanges
  /\ user' = [tv |-> chg[c].tv + 1, active |-> user.active /\ chg[c].kind # "deactivate"]
  /\ Delete(SessionIds)
  /\ epoch' = epoch + 1
  /\ chg' = [chg EXCEPT ![c] = NoChange]
  /\ UNCHANGED <<jar, req, drawn, astray>>

ChangeFails(c) ==
  /\ chg[c] # NoChange
  /\ chg' = [chg EXCEPT ![c] = NoChange]
  /\ UNCHANGED <<user, rows, jar, req, drawn, epoch, astray>>

Activate ==
  /\ ~user.active
  /\ user' = [user EXCEPT !.active = TRUE]
  /\ UNCHANGED <<rows, jar, req, chg, drawn, epoch, astray>>

-----------------------------------------------------------------------------
(* Time.                                                                   *)

\* The ages of the last rotations, saturating beyond the grace period.
Rotating(s) == rows[s].prev # 0 /\ rows[s].age <= Grace

Tick ==
  /\ \E s \in SessionIds : Rotating(s)
  /\ rows' = [s \in SessionIds |->
                IF Rotating(s) THEN [rows[s] EXCEPT !.age = @ + 1] ELSE rows[s]]
  /\ UNCHANGED <<user, jar, req, chg, drawn, epoch, astray>>

\* expires_at passes: it slides with every rotation, up to the absolute age of
\* the session, so it can pass right after one.
Expire(s) ==
  /\ Unexpired(s)
  /\ rows' = [rows EXCEPT ![s].expired = TRUE]
  /\ UNCHANGED <<user, jar, req, chg, drawn, epoch, astray>>

-----------------------------------------------------------------------------
BrowserStep(i) ==
  \/ \E b \in Browsers : Login(i, b) \/ SendRefresh(i, b) \/ SendLogout(i, b)
  \/ Receive(i) \/ GiveUp(i) \/ Lose(i)

ServerStep(i) ==
  \/ IssueSession(i) \/ LoadRotatable(i) \/ RotateSession(i) \/ RevokeRefresh(i)
  \/ ServerFails(i)

Next ==
  \/ \E i \in Requests : BrowserStep(i) \/ ServerStep(i)
  \/ \E b \in Browsers :
       ListUserSessions(b) \/ \E s \in SessionIds : RevokeSessionById(b, s)
  \/ \E c \in Changers :
       \/ \E kind \in {"secret", "deactivate"} : ChangeRead(c, kind)
       \/ ChangeCommit(c) \/ ChangeFails(c)
  \/ Activate
  \/ Tick
  \/ \E s \in SessionIds : Expire(s)

Spec == Init /\ [][Next]_vars

-----------------------------------------------------------------------------
(* Properties.                                                             *)

\* Types of the rows, the cookies and the requests.
Cookies == [token : 0 .. MaxTokens, sid : 0 .. MaxSessions, tv : 0 .. MaxChanges,
            epoch : 0 .. MaxChanges]
RowType == [hash : 0 .. MaxTokens, prev : 0 .. MaxTokens, age : 0 .. (Grace + 1), expired : BOOLEAN]
Kinds == {"login", "refresh", "logout"}
Steps == {"sent", "read", "granted", "cleared", "refused"}
RequestType == [kind : Kinds \cup {"none"}, by : Browsers \cup {NoBrowser}, waited : BOOLEAN,
                step : Steps \cup {"free"}, token : 0 .. MaxTokens, sid : 0 .. MaxSessions,
                grace : BOOLEAN, tv : 0 .. MaxChanges, epoch : 0 .. MaxChanges, cookies : Cookies]
TypeOK ==
  /\ user \in [tv : 0 .. MaxChanges, active : BOOLEAN]
  /\ rows \in [SessionIds -> RowType]
  /\ jar \in [Browsers -> Cookies]
  /\ req \in [Requests -> RequestType]
  /\ chg \in [Changers -> [kind : {"none", "secret", "deactivate"}, tv : 0 .. MaxChanges]]
  /\ drawn \in [sessions : 0 .. MaxSessions, tokens : 0 .. MaxTokens]
  /\ epoch \in 0 .. MaxChanges
  /\ astray \subseteq SessionIds

\* As long as its session stands, a browser holds the current or the previous
\* token of it: no lost, repeated or overtaken answer turns a live session into
\* one its browser cannot use (rotate_session: "The client still holds the old
\* token, so it stays the previous one").  There is one way to lose it: the
\* server handles a refresh that its page has given up on after the browser has
\* been given another token, which that rotation then replaces.
JarRecognised ==
  \A b \in Browsers :
    LET s == jar[b].sid
    IN  s # 0 /\ Live(s) /\ s \notin astray => jar[b].token \in {rows[s].hash, rows[s].prev}

\* An access token that passes was minted from a user row that no account-wide
\* change has replaced since: a login that verified the old password while it
\* was changed gets a session, and no access by it before a refresh.
ValidAccessIsCurrent ==
  \A b \in Browsers : ValidAccess(jar[b]) => jar[b].epoch = epoch

\* However logins, refreshes and lists of a user overlap, no more than Cap of
\* its sessions can be used.
SessionsCapped == Cardinality({s \in SessionIds : Unexpired(s)}) <= Cap

=============================================================================
