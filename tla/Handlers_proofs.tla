--------------------------- MODULE Handlers_proofs ---------------------------
(***************************************************************************)
(* Proofs about handlers that run at once over the same rows: those of     *)
(* sessions and refresh tokens (AuthSessions), and those of the editors of *)
(* monthly facts (ManualFacts).                                            *)
(*                                                                         *)
(* AuthSessions.  The layers of the invariant: types and what              *)
(* a request holds at which point (TypeInv), then that tokens are drawn in  *)
(* order and name one row (TokenInv), which is all the cap needs.  For the  *)
(* cookie jars, when pages of a browser wait for one refresh at a time: who *)
(* holds a token of a session (OneHolder), that the token of an answer under *)
(* way is nowhere else (OnlyOnItsWay), and, of the sessions that no overtaken *)
(* refresh has rotated, what the jar and a refresh that is waited for have in *)
(* common (JarHoldsToken, JarMatchesRequest).                               *)
(*                                                                         *)
(* ManualFacts.  The optimistic lock does what it is for, with any number  *)
(* of pages, saves and rows.                                               *)
(***************************************************************************)
EXTENDS AuthSessions, ManualFacts, FiniteSetTheorems, TLAPS

(***************************************************************************)
(* Types, and the points of a request.                                     *)
(***************************************************************************)

Granted(i) == req[i].step = "granted"
Asking(i) == req[i].kind = "refresh" /\ req[i].step \in {"sent", "read"}

\* Only an answer that grants carries cookies; a request on its way, or a
\* refresh that is being handled, carries a token; a free slot is NoRequest.
RequestOK(q) ==
  /\ q \in RequestType
  /\ q.kind = "refresh" /\ q.step = "read" => q.sid \in SessionIds
  /\ q.step # "granted" => q.cookies = NoCookies
  /\ q.step = "granted" => /\ q.token = 0 /\ q.kind \in {"login", "refresh"}
                           /\ q.cookies.token # 0 /\ q.cookies.sid \in SessionIds
  /\ q.step # "free" => q.by \in Browsers
  /\ q.step \in {"granted", "cleared", "refused"} => q.waited
  /\ q.step = "sent" => q.token # 0
  /\ q.step = "read" /\ q.kind = "refresh" => q.token # 0
  /\ q.kind = "none" \/ q.step = "free" => q = NoRequest

\* The version of the user counts at most the changes committed.
VersionInv ==
  /\ user.tv <= epoch
  /\ \A c \in Changers : chg[c].tv <= epoch

TypeInv ==
  /\ TypeOK
  /\ \A i \in Requests : RequestOK(req[i])
  /\ VersionInv

LEMMA NoRequestOK == RequestOK(NoRequest)
  BY ConstantsAssumption DEF ConstantsAssumption, RequestOK, NoRequest, RequestType, Cookies, NoCookies, Kinds, Steps

LEMMA InitTypeInv == Init => TypeInv
  <1> SUFFICES ASSUME Init PROVE TypeInv
    OBVIOUS
  <1>1. \A i \in Requests : RequestOK(req[i])
    BY NoRequestOK DEF Init
  <1>2. req \in [Requests -> RequestType]
    BY <1>1 DEF Init, RequestOK
  <1>3. rows \in [SessionIds -> RowType]
    BY ConstantsAssumption DEF ConstantsAssumption, Init, NoRow, RowType
  <1>4. QED
    BY <1>1, <1>2, <1>3, ConstantsAssumption
       DEF ConstantsAssumption, Init, TypeInv, TypeOK, VersionInv, NoCookies, NoChange, Cookies

LEMMA NoRequestFields ==
  /\ NoRequest \in RequestType
  /\ NoRequest.token = 0 /\ NoRequest.sid = 0 /\ NoRequest.grace = FALSE
  /\ NoRequest.tv = 0 /\ NoRequest.epoch = 0 /\ NoRequest.cookies = NoCookies
  BY NoRequestOK DEF RequestOK, NoRequest

LEMMA Zeros ==
  /\ 0 \in 0 .. MaxTokens /\ 0 \in 0 .. MaxSessions /\ 0 \in 0 .. MaxChanges
  /\ SessionIds \subseteq 0 .. MaxSessions /\ 0 \notin SessionIds
  /\ "login" \in Kinds /\ "refresh" \in Kinds /\ "logout" \in Kinds
  /\ "login" # "refresh" /\ "logout" # "refresh" /\ "read" # "sent" /\ FALSE \in BOOLEAN
  BY ConstantsAssumption DEF ConstantsAssumption, SessionIds, Kinds

\* One request changes.
LEMMA RequestStep ==
  ASSUME TypeInv, NEW i \in Requests, \E q : req' = [req EXCEPT ![i] = q], RequestOK(req'[i])
  PROVE  /\ req' \in [Requests -> RequestType]
         /\ \A j \in Requests : RequestOK(req[j])'
  <1>1. \A j \in Requests : req'[j] = IF j = i THEN req'[i] ELSE req[j]
    BY DEF TypeInv, TypeOK
  <1>2. \A j \in Requests : RequestOK(req[j])'
    BY <1>1 DEF TypeInv, RequestOK
  <1>3. QED
    BY <1>1, <1>2 DEF TypeInv, TypeOK, RequestOK

\* What is kept, deleted and retired of a table of rows is a table of rows.
LEMMA MaintainType ==
  ASSUME NEW table \in [SessionIds -> RowType], Maintain(table)
  PROVE  rows' \in [SessionIds -> RowType]
  BY ConstantsAssumption DEF ConstantsAssumption, Maintain, NoRow, RowType

LEMMA DeleteType ==
  ASSUME TypeInv, NEW S, Delete(S)
  PROVE  rows' \in [SessionIds -> RowType]
  BY ConstantsAssumption DEF ConstantsAssumption, Delete, NoRow, RowType, TypeInv, TypeOK

LEMMA CookiesType ==
  /\ NoCookies \in Cookies
  /\ TypeInv => \A i \in Requests : req[i].cookies \in Cookies
  BY ConstantsAssumption DEF ConstantsAssumption, NoCookies, Cookies, TypeInv, TypeOK, RequestType

LEMMA JarType ==
  ASSUME TypeInv, NEW b, NEW c \in Cookies, jar' = [jar EXCEPT ![b] = c]
  PROVE  jar' \in [Browsers -> Cookies]
  BY DEF TypeInv, TypeOK

\* A request as the server handles it, and an answer.
Handled(kind, b, w, step, t, s, grace, tv, ep) ==
  [kind |-> kind, by |-> b, waited |-> w, step |-> step, token |-> t, sid |-> s, grace |-> grace,
   tv |-> tv, epoch |-> ep, cookies |-> NoCookies]

AnswerOf(kind, b, step, cookies) ==
  [kind |-> kind, by |-> b, waited |-> TRUE, step |-> step, token |-> 0, sid |-> 0,
   grace |-> FALSE, tv |-> 0, epoch |-> 0, cookies |-> cookies]

\* What the slot of a request holds once it is answered: nothing if its page has
\* given up on it.
Response(q, step, cookies) ==
  IF q.waited THEN AnswerOf(q.kind, q.by, step, cookies) ELSE NoRequest

LEMMA HandledOK ==
  ASSUME NEW kind \in Kinds, NEW b \in Browsers, NEW w \in BOOLEAN, NEW step \in {"sent", "read"},
         NEW t \in 0 .. MaxTokens, NEW s \in 0 .. MaxSessions, NEW grace \in BOOLEAN,
         NEW tv \in 0 .. MaxChanges, NEW ep \in 0 .. MaxChanges,
         step = "sent" \/ kind = "refresh" => t # 0,
         kind = "refresh" /\ step = "read" => s # 0
  PROVE  RequestOK(Handled(kind, b, w, step, t, s, grace, tv, ep))
  <1> DEFINE q == Handled(kind, b, w, step, t, s, grace, tv, ep)
  <1>1. q \in RequestType
    BY CookiesType DEF RequestType, Handled, Steps
  <1>2. QED
    BY <1>1, ConstantsAssumption DEF ConstantsAssumption, RequestOK, Handled, SessionIds, Kinds

LEMMA AnswerOK ==
  ASSUME NEW q, NEW step \in {"granted", "cleared", "refused"}, NEW c \in Cookies,
         q.kind \in Kinds, q.by \in Browsers, step # "granted" => c = NoCookies,
         step = "granted" => q.kind # "logout" /\ c.token # 0 /\ c.sid \in SessionIds
  PROVE  RequestOK(Response(q, step, c))
  <1> DEFINE a == AnswerOf(q.kind, q.by, step, c)
  <1>1. a \in RequestType
    BY ConstantsAssumption DEF ConstantsAssumption, RequestType, AnswerOf, Steps
  <1>2. RequestOK(a)
    BY <1>1 DEF RequestOK, AnswerOf, Kinds
  <1>3. QED
    BY <1>2, NoRequestOK DEF Response

\* How a request changes when it is answered.
LEMMA Answered ==
  ASSUME TypeInv, NEW i \in Requests, NEW step, NEW c, Answer(i, step, c)
  PROVE  /\ req'[i] = Response(req[i], step, c)
         /\ \E q : req' = [req EXCEPT ![i] = q]
  <1>1. CASE req[i].waited
    <2>1. req'[i] = AnswerOf(req[i].kind, req[i].by, step, c)
      BY <1>1, NoRequestFields DEF Answer, AnswerOf, TypeInv, TypeOK, RequestType
    <2>2. QED
      BY <1>1, <2>1 DEF Answer, Response
  <1>2. CASE ~req[i].waited
    <2>1. req' = [req EXCEPT ![i] = NoRequest]
      BY <1>2 DEF Answer
    <2>2. QED
      BY <1>2, <2>1 DEF Response, TypeInv, TypeOK
  <1>3. QED
    BY <1>1, <1>2

\* How a request changes when its page gives up on it.
LEMMA GivenUp ==
  ASSUME TypeInv, NEW i \in Requests, GiveUp(i)
  PROVE  /\ \/ req'[i] = NoRequest
            \/ /\ req[i].step \in {"sent", "read"}
               /\ req'[i] = [req[i] EXCEPT !.waited = FALSE]
         /\ \E q : req' = [req EXCEPT ![i] = q]
  BY DEF GiveUp, TypeInv, TypeOK

LEMMA NextTypeInv == TypeInv /\ [Next]_vars => TypeInv'
  <1> SUFFICES ASSUME TypeInv, [Next]_vars PROVE TypeInv'
    OBVIOUS
  <1> USE ConstantsAssumption DEF ConstantsAssumption
  <1>1. CASE UNCHANGED vars
    BY <1>1 DEF TypeInv, TypeOK, VersionInv, vars, RequestOK, Live
  <1>2. ASSUME NEW i \in Requests, NEW b \in Browsers, Login(i, b) PROVE TypeInv'
    <2>1. req'[i] = Handled("login", b, TRUE, "read", 0, 0, FALSE, user.tv, epoch)
      BY <1>2, NoRequestFields DEF Login, Handled, TypeInv, TypeOK, RequestType
    <2>2. user.tv \in 0 .. MaxChanges /\ epoch \in 0 .. MaxChanges
      BY DEF TypeInv, TypeOK
    <2>3. RequestOK(Handled("login", b, TRUE, "read", 0, 0, FALSE, user.tv, epoch))
      BY <2>2, HandledOK, Zeros
    <2>4. RequestOK(req'[i]) /\ \E q : req' = [req EXCEPT ![i] = q]
      BY <1>2, <2>1, <2>3 DEF Login
    <2>5. QED
      BY <1>2, <2>4, RequestStep DEF Login, TypeInv, TypeOK, VersionInv
  <1>3. ASSUME NEW i \in Requests, NEW b \in Browsers, NEW kind \in {"refresh", "logout"},
               Send(i, b, kind)
        PROVE  TypeInv'
    <2>1. req'[i] = Handled(kind, b, TRUE, "sent", jar[b].token, 0, FALSE, 0, 0)
      BY <1>3, NoRequestFields DEF Send, Handled, TypeInv, TypeOK, RequestType
    <2>2. jar[b].token \in 0 .. MaxTokens /\ jar[b].token # 0
      BY <1>3 DEF Send, TypeInv, TypeOK, Cookies
    <2>3. RequestOK(Handled(kind, b, TRUE, "sent", jar[b].token, 0, FALSE, 0, 0))
      BY <2>2, HandledOK, Zeros
    <2>4. RequestOK(req'[i]) /\ \E q : req' = [req EXCEPT ![i] = q]
      BY <1>3, <2>1, <2>3 DEF Send
    <2>5. QED
      BY <1>3, <2>4, RequestStep DEF Send, TypeInv, TypeOK, VersionInv
  <1>4. ASSUME NEW i \in Requests, Receive(i) PROVE TypeInv'
    <2>1. req'[i] = NoRequest /\ \E q : req' = [req EXCEPT ![i] = q]
      BY <1>4 DEF Receive, TypeInv, TypeOK
    <2>2. jar' \in [Browsers -> Cookies]
      <3>1. CASE req[i].step = "granted"
        BY <1>4, <3>1, CookiesType, JarType DEF Receive
      <3>2. CASE req[i].step = "cleared"
        BY <1>4, <3>2, CookiesType, JarType DEF Receive
      <3>3. CASE req[i].step = "refused"
        BY <1>4, <3>3 DEF Receive, TypeInv, TypeOK
      <3>4. QED
        BY <1>4, <3>1, <3>2, <3>3 DEF Receive
    <2>3. QED
      BY <1>4, <2>1, <2>2, NoRequestOK, RequestStep DEF Receive, TypeInv, TypeOK, VersionInv
  <1>5. ASSUME NEW i \in Requests, Lose(i) \/ ServerFails(i) PROVE TypeInv'
    <2>1. req'[i] = NoRequest /\ \E q : req' = [req EXCEPT ![i] = q]
      BY <1>5 DEF Lose, ServerFails, TypeInv, TypeOK
    <2>2. /\ req' \in [Requests -> RequestType]
          /\ \A j \in Requests : RequestOK(req[j])'
      BY <2>1, NoRequestOK, RequestStep
    <2>3. UNCHANGED <<user, rows, jar, chg, drawn, epoch, astray>>
      BY <1>5 DEF Lose, ServerFails
    <2>4. QED
      BY <2>2, <2>3 DEF TypeInv, TypeOK, VersionInv
  <1>18. ASSUME NEW i \in Requests, GiveUp(i) PROVE TypeInv'
    <2>1. RequestOK(req'[i]) /\ \E q : req' = [req EXCEPT ![i] = q]
      <3>1. CASE req'[i] = NoRequest
        BY <1>18, <3>1, GivenUp, NoRequestOK
      <3>2. CASE /\ req[i].step \in {"sent", "read"}
                 /\ req'[i] = [req[i] EXCEPT !.waited = FALSE]
        <4>1. RequestOK(req[i]) /\ req[i] \in RequestType /\ req[i].kind # "none"
          BY <3>2, NoRequestOK DEF TypeInv, TypeOK, RequestOK, NoRequest
        <4>2. [req[i] EXCEPT !.waited = FALSE] \in RequestType
          BY <4>1 DEF RequestType
        <4>3. QED
          BY <1>18, <3>2, <4>1, <4>2, GivenUp DEF RequestOK, RequestType
      <3>3. QED
        BY <1>18, <3>1, <3>2, GivenUp
    <2>2. QED
      BY <1>18, <2>1, RequestStep DEF GiveUp, TypeInv, TypeOK, VersionInv
  <1>6. ASSUME NEW i \in Requests, IssueSession(i) PROVE TypeInv'
    <2> DEFINE s == drawn.sessions + 1
               c == Minted(i, s)
               new == [hash |-> drawn.tokens + 1, prev |-> 0, age |-> 0, expired |-> FALSE]
               table == [rows EXCEPT ![s] = new]
    <2>1. s \in SessionIds /\ drawn.tokens + 1 \in 1 .. MaxTokens
      BY <1>6 DEF IssueSession, TypeInv, TypeOK, SessionIds
    <2>2. c \in Cookies /\ c.token # 0 /\ c.sid = s
      BY <2>1, Zeros DEF Minted, Cookies, TypeInv, TypeOK, RequestType
    <2>3. req[i].by \in Browsers /\ req[i].kind = "login"
      BY <1>6 DEF IssueSession, At, TypeInv, RequestOK
    <2>4. Maintain(table) /\ drawn' = [sessions |-> s, tokens |-> drawn.tokens + 1]
      BY <1>6 DEF IssueSession
    <2>5. Answer(i, "granted", c) /\ UNCHANGED <<user, jar, chg, epoch, astray>>
      BY <1>6 DEF IssueSession
    <2>6. new \in RowType
      BY <2>1 DEF RowType
    <2>7. table \in [SessionIds -> RowType]
      BY <2>6 DEF TypeInv, TypeOK
    <2>8. drawn' \in [sessions : 0 .. MaxSessions, tokens : 0 .. MaxTokens]
      BY <2>1, <2>4 DEF SessionIds
    <2> HIDE DEF c, table
    <2>9. RequestOK(req'[i]) /\ \E q : req' = [req EXCEPT ![i] = q]
      BY <2>1, <2>2, <2>3, <2>5, AnswerOK, Answered, Zeros
    <2>10. QED
      BY <2>4, <2>5, <2>7, <2>8, <2>9, RequestStep, MaintainType DEF TypeInv, TypeOK, VersionInv
  <1>7. ASSUME NEW i \in Requests, LoadRotatable(i) PROVE TypeInv'
    <2> DEFINE cur == Current(req[i].token)
               old == IF cur = {} THEN Previous(req[i].token) ELSE {}
               late == {s \in old : rows[s].age > Grace}
               usable == {s \in cur \cup (old \ late) : ~rows[s].expired /\ user.active}
    <2>1. /\ At(i, "refresh", "sent")
          /\ Delete(late)
          /\ IF usable = {}
               THEN Refuse(i)
               ELSE \E s \in usable :
                  req' = [req EXCEPT ![i].step = "read", ![i].sid = s, ![i].grace = (s \in old),
                                     ![i].tv = user.tv, ![i].epoch = epoch]
          /\ UNCHANGED <<user, jar, chg, drawn, epoch, astray>>
      BY <1>7 DEF LoadRotatable
    <2>2. usable \subseteq SessionIds
      BY DEF Current, Previous
    <2> HIDE DEF usable, late, old
    <2>3. /\ req[i].by \in Browsers
          /\ req[i].token \in 0 .. MaxTokens
          /\ req[i].token # 0
          /\ req[i] \in RequestType
          /\ req[i].cookies = NoCookies
          /\ req[i].kind = "refresh" /\ req[i].waited \in BOOLEAN
      BY <2>1 DEF At, TypeInv, TypeOK, RequestOK, RequestType
    <2>4. RequestOK(req'[i]) /\ \E q : req' = [req EXCEPT ![i] = q]
      <3>1. CASE usable = {}
        BY <2>1, <2>3, <3>1, AnswerOK, Answered, CookiesType, Zeros DEF Refuse
      <3>2. ASSUME NEW s \in usable,
                   req' = [req EXCEPT ![i].step = "read", ![i].sid = s, ![i].grace = (s \in old),
                                     ![i].tv = user.tv, ![i].epoch = epoch]
            PROVE  RequestOK(req'[i]) /\ \E q : req' = [req EXCEPT ![i] = q]
        <4> DEFINE g == s \in old
        <4>0. g \in BOOLEAN
          OBVIOUS
        <4>1. req'[i] = Handled("refresh", req[i].by, req[i].waited, "read", req[i].token, s, g, user.tv, epoch)
          BY <3>2, <2>3 DEF Handled, TypeInv, TypeOK, RequestType
        <4>2. user.tv \in 0 .. MaxChanges /\ epoch \in 0 .. MaxChanges
          BY DEF TypeInv, TypeOK
        <4> HIDE DEF g
        <4>3. RequestOK(Handled("refresh", req[i].by, req[i].waited, "read", req[i].token, s, g, user.tv, epoch))
          BY <4>0, <2>2, <2>3, <4>2, HandledOK, Zeros
        <4>4. QED
          BY <3>2, <4>1, <4>3
      <3>3. QED
        BY <2>1, <3>1, <3>2
    <2>5. QED
      BY <2>1, <2>4, RequestStep, DeleteType DEF TypeInv, TypeOK, VersionInv
  <1>8. ASSUME NEW i \in Requests, RotateSession(i) PROVE TypeInv'
    <2> DEFINE s == req[i].sid
               c == Minted(i, s)
               table == [rows EXCEPT ![s] = Rotated(i)]
    <2>1. /\ At(i, "refresh", "read")
          /\ req[i].kind = "refresh"
          /\ s \in SessionIds
          /\ req[i].by \in Browsers
          /\ UNCHANGED <<user, jar, chg, epoch>>
      BY <1>8 DEF RotateSession, At, TypeInv, RequestOK
    <2>2. CASE /\ drawn.tokens < MaxTokens
               /\ Maintain(table)
               /\ Answer(i, "granted", c)
               /\ drawn' = [drawn EXCEPT !.tokens = @ + 1]
               /\ astray' \in {astray, astray \cup {s}}
      <3>1. drawn.tokens + 1 \in 1 .. MaxTokens
        BY <2>2 DEF TypeInv, TypeOK
      <3>2. c \in Cookies /\ c.token # 0 /\ c.sid = s
        BY <2>1, <3>1, Zeros DEF Minted, Cookies, TypeInv, TypeOK, RequestType
      <3>3. Rotated(i) \in RowType
        <4>1. rows[s] \in RowType /\ req[i].token \in 0 .. MaxTokens
          BY <2>1 DEF TypeInv, TypeOK, RequestType
        <4>2. QED
          BY <3>1, <4>1 DEF Rotated, RowType
      <3>4. table \in [SessionIds -> RowType]
        BY <3>3 DEF TypeInv, TypeOK
      <3>5. drawn' \in [sessions : 0 .. MaxSessions, tokens : 0 .. MaxTokens]
        BY <2>2, <3>1 DEF TypeInv, TypeOK
      <3> HIDE DEF c, table
      <3>6. RequestOK(req'[i]) /\ \E q : req' = [req EXCEPT ![i] = q]
        BY <2>1, <2>2, <3>2, AnswerOK, Answered, Zeros
      <3>7. QED
        BY <2>1, <2>2, <3>4, <3>5, <3>6, RequestStep, MaintainType DEF TypeInv, TypeOK, VersionInv
    <2>3. CASE Refuse(i) /\ UNCHANGED <<rows, drawn, astray>>
      <3>1. RequestOK(req'[i]) /\ \E q : req' = [req EXCEPT ![i] = q]
        BY <2>1, <2>3, AnswerOK, Answered, CookiesType, Zeros DEF Refuse
      <3>2. QED
        BY <2>1, <2>3, <3>1, RequestStep DEF TypeInv, TypeOK, VersionInv
    <2>4. QED
      BY <1>8, <2>2, <2>3 DEF RotateSession
  <1>9. ASSUME NEW i \in Requests, RevokeRefresh(i) PROVE TypeInv'
    <2>1. /\ req[i].by \in Browsers /\ req[i].kind = "logout"
          /\ Answer(i, "cleared", NoCookies)
      BY <1>9 DEF RevokeRefresh, At, TypeInv, RequestOK
    <2>2. RequestOK(req'[i]) /\ \E q : req' = [req EXCEPT ![i] = q]
      BY <2>1, AnswerOK, Answered, CookiesType, Zeros
    <2>3. QED
      BY <1>9, <2>2, RequestStep, DeleteType DEF RevokeRefresh, TypeInv, TypeOK, VersionInv
  <1>10. ASSUME NEW b \in Browsers, NEW s \in SessionIds, RevokeSessionById(b, s) PROVE TypeInv'
    BY <1>10, DeleteType DEF RevokeSessionById, TypeInv, TypeOK, VersionInv, RequestOK
  <1>11. ASSUME NEW b \in Browsers, ListUserSessions(b) PROVE TypeInv'
    BY <1>11, MaintainType DEF ListUserSessions, TypeInv, TypeOK, VersionInv, RequestOK
  <1>12. ASSUME NEW c \in Changers, NEW kind \in {"secret", "deactivate"}, ChangeRead(c, kind)
         PROVE  TypeInv'
    BY <1>12 DEF ChangeRead, TypeInv, TypeOK, VersionInv, RequestOK
  <1>13. ASSUME NEW c \in Changers, ChangeCommit(c) PROVE TypeInv'
    <2>1. rows' \in [SessionIds -> RowType]
      BY <1>13, DeleteType DEF ChangeCommit
    <2>2. /\ user' \in [tv : 0 .. MaxChanges, active : BOOLEAN]
          /\ user'.tv <= epoch' /\ epoch' \in 0 .. MaxChanges
      BY <1>13 DEF ChangeCommit, TypeInv, TypeOK, VersionInv
    <2>3. /\ chg' \in [Changers -> [kind : {"none", "secret", "deactivate"}, tv : 0 .. MaxChanges]]
          /\ \A d \in Changers : chg'[d].tv <= epoch'
      BY <1>13 DEF ChangeCommit, TypeInv, TypeOK, VersionInv, NoChange
    <2>4. QED
      BY <1>13, <2>1, <2>2, <2>3 DEF ChangeCommit, TypeInv, TypeOK, VersionInv, RequestOK
  <1>14. ASSUME NEW c \in Changers, ChangeFails(c) PROVE TypeInv'
    BY <1>14 DEF ChangeFails, TypeInv, TypeOK, VersionInv, RequestOK, NoChange
  <1>15. CASE Activate
    BY <1>15 DEF Activate, TypeInv, TypeOK, VersionInv, RequestOK
  <1>16. CASE Tick
    BY <1>16 DEF Tick, TypeInv, TypeOK, VersionInv, RequestOK, Rotating, RowType
  <1>17. ASSUME NEW s \in SessionIds, Expire(s) PROVE TypeInv'
    <2>1. rows' \in [SessionIds -> RowType]
      <3>1. rows[s] \in RowType
        BY DEF TypeInv, TypeOK
      <3>2. [rows[s] EXCEPT !.expired = TRUE] \in RowType
        BY <3>1 DEF RowType
      <3>3. rows' = [rows EXCEPT ![s] = [rows[s] EXCEPT !.expired = TRUE]]
        BY <1>17 DEF Expire
      <3>4. QED
        BY <3>2, <3>3 DEF TypeInv, TypeOK
    <2>2. QED
      BY <1>17, <2>1 DEF Expire, TypeInv, TypeOK, VersionInv, RequestOK
  <1> QED
    BY <1>1, <1>2, <1>3, <1>4, <1>5, <1>6, <1>7, <1>8, <1>9, <1>10, <1>11, <1>12, <1>13, <1>14,
       <1>15, <1>16, <1>17, <1>18
       DEF Next, BrowserStep, ServerStep, SendRefresh, SendLogout
-----------------------------------------------------------------------------
(***************************************************************************)
(* The steps that hand out nothing: rows, cookies and requests keep their  *)
(* tokens or lose them.                                                    *)
(***************************************************************************)

QuietRow(s) ==
  \/ rows'[s] = NoRow
  \/ /\ rows'[s].hash = rows[s].hash /\ rows'[s].prev = rows[s].prev
     /\ InUse(rows'[s]) => InUse(rows[s])

QuietRequest(i) ==
  \/ req'[i] = req[i]
  \/ /\ req'[i].token = 0 /\ req'[i].cookies = NoCookies
     /\ ~Granted(i)' /\ req'[i].step # "sent"
     /\ req'[i].kind = "refresh" => /\ req[i].kind = "refresh" /\ req'[i].by = req[i].by
                                   /\ (req'[i].waited => req[i].waited)
  \/ /\ At(i, "refresh", "sent") /\ At(i, "refresh", "read")'
     /\ req'[i].by = req[i].by /\ req'[i].token = req[i].token
     /\ req'[i].waited = req[i].waited /\ req'[i].cookies = req[i].cookies
  \/ /\ req[i].step \in {"sent", "read"} /\ req'[i] = [req[i] EXCEPT !.waited = FALSE]

Quiet ==
  /\ drawn' = drawn /\ astray' = astray
  /\ \A s \in SessionIds : QuietRow(s)
  /\ \A b \in Browsers : jar'[b] \in {jar[b], NoCookies}
  /\ \A i \in Requests : QuietRequest(i)

\* The steps that are not: a token is sent, arrives, or is handed out.
Sends(i, b) ==
  /\ req[i] = NoRequest
  /\ jar[b].token # 0
  /\ \E kind \in {"refresh", "logout"} :
       /\ req'[i] = Handled(kind, b, TRUE, "sent", jar[b].token, 0, FALSE, 0, 0)
       /\ kind = "refresh" /\ Coordinated => ~Refreshing(b)
  /\ \A j \in Requests \ {i} : req'[j] = req[j]
  /\ UNCHANGED <<rows, jar, drawn, astray>>

Arrives(i) ==
  /\ Granted(i)
  /\ jar' = [jar EXCEPT ![req[i].by] = req[i].cookies]
  /\ req' = [req EXCEPT ![i] = NoRequest]
  /\ UNCHANGED <<rows, drawn, astray>>

HandsOut(i, s, prev) ==
  /\ s \in SessionIds
  /\ Maintain([rows EXCEPT ![s] = [hash |-> drawn.tokens + 1, age |-> 0, expired |-> FALSE,
                                   prev |-> prev]])
  /\ req[i].step = "read"
  /\ req'[i] = Response(req[i], "granted", Minted(i, s))
  /\ \A j \in Requests \ {i} : req'[j] = req[j]
  /\ drawn'.tokens = drawn.tokens + 1
  /\ jar' = jar

Issues(i) ==
  /\ req[i].kind = "login"
  /\ HandsOut(i, drawn.sessions + 1, 0)
  /\ drawn'.sessions = drawn.sessions + 1
  /\ astray' = astray

Rotates(i) ==
  /\ req[i].kind = "refresh"
  /\ req[i].token \in {rows[req[i].sid].hash, rows[req[i].sid].prev}
  /\ HandsOut(i, req[i].sid, req[i].token)
  /\ drawn'.sessions = drawn.sessions
  /\ Live(req[i].sid)
  /\ astray' = IF ~req[i].waited /\ MovedOn(i) THEN astray \cup {req[i].sid} ELSE astray

LEMMA QuietRequests ==
  ASSUME TypeInv, NEW i \in Requests, \E q : req' = [req EXCEPT ![i] = q], QuietRequest(i)
  PROVE  \A j \in Requests : QuietRequest(j)
  BY DEF TypeInv, TypeOK, QuietRequest

LEMMA NoneTaken ==
  ASSUME TypeInv, NEW i \in Requests, req' = [req EXCEPT ![i] = NoRequest]
  PROVE  QuietRequest(i)
  BY DEF TypeInv, TypeOK, QuietRequest, NoRequest, Granted

LEMMA NoneAnswered ==
  ASSUME TypeInv, NEW i \in Requests, NEW step \in {"cleared", "refused"},
         Answer(i, step, NoCookies)
  PROVE  QuietRequest(i)
  <1>1. req'[i] = Response(req[i], step, NoCookies)
    BY Answered, Zeros
  <1>2. CASE req[i].waited
    <2>1. req'[i] = AnswerOf(req[i].kind, req[i].by, step, NoCookies)
      BY <1>1, <1>2 DEF Response
    <2>2. QED
      BY <1>2, <2>1 DEF QuietRequest, AnswerOf, Granted
  <1>3. CASE ~req[i].waited
    <2>1. req'[i] = NoRequest
      BY <1>1, <1>3 DEF Response
    <2>2. QED
      BY <2>1 DEF QuietRequest, NoRequest, Granted
  <1>4. QED
    BY <1>2, <1>3

LEMMA DeleteQuiet ==
  ASSUME TypeInv, NEW S, Delete(S)
  PROVE  \A s \in SessionIds : QuietRow(s)
  BY DEF Delete, QuietRow

LEMMA MaintainQuiet ==
  ASSUME TypeInv, Maintain(rows)
  PROVE  \A s \in SessionIds : QuietRow(s)
  BY DEF Maintain, QuietRow

LEMMA StepCases ==
  ASSUME TypeInv, [Next]_vars
  PROVE  \/ Quiet
         \/ \E i \in Requests, b \in Browsers : Sends(i, b)
         \/ \E i \in Requests : Arrives(i) \/ Issues(i) \/ Rotates(i)
  <1> DEFINE Goal == \/ Quiet
                     \/ \E i \in Requests, b \in Browsers : Sends(i, b)
                     \/ \E i \in Requests : Arrives(i) \/ Issues(i) \/ Rotates(i)
  <1> SUFFICES Goal
    OBVIOUS
  <1>0. /\ UNCHANGED rows => \A s \in SessionIds : QuietRow(s)
        /\ UNCHANGED jar => \A b \in Browsers : jar'[b] \in {jar[b], NoCookies}
        /\ UNCHANGED req => \A i \in Requests : QuietRequest(i)
    BY DEF QuietRow, QuietRequest
  <1>1. CASE UNCHANGED vars
    BY <1>0, <1>1 DEF vars, Quiet
  <1>2. ASSUME NEW i \in Requests, NEW b \in Browsers, Login(i, b) PROVE Goal
    <2>1. req'[i] = Handled("login", b, TRUE, "read", 0, 0, FALSE, user.tv, epoch)
      BY <1>2, NoRequestFields DEF Login, Handled, TypeInv, TypeOK, RequestType
    <2>2. QuietRequest(i)
      BY <2>1 DEF Handled, QuietRequest, Granted
    <2>3. QED
      BY <1>0, <1>2, <2>2, QuietRequests DEF Login, Quiet
  <1>3. ASSUME NEW i \in Requests, NEW b \in Browsers, NEW kind \in {"refresh", "logout"},
               Send(i, b, kind), kind = "refresh" /\ Coordinated => ~Refreshing(b)
        PROVE  Goal
    <2>1. req'[i] = Handled(kind, b, TRUE, "sent", jar[b].token, 0, FALSE, 0, 0)
      BY <1>3, NoRequestFields DEF Send, Handled, TypeInv, TypeOK, RequestType
    <2>2. \A j \in Requests \ {i} : req'[j] = req[j]
      BY <1>3 DEF Send, TypeInv, TypeOK
    <2>3. Sends(i, b)
      BY <1>3, <2>1, <2>2 DEF Send, Sends
    <2>4. QED
      BY <2>3
  <1>4. ASSUME NEW i \in Requests, Receive(i) PROVE Goal
    <2>1. CASE Granted(i)
      BY <1>4, <2>1 DEF Receive, Arrives, Granted
    <2>2. CASE ~Granted(i)
      <3>1. \A b \in Browsers : jar'[b] \in {jar[b], NoCookies}
        BY <1>4, <2>2 DEF Receive, Granted, TypeInv, TypeOK
      <3>2. QED
        BY <1>0, <1>4, <3>1, NoneTaken, QuietRequests DEF Receive, Quiet
    <2>3. QED
      BY <2>1, <2>2
  <1>5. ASSUME NEW i \in Requests, Lose(i) \/ ServerFails(i) PROVE Goal
    <2>1. req' = [req EXCEPT ![i] = NoRequest] /\ UNCHANGED <<rows, jar, drawn, astray>>
      BY <1>5 DEF Lose, ServerFails
    <2>2. QED
      BY <1>0, <2>1, NoneTaken, QuietRequests DEF Quiet
  <1>16. ASSUME NEW i \in Requests, GiveUp(i) PROVE Goal
    <2>1. QuietRequest(i) /\ \E q : req' = [req EXCEPT ![i] = q]
      BY <1>16, GivenUp DEF QuietRequest, NoRequest, Granted
    <2>2. QED
      BY <1>0, <1>16, <2>1, QuietRequests DEF GiveUp, Quiet
  <1>6. ASSUME NEW i \in Requests, IssueSession(i) PROVE Goal
    <2> DEFINE s == drawn.sessions + 1
    <2>1. s \in SessionIds
      BY <1>6, ConstantsAssumption DEF ConstantsAssumption, IssueSession, TypeInv, TypeOK, SessionIds
    <2>2. /\ req'[i] = Response(req[i], "granted", Minted(i, s))
          /\ \A j \in Requests \ {i} : req'[j] = req[j]
      BY <1>6, Answered DEF IssueSession, TypeInv, TypeOK
    <2>3. QED
      BY <1>6, <2>1, <2>2 DEF IssueSession, Issues, HandsOut, At
  <1>7. ASSUME NEW i \in Requests, LoadRotatable(i) PROVE Goal
    <2> DEFINE cur == Current(req[i].token)
               old == IF cur = {} THEN Previous(req[i].token) ELSE {}
               late == {s \in old : rows[s].age > Grace}
               usable == {s \in cur \cup (old \ late) : ~rows[s].expired /\ user.active}
    <2>1. /\ At(i, "refresh", "sent")
          /\ Delete(late)
          /\ IF usable = {}
               THEN Refuse(i)
               ELSE \E s \in usable :
                  req' = [req EXCEPT ![i].step = "read", ![i].sid = s, ![i].grace = (s \in old),
                                     ![i].tv = user.tv, ![i].epoch = epoch]
          /\ UNCHANGED <<user, jar, chg, drawn, epoch, astray>>
      BY <1>7 DEF LoadRotatable
    <2> HIDE DEF usable, late, old
    <2>2. QuietRequest(i) /\ \E q : req' = [req EXCEPT ![i] = q]
      <3>1. CASE Refuse(i)
        BY <3>1, NoneAnswered, Answered DEF Refuse
      <3>2. ASSUME NEW s \in usable,
                   req' = [req EXCEPT ![i].step = "read", ![i].sid = s, ![i].grace = (s \in old),
                                      ![i].tv = user.tv, ![i].epoch = epoch]
            PROVE  QuietRequest(i) /\ \E q : req' = [req EXCEPT ![i] = q]
        <4>1. /\ req'[i].step = "read" /\ req'[i].kind = req[i].kind /\ req'[i].by = req[i].by
              /\ req'[i].token = req[i].token /\ req'[i].cookies = req[i].cookies
              /\ req'[i].waited = req[i].waited
          BY <3>2 DEF TypeInv, TypeOK, RequestType
        <4>2. QuietRequest(i)
          BY <2>1, <4>1 DEF QuietRequest, At
        <4>3. \E q : req' = [req EXCEPT ![i] = q]
          BY <3>2
        <4>4. QED
          BY <4>2, <4>3
      <3>3. QED
        BY <2>1, <3>1, <3>2
    <2>3. QED
      BY <1>0, <2>1, <2>2, DeleteQuiet, QuietRequests DEF Quiet
  <1>8. ASSUME NEW i \in Requests, RotateSession(i) PROVE Goal
    <2> DEFINE s == req[i].sid
    <2>1. /\ At(i, "refresh", "read") /\ s \in SessionIds /\ jar' = jar
      BY <1>8 DEF RotateSession, At, TypeInv, RequestOK
    <2>2. CASE /\ IF req[i].grace THEN rows[s].prev = req[i].token ELSE rows[s].hash = req[i].token
               /\ Unexpired(s)
               /\ Maintain([rows EXCEPT ![s] = Rotated(i)])
               /\ Answer(i, "granted", Minted(i, s))
               /\ drawn' = [drawn EXCEPT !.tokens = @ + 1]
               /\ astray' = IF ~req[i].waited /\ MovedOn(i) THEN astray \cup {s} ELSE astray
      <3>1. /\ Rotated(i) = [hash |-> drawn.tokens + 1, age |-> 0, expired |-> FALSE,
                             prev |-> req[i].token]
            /\ req[i].token \in {rows[s].hash, rows[s].prev}
            /\ Live(s)
        BY <2>2 DEF Rotated, Unexpired, InUse, Live
      <3>2. /\ req'[i] = Response(req[i], "granted", Minted(i, s))
            /\ \A j \in Requests \ {i} : req'[j] = req[j]
        BY <2>2, Answered DEF TypeInv, TypeOK
      <3>3. drawn'.tokens = drawn.tokens + 1 /\ drawn'.sessions = drawn.sessions
        BY <2>2 DEF TypeInv, TypeOK
      <3>4. QED
        BY <2>1, <2>2, <3>1, <3>2, <3>3 DEF Rotates, HandsOut, At
    <2>3. CASE Refuse(i) /\ UNCHANGED <<rows, drawn, astray>>
      BY <1>0, <2>1, <2>3, NoneAnswered, Answered, QuietRequests DEF Refuse, Quiet
    <2>4. QED
      BY <1>8, <2>2, <2>3 DEF RotateSession
  <1>9. ASSUME NEW i \in Requests, RevokeRefresh(i) PROVE Goal
    BY <1>0, <1>9, NoneAnswered, Answered, QuietRequests, DeleteQuiet DEF RevokeRefresh, Quiet
  <1>10. ASSUME NEW b \in Browsers, NEW s \in SessionIds, RevokeSessionById(b, s) PROVE Goal
    BY <1>0, <1>10, DeleteQuiet DEF RevokeSessionById, Quiet
  <1>11. ASSUME NEW b \in Browsers, ListUserSessions(b) PROVE Goal
    BY <1>0, <1>11, MaintainQuiet DEF ListUserSessions, Quiet
  <1>12. ASSUME NEW c \in Changers, ChangeCommit(c) PROVE Goal
    BY <1>0, <1>12, DeleteQuiet DEF ChangeCommit, Quiet
  <1>13. ASSUME UNCHANGED <<rows, jar, req, drawn, astray>> PROVE Goal
    BY <1>0, <1>13 DEF Quiet
  <1>14. CASE Tick
    <2>1. \A s \in SessionIds : QuietRow(s)
      BY <1>14 DEF Tick, QuietRow, InUse, TypeInv, TypeOK, RowType
    <2>2. QED
      BY <1>0, <1>14, <2>1 DEF Tick, Quiet
  <1>15. ASSUME NEW s \in SessionIds, Expire(s) PROVE Goal
    <2>1. \A r \in SessionIds : QuietRow(r)
      BY <1>15 DEF Expire, QuietRow, InUse, TypeInv, TypeOK, RowType
    <2>2. QED
      BY <1>0, <1>15, <2>1 DEF Expire, Quiet
  <1> QED
    BY <1>1, <1>2, <1>3, <1>4, <1>5, <1>6, <1>7, <1>8, <1>9, <1>10, <1>11, <1>12, <1>13, <1>14, <1>15,
       <1>16
       DEF Next, BrowserStep, ServerStep, SendRefresh, SendLogout, ChangeRead, ChangeFails, Activate
-----------------------------------------------------------------------------
(***************************************************************************)
(* The cap.                                                                *)
(***************************************************************************)

\* Tokens and sessions are drawn in order, and no two rows have the same token.
TokenInv ==
  /\ \A s \in SessionIds :
       /\ rows[s].hash <= drawn.tokens /\ rows[s].prev <= drawn.tokens
       /\ Live(s) => s <= drawn.sessions
       /\ ~Live(s) => rows[s].prev = 0
  /\ \A r, s \in SessionIds : Live(r) /\ rows[r].hash = rows[s].hash => r = s
  /\ \A b \in Browsers : jar[b].token <= drawn.tokens /\ jar[b].sid <= drawn.sessions
  /\ \A i \in Requests :
       /\ req[i].token <= drawn.tokens
       /\ req[i].cookies.token <= drawn.tokens /\ req[i].cookies.sid <= drawn.sessions

\* The rows after a token has been handed out.
LEMMA HandsOutRows ==
  ASSUME TypeInv, NEW i \in Requests, NEW s, NEW prev, HandsOut(i, s, prev)
  PROVE  \A r \in SessionIds :
           \/ rows'[r] = NoRow
           \/ r # s /\ rows'[r] = rows[r]
           \/ /\ r = s /\ rows'[r].hash = drawn.tokens + 1 /\ rows'[r].prev = prev
              /\ ~rows'[r].expired
  BY DEF HandsOut, Maintain, TypeInv, TypeOK

LEMMA InitTokenInv == Init => TokenInv
  BY ConstantsAssumption
     DEF ConstantsAssumption, Init, TokenInv, Live, NoRow, NoCookies, NoRequest, SessionIds

LEMMA NextTokenInv ==
  ASSUME TypeInv, TypeInv', TokenInv, [Next]_vars
  PROVE  TokenInv'
  <1> DEFINE RowsOK == \A s \in SessionIds :
                         /\ rows[s].hash <= drawn.tokens /\ rows[s].prev <= drawn.tokens
                         /\ Live(s) => s <= drawn.sessions
                         /\ ~Live(s) => rows[s].prev = 0
             Distinct == \A r, s \in SessionIds : Live(r) /\ rows[r].hash = rows[s].hash => r = s
             JarsOK == \A b \in Browsers : jar[b].token <= drawn.tokens /\ jar[b].sid <= drawn.sessions
             RequestsOK == \A i \in Requests :
                             /\ req[i].token <= drawn.tokens
                             /\ req[i].cookies.token <= drawn.tokens
                             /\ req[i].cookies.sid <= drawn.sessions
  <1>0. /\ drawn.tokens \in Nat /\ drawn.sessions \in Nat
        /\ \A s \in SessionIds : rows[s].hash \in Nat /\ rows[s].prev \in Nat
        /\ \A b \in Browsers : jar[b].token \in Nat /\ jar[b].sid \in Nat
        /\ \A i \in Requests : req[i].token \in Nat /\ req[i].cookies.token \in Nat
                               /\ req[i].cookies.sid \in Nat
    BY DEF TypeInv, TypeOK, RowType, RequestType, Cookies
  <1>1. CASE Quiet
    <2>1. RowsOK' /\ Distinct'
      BY <1>0, <1>1 DEF Quiet, QuietRow, TokenInv, Live, NoRow
    <2>2. JarsOK'
      BY <1>0, <1>1 DEF Quiet, TokenInv, NoCookies
    <2>3. RequestsOK'
      <3> SUFFICES ASSUME NEW i \in Requests
                   PROVE  /\ req'[i].token \in {0, req[i].token}
                          /\ req'[i].cookies \in {NoCookies, req[i].cookies}
        BY <1>0, <1>1 DEF Quiet, TokenInv, NoCookies
      <3>1. req[i] \in RequestType
        BY DEF TypeInv, TypeOK
      <3>2. QED
        BY <1>1, <3>1 DEF Quiet, QuietRequest, RequestType
    <2>4. QED
      BY <2>1, <2>2, <2>3 DEF TokenInv
  <1>2. ASSUME NEW i \in Requests, NEW b \in Browsers, Sends(i, b) PROVE TokenInv'
    BY <1>0, <1>2 DEF Sends, Handled, TokenInv, Live, NoCookies
  <1>3. ASSUME NEW i \in Requests, Arrives(i) PROVE TokenInv'
    <2>1. JarsOK'
      BY <1>3 DEF Arrives, TokenInv, TypeInv, TypeOK
    <2>2. RequestsOK'
      BY <1>0, <1>3 DEF Arrives, TokenInv, TypeInv, TypeOK, NoRequest, NoCookies
    <2>3. QED
      BY <1>3, <2>1, <2>2 DEF Arrives, TokenInv, Live
  <1>4. ASSUME NEW i \in Requests, NEW s \in SessionIds, NEW prev \in Nat, HandsOut(i, s, prev),
               prev <= drawn.tokens, s <= drawn'.sessions, drawn'.sessions \in Nat,
               drawn'.sessions >= drawn.sessions
        PROVE  TokenInv'
    <2>1. drawn'.tokens = drawn.tokens + 1
      BY <1>4 DEF HandsOut
    <2>2. \A r \in SessionIds :
             \/ rows'[r].hash = 0 /\ rows'[r].prev = 0
             \/ r # s /\ rows'[r] = rows[r]
             \/ r = s /\ rows'[r].hash = drawn.tokens + 1 /\ rows'[r].prev = prev
      BY <1>4, HandsOutRows DEF NoRow
    <2>3. RowsOK'
      <3>1. MaxSessions \in Nat
        BY ConstantsAssumption DEF ConstantsAssumption
      <3>2. QED
        BY <1>0, <1>4, <2>1, <2>2, <3>1 DEF TokenInv, Live, SessionIds
    <2>4. Distinct'
      BY <1>0, <1>4, <2>1, <2>2 DEF TokenInv, Live
    <2>5. JarsOK'
      BY <1>0, <1>4, <2>1 DEF HandsOut, TokenInv
    <2>6. RequestsOK'
      BY <1>0, <1>4, <2>1 DEF HandsOut, Response, AnswerOf, NoRequest, NoCookies, Minted, TokenInv
    <2>7. QED
      BY <2>3, <2>4, <2>5, <2>6 DEF TokenInv
  <1>5. ASSUME NEW i \in Requests, Issues(i) PROVE TokenInv'
    <2>1. drawn.sessions + 1 \in SessionIds /\ drawn'.sessions = drawn.sessions + 1
      BY <1>5 DEF Issues, HandsOut
    <2> DEFINE s == drawn.sessions + 1
    <2>2. HandsOut(i, s, 0)
      BY <1>5 DEF Issues
    <2>3. /\ s \in SessionIds /\ s <= drawn'.sessions /\ drawn'.sessions >= drawn.sessions
          /\ drawn'.sessions \in Nat /\ 0 \in Nat /\ 0 <= drawn.tokens
      BY <1>0, <2>1
    <2> HIDE DEF s
    <2>4. QED
      BY <1>4, <2>2, <2>3
  <1>6. ASSUME NEW i \in Requests, Rotates(i) PROVE TokenInv'
    <2>1. req[i].sid <= drawn.sessions /\ req[i].token <= drawn.tokens
      BY <1>6 DEF Rotates, HandsOut, TokenInv
    <2>2. QED
      BY <1>0, <1>4, <1>6, <2>1 DEF Rotates, HandsOut
  <1>7. QED
    BY <1>1, <1>2, <1>3, <1>5, <1>6, StepCases

\* A session is kept when fewer than Cap were used after it: at most Cap are.
LEMMA RetainedCapped ==
  ASSUME NEW table \in [SessionIds -> RowType],
         \A r, s \in SessionIds : InUse(table[r]) /\ table[r].hash = table[s].hash => r = s
  PROVE  /\ IsFiniteSet(Retained(table))
         /\ Cardinality(Retained(table)) <= Cap
  <1> DEFINE rank == [s \in Retained(table) |-> Cardinality(UsedAfter(table, s))]
  <1>0. Cap \in Nat \ {0} /\ MaxSessions \in Nat
    BY ConstantsAssumption DEF ConstantsAssumption
  <1>1. IsFiniteSet(SessionIds)
    BY <1>0, FS_Interval DEF SessionIds
  <1>2. ASSUME NEW s \in SessionIds
        PROVE  IsFiniteSet(UsedAfter(table, s)) /\ Cardinality(UsedAfter(table, s)) \in Nat
    BY <1>1, FS_Subset, FS_CardinalityType DEF UsedAfter
  <1>3. rank \in [Retained(table) -> 0 .. Cap - 1]
    BY <1>0, <1>2 DEF Retained
  <1>4. ASSUME NEW r \in Retained(table), NEW s \in Retained(table), table[r].hash < table[s].hash
        PROVE  rank[r] > rank[s]
    <2>1. r \in SessionIds /\ s \in SessionIds /\ InUse(table[s])
      BY DEF Retained
    <2>2. \A q \in SessionIds : table[q].hash \in Nat
      BY DEF RowType
    <2>3. /\ UsedAfter(table, s) \subseteq UsedAfter(table, r)
          /\ s \in UsedAfter(table, r) /\ s \notin UsedAfter(table, s)
      BY <1>4, <2>1, <2>2 DEF UsedAfter
    <2>4. /\ Cardinality(UsedAfter(table, s)) <= Cardinality(UsedAfter(table, r))
          /\ Cardinality(UsedAfter(table, s)) # Cardinality(UsedAfter(table, r))
      BY <1>2, <2>1, <2>3, FS_Subset
    <2>5. QED
      BY <1>2, <2>1, <2>4
  <1>5. ASSUME NEW r \in Retained(table), NEW s \in Retained(table), rank[r] = rank[s]
        PROVE  r = s
    <2>1. r \in SessionIds /\ s \in SessionIds /\ InUse(table[r])
      BY DEF Retained
    <2>2. table[r].hash \in Nat /\ table[s].hash \in Nat
      BY <2>1 DEF RowType
    <2>3. rank[r] \in Nat /\ rank[s] \in Nat
      BY <1>2, <2>1
    <2>4. table[r].hash = table[s].hash
      BY <1>4, <1>5, <2>2, <2>3
    <2>5. QED
      BY <2>1, <2>4
  <1>6. rank \in Injection(Retained(table), 0 .. Cap - 1)
    BY <1>3, <1>5 DEF Injection, IsInjective
  <1>7. IsFiniteSet(0 .. Cap - 1) /\ Cardinality(0 .. Cap - 1) = Cap
    BY <1>0, FS_Interval
  <1>8. QED
    BY <1>6, <1>7, FS_Injection

LEMMA NextSessionsCapped ==
  ASSUME TypeInv, TypeInv', TokenInv, SessionsCapped, [Next]_vars
  PROVE  SessionsCapped'
  <1> DEFINE used == {s \in SessionIds : Unexpired(s)}
  <1>1. Cap \in Nat /\ IsFiniteSet(SessionIds)
    BY ConstantsAssumption, FS_Interval DEF ConstantsAssumption, SessionIds
  <1>2. IsFiniteSet(used) /\ Cardinality(used) \in Nat /\ Cardinality(used) <= Cap
    BY <1>1, FS_Subset, FS_CardinalityType DEF SessionsCapped
  <1>3. ASSUME used' \subseteq used PROVE SessionsCapped'
    <2>1. IsFiniteSet(used') /\ Cardinality(used') \in Nat /\ Cardinality(used') <= Cardinality(used)
      BY <1>2, <1>3, FS_Subset, FS_CardinalityType
    <2>2. QED
      BY <1>1, <1>2, <2>1 DEF SessionsCapped
  <1>4. CASE Quiet
    BY <1>3, <1>4 DEF Quiet, QuietRow, Unexpired, InUse, NoRow
  <1>5. CASE UNCHANGED rows
    BY <1>3, <1>5 DEF Unexpired
  <1>6. ASSUME NEW i \in Requests, NEW s \in SessionIds, NEW prev \in 0 .. MaxTokens,
               HandsOut(i, s, prev), drawn.tokens < MaxTokens
        PROVE  SessionsCapped'
    <2> DEFINE new == [hash |-> drawn.tokens + 1, age |-> 0, expired |-> FALSE, prev |-> prev]
               table == [rows EXCEPT ![s] = new]
    <2>1. new \in RowType
      BY <1>6, ConstantsAssumption DEF ConstantsAssumption, RowType, TypeInv, TypeOK
    <2>2. table \in [SessionIds -> RowType]
      BY <2>1 DEF TypeInv, TypeOK
    <2>3. \A q \in SessionIds : rows[q].hash \in Nat /\ rows[q].hash <= drawn.tokens /\ drawn.tokens \in Nat
      BY DEF TypeInv, TypeOK, TokenInv, RowType
    <2>4. ASSUME NEW q \in SessionIds, NEW r \in SessionIds, InUse(table[q]), table[q].hash = table[r].hash
          PROVE  q = r
      BY <2>3, <2>4 DEF TypeInv, TypeOK, TokenInv, InUse, Live
    <2>5. Maintain(table)
      BY <1>6 DEF HandsOut
    <2> HIDE DEF table
    <2>6. IsFiniteSet(Retained(table)) /\ Cardinality(Retained(table)) <= Cap
      BY <2>2, <2>4, RetainedCapped
    <2>7. used' \subseteq Retained(table)
      BY <2>5 DEF Maintain, Unexpired, InUse, NoRow
    <2>8. Cardinality(used') <= Cardinality(Retained(table)) /\ Cardinality(used') \in Nat
      BY <2>6, <2>7, FS_Subset, FS_CardinalityType
    <2>9. QED
      BY <1>1, <2>6, <2>8, FS_CardinalityType DEF SessionsCapped
  <1>7. ASSUME NEW i \in Requests, NEW s, NEW prev \in 0 .. MaxTokens, HandsOut(i, s, prev)
        PROVE  SessionsCapped'
    <2>1. s \in SessionIds /\ drawn'.tokens = drawn.tokens + 1
      BY <1>7 DEF HandsOut
    <2>2. drawn.tokens < MaxTokens
      BY <2>1, ConstantsAssumption DEF ConstantsAssumption, TypeInv, TypeOK
    <2>3. QED
      BY <1>6, <1>7, <2>1, <2>2
  <1>8. ASSUME NEW i \in Requests, Issues(i) \/ Rotates(i) PROVE SessionsCapped'
    <2>1. req[i].token \in 0 .. MaxTokens /\ 0 \in 0 .. MaxTokens
      BY Zeros DEF TypeInv, TypeOK, RequestType
    <2>2. QED
      BY <1>7, <1>8, <2>1 DEF Issues, Rotates
  <1>9. QED
    BY <1>4, <1>5, <1>8, StepCases DEF Sends, Arrives

(***************************************************************************)
(* Theorems: types and the cap.                                            *)
(***************************************************************************)

LEMMA InitSessionsCapped == Init => SessionsCapped
  <1> SUFFICES ASSUME Init PROVE SessionsCapped
    OBVIOUS
  <1>1. {s \in SessionIds : Unexpired(s)} = {}
    BY DEF Init, Unexpired, InUse, NoRow
  <1>2. QED
    BY <1>1, FS_EmptySet, ConstantsAssumption DEF ConstantsAssumption, SessionsCapped

\* However the requests, changes and clocks of an account interleave, its rows,
\* the cookies and the requests keep their types.
THEOREM TypeCorrect == Spec => []TypeOK
  <1>1. Init => TypeInv
    BY InitTypeInv
  <1>2. TypeInv /\ [Next]_vars => TypeInv'
    BY NextTypeInv
  <1>3. TypeInv => TypeOK
    BY DEF TypeInv
  <1>4. QED
    BY <1>1, <1>2, <1>3, PTL DEF Spec

LEMMA TypeAndTokens == Spec => [](TypeInv /\ TokenInv)
  <1>1. Init => TypeInv /\ TokenInv
    BY InitTypeInv, InitTokenInv
  <1>2. TypeInv /\ TokenInv /\ [Next]_vars => (TypeInv /\ TokenInv)'
    BY NextTypeInv, NextTokenInv
  <1>3. QED
    BY <1>1, <1>2, PTL DEF Spec

\* Logins, rotations and lists of one account in any order leave at most Cap
\* sessions in use: _maintain_user_sessions counts by last use, and no two
\* sessions have the same.
THEOREM Capped == Spec => []SessionsCapped
  <1>1. Init => SessionsCapped
    BY InitSessionsCapped
  <1>2. (TypeInv /\ TokenInv) /\ (TypeInv /\ TokenInv)' /\ SessionsCapped /\ [Next]_vars
          => SessionsCapped'
    BY NextSessionsCapped
  <1>3. QED
    BY <1>1, <1>2, TypeAndTokens, PTL DEF Spec
-----------------------------------------------------------------------------
(***************************************************************************)
(* Access tokens and account-wide changes.                                 *)
(***************************************************************************)

\* While one account-wide change at a time is under way, the version of the
\* user counts the changes exactly, and so does every claim minted from it.
VersionsExact ==
  /\ user.tv = epoch
  /\ \A c \in Changers : chg[c] # NoChange => chg[c].tv = epoch
  /\ \A b \in Browsers : jar[b].tv = jar[b].epoch
  /\ \A i \in Requests : req[i].tv = req[i].epoch /\ req[i].cookies.tv = req[i].cookies.epoch

OneChangeAtATime ==
  \A c, d \in Changers : chg[c] # NoChange /\ chg[d] # NoChange => c = d

\* One request changes, and what it claims is exact.
LEMMA ExactRequest ==
  ASSUME TypeInv, VersionsExact, NEW i \in Requests, \E q : req' = [req EXCEPT ![i] = q],
         req'[i].tv = req'[i].epoch, req'[i].cookies.tv = req'[i].cookies.epoch,
         UNCHANGED <<user, chg, epoch>>, UNCHANGED jar
  PROVE  VersionsExact'
  BY DEF TypeInv, TypeOK, VersionsExact

LEMMA NextVersionsExact ==
  ASSUME TypeInv, VersionsExact, OneChangeAtATime, [Next]_vars
  PROVE  VersionsExact'
  <1>1. CASE UNCHANGED <<user, jar, req, chg, epoch>>
    BY <1>1 DEF VersionsExact
  <1>2. ASSUME NEW i \in Requests, NEW b \in Browsers, Login(i, b) PROVE VersionsExact'
    <2>1. req'[i] = Handled("login", b, TRUE, "read", 0, 0, FALSE, user.tv, epoch)
      BY <1>2, NoRequestFields DEF Login, Handled, TypeInv, TypeOK, RequestType
    <2>2. req'[i].tv = req'[i].epoch /\ req'[i].cookies.tv = req'[i].cookies.epoch
      BY <2>1 DEF Handled, NoCookies, VersionsExact
    <2>3. QED
      BY <1>2, <2>2, ExactRequest DEF Login
  <1>3. ASSUME NEW i \in Requests, NEW b \in Browsers, NEW kind, Send(i, b, kind)
        PROVE  VersionsExact'
    <2>1. req'[i] = Handled(kind, b, TRUE, "sent", jar[b].token, 0, FALSE, 0, 0)
      BY <1>3, NoRequestFields DEF Send, Handled, TypeInv, TypeOK, RequestType
    <2>2. req'[i].tv = req'[i].epoch /\ req'[i].cookies.tv = req'[i].cookies.epoch
      BY <2>1 DEF Handled, NoCookies
    <2>3. QED
      BY <1>3, <2>2, ExactRequest DEF Send
  <1>4. ASSUME NEW i \in Requests, Receive(i) PROVE VersionsExact'
    <2>1. \A b \in Browsers : jar'[b] \in {jar[b], req[i].cookies, NoCookies}
      BY <1>4 DEF Receive, TypeInv, TypeOK
    <2>2. \A j \in Requests : req'[j] \in {req[j], NoRequest}
      BY <1>4 DEF Receive, TypeInv, TypeOK
    <2>3. \A b \in Browsers : jar'[b].tv = jar'[b].epoch
      BY <2>1 DEF VersionsExact, NoCookies
    <2>4. \A j \in Requests : req'[j].tv = req'[j].epoch /\ req'[j].cookies.tv = req'[j].cookies.epoch
      BY <2>2 DEF VersionsExact, NoCookies, NoRequest
    <2>5. QED
      BY <1>4, <2>3, <2>4 DEF Receive, VersionsExact
  <1>5. ASSUME NEW i \in Requests, Lose(i) \/ ServerFails(i) PROVE VersionsExact'
    <2>1. \A j \in Requests : req'[j] \in {req[j], NoRequest}
      BY <1>5 DEF Lose, ServerFails, TypeInv, TypeOK
    <2>2. \A j \in Requests : req'[j].tv = req'[j].epoch /\ req'[j].cookies.tv = req'[j].cookies.epoch
      BY <2>1 DEF VersionsExact, NoCookies, NoRequest
    <2>3. QED
      BY <1>5, <2>2 DEF Lose, ServerFails, VersionsExact
  <1>16. ASSUME NEW i \in Requests, GiveUp(i) PROVE VersionsExact'
    <2>1. req'[i].tv = req'[i].epoch /\ req'[i].cookies.tv = req'[i].cookies.epoch
      <3>1. CASE req'[i] = NoRequest
        BY <3>1 DEF NoRequest, NoCookies
      <3>2. CASE req'[i] = [req[i] EXCEPT !.waited = FALSE]
        BY <3>2 DEF VersionsExact, TypeInv, TypeOK, RequestType
      <3>3. QED
        BY <1>16, <3>1, <3>2, GivenUp
    <2>2. QED
      BY <1>16, <2>1, GivenUp, ExactRequest DEF GiveUp
  <1>6. ASSUME NEW i \in Requests, NEW step, NEW c, Answer(i, step, c), c.tv = c.epoch,
               UNCHANGED <<user, jar, chg, epoch>>
        PROVE  VersionsExact'
    <2>1. req'[i] = Response(req[i], step, c) /\ \E q : req' = [req EXCEPT ![i] = q]
      BY <1>6, Answered
    <2>2. req'[i].tv = req'[i].epoch /\ req'[i].cookies.tv = req'[i].cookies.epoch
      BY <1>6, <2>1 DEF Response, AnswerOf, NoRequest, NoCookies
    <2>3. QED
      BY <1>6, <2>1, <2>2, ExactRequest
  <1>7. ASSUME NEW i \in Requests, IssueSession(i) PROVE VersionsExact'
    <2> DEFINE c == Minted(i, drawn.sessions + 1)
    <2>1. c.tv = c.epoch
      BY DEF Minted, VersionsExact
    <2>2. Answer(i, "granted", c) /\ UNCHANGED <<user, jar, chg, epoch>>
      BY <1>7 DEF IssueSession
    <2> HIDE DEF c
    <2>3. QED
      BY <1>6, <2>1, <2>2
  <1>8. ASSUME NEW i \in Requests, LoadRotatable(i) PROVE VersionsExact'
    <2> DEFINE cur == Current(req[i].token)
               old == IF cur = {} THEN Previous(req[i].token) ELSE {}
               late == {s \in old : rows[s].age > Grace}
               usable == {s \in cur \cup (old \ late) : ~rows[s].expired /\ user.active}
    <2>1. /\ IF usable = {}
               THEN Refuse(i)
               ELSE \E s \in usable :
                  req' = [req EXCEPT ![i].step = "read", ![i].sid = s, ![i].grace = (s \in old),
                                     ![i].tv = user.tv, ![i].epoch = epoch]
          /\ UNCHANGED <<user, jar, chg, epoch>>
      BY <1>8 DEF LoadRotatable
    <2> HIDE DEF usable, late, old
    <2>2. CASE Refuse(i)
      BY <1>6, <2>1, <2>2 DEF Refuse, NoCookies
    <2>3. ASSUME NEW s \in usable,
                 req' = [req EXCEPT ![i].step = "read", ![i].sid = s, ![i].grace = (s \in old),
                                    ![i].tv = user.tv, ![i].epoch = epoch]
          PROVE  VersionsExact'
      <3>1. req'[i].tv = user.tv /\ req'[i].epoch = epoch /\ req'[i].cookies = req[i].cookies
        BY <2>3 DEF TypeInv, TypeOK, RequestType
      <3>2. \E q : req' = [req EXCEPT ![i] = q]
        BY <2>3
      <3>3. req'[i].tv = req'[i].epoch /\ req'[i].cookies.tv = req'[i].cookies.epoch
        BY <3>1 DEF VersionsExact
      <3>4. QED
        BY <2>1, <3>2, <3>3, ExactRequest
    <2>4. QED
      BY <2>1, <2>2, <2>3
  <1>9. ASSUME NEW i \in Requests, RotateSession(i) PROVE VersionsExact'
    <2> DEFINE c == Minted(i, req[i].sid)
    <2>1. c.tv = c.epoch /\ NoCookies.tv = NoCookies.epoch
      BY DEF Minted, VersionsExact, NoCookies
    <2>2. /\ Answer(i, "granted", c) \/ Answer(i, "refused", NoCookies)
          /\ UNCHANGED <<user, jar, chg, epoch>>
      BY <1>9 DEF RotateSession, Refuse
    <2> HIDE DEF c
    <2>3. QED
      BY <1>6, <2>1, <2>2
  <1>10. ASSUME NEW i \in Requests, RevokeRefresh(i) PROVE VersionsExact'
    BY <1>6, <1>10 DEF RevokeRefresh, NoCookies
  <1>11. ASSUME NEW c \in Changers, NEW kind, ChangeRead(c, kind) PROVE VersionsExact'
    BY <1>11 DEF ChangeRead, VersionsExact, TypeInv, TypeOK
  <1>12. ASSUME NEW c \in Changers, ChangeCommit(c) PROVE VersionsExact'
    <2>1. \A d \in Changers : chg'[d] = NoChange
      BY <1>12 DEF ChangeCommit, OneChangeAtATime, TypeInv, TypeOK
    <2>2. user'.tv = epoch'
      BY <1>12 DEF ChangeCommit, VersionsExact
    <2>3. QED
      BY <1>12, <2>1, <2>2 DEF ChangeCommit, VersionsExact
  <1>13. ASSUME NEW c \in Changers, ChangeFails(c) PROVE VersionsExact'
    BY <1>13 DEF ChangeFails, VersionsExact, TypeInv, TypeOK
  <1>14. CASE Activate
    BY <1>14 DEF Activate, VersionsExact, TypeInv, TypeOK
  <1>15. QED
    BY <1>1, <1>2, <1>3, <1>4, <1>5, <1>7, <1>8, <1>9, <1>10, <1>11, <1>12, <1>13, <1>14, <1>16
       DEF Next, BrowserStep, ServerStep, SendRefresh, SendLogout, RevokeSessionById,
           ListUserSessions, Tick, Expire, vars

\* A login that verified the old password while it was changed gets no access
\* by it, whenever its session is issued and its answer arrives: as long as two
\* changes of one account do not overlap.  (Two that read the same version
\* commit the same version.)
THEOREM AccessIsCurrent == Spec /\ []OneChangeAtATime => []ValidAccessIsCurrent
  <1>1. Init => VersionsExact
    BY DEF Init, VersionsExact, NoCookies, NoRequest
  <1>2. TypeInv /\ VersionsExact /\ OneChangeAtATime /\ [Next]_vars => VersionsExact'
    BY NextVersionsExact
  <1>3. VersionsExact => ValidAccessIsCurrent
    BY DEF VersionsExact, ValidAccessIsCurrent, ValidAccess
  <1>4. QED
    BY <1>1, <1>2, <1>3, TypeAndTokens, PTL DEF Spec

-----------------------------------------------------------------------------
(***************************************************************************)
(* The cookie jars, when a browser waits for one refresh at a time.        *)
(***************************************************************************)

TokensOf(r) == {rows[r].hash, rows[r].prev} \ {0}

\* Where a token of browser b may be: in its jar, in a request or an answer.
Holds(b, t) ==
  \/ jar[b].token = t
  \/ \E i \in Requests : req[i].by = b /\ (req[i].token = t \/ req[i].cookies.token = t)

\* The tokens of one session are all with one browser.
OneHolder ==
  \A r \in SessionIds, b \in Browsers, c \in Browsers :
    \A t \in TokensOf(r), u \in TokensOf(r) : Holds(b, t) /\ Holds(c, u) => b = c

\* The token of an answer under way is in no jar, no request and no other answer.
OnlyOnItsWay ==
  \A i \in Requests : Granted(i) =>
    /\ \A b \in Browsers : jar[b].token # req[i].cookies.token
    /\ \A j \in Requests : /\ req[j].token # req[i].cookies.token
                           /\ req[j].cookies.token = req[i].cookies.token => i = j

\* It is the current token of its session, and the only one if it is the first.
AnswerIsCurrent ==
  \A i \in Requests, r \in SessionIds :
    Granted(i) /\ req[i].cookies.sid = r /\ Live(r) /\ r \notin astray =>
    /\ rows[r].hash = req[i].cookies.token
    /\ req[i].kind = "login" => rows[r].prev = 0

\* The pages of a browser wait for one refresh at a time; those that they have
\* given up on are any number.
Awaited(i) == req[i].kind = "refresh" /\ req[i].waited

OneRefresh ==
  \A i \in Requests, j \in Requests :
    Awaited(i) /\ Awaited(j) /\ req[i].by = req[j].by => i = j

\* A jar holds the current or the previous token of the session it is in.
JarHoldsToken ==
  \A b \in Browsers, r \in SessionIds :
    jar[b].sid = r /\ Live(r) /\ r \notin astray => jar[b].token \in TokensOf(r)

\* A refresh that is waited for, of the session that the jar is in, carries the
\* token of the jar.
JarMatchesRequest ==
  \A i \in Requests, b \in Browsers, r \in SessionIds :
    Asking(i) /\ req[i].waited /\ req[i].by = b /\ jar[b].sid = r /\ r \notin astray
      => (req[i].token \in TokensOf(r) => jar[b].token = req[i].token)

JarInv ==
  /\ OneHolder /\ OnlyOnItsWay /\ AnswerIsCurrent
  /\ OneRefresh /\ JarHoldsToken /\ JarMatchesRequest

LEMMA InitJarInv == Init => JarInv
  BY DEF Init, JarInv, OneHolder, OnlyOnItsWay, AnswerIsCurrent, OneRefresh, JarHoldsToken,
     JarMatchesRequest, TokensOf, Granted, Asking, Awaited, Live, NoRow, NoRequest

\* What the steps do to the tokens of a session.
LEMMA TokensFacts ==
  ASSUME TypeInv, TokenInv
  PROVE  /\ \A r \in SessionIds : \A t \in TokensOf(r) : t \in Nat /\ t # 0 /\ t <= drawn.tokens
         /\ \A r \in SessionIds : Live(r) <=> TokensOf(r) # {}
         /\ \A r \in SessionIds : rows[r].hash \in Nat /\ rows[r].prev \in Nat
         /\ drawn.tokens \in Nat
  <1>1. /\ \A r \in SessionIds : rows[r].hash \in Nat /\ rows[r].prev \in Nat
        /\ drawn.tokens \in Nat
    BY DEF TypeInv, TypeOK, RowType
  <1>2. \A r \in SessionIds : rows[r].hash <= drawn.tokens /\ rows[r].prev <= drawn.tokens
    BY DEF TokenInv
  <1>3. \A r \in SessionIds : Live(r) <=> TokensOf(r) # {}
    BY DEF TokenInv, TokensOf, Live
  <1>4. QED
    BY <1>1, <1>2, <1>3 DEF TokensOf

LEMMA QuietJarInv ==
  ASSUME TypeInv, TypeInv', TokenInv, JarInv, Quiet
  PROVE  JarInv'
  <1>1. \A r \in SessionIds :
          \/ TokensOf(r)' = {} /\ ~Live(r)'
          \/ /\ TokensOf(r)' = TokensOf(r) /\ (Live(r)' <=> Live(r))
             /\ rows'[r].hash = rows[r].hash /\ rows'[r].prev = rows[r].prev
    BY DEF Quiet, QuietRow, TokensOf, Live, NoRow
  <1>2. \A b \in Browsers : jar'[b] = jar[b] \/ (jar'[b].token = 0 /\ jar'[b].sid = 0)
    BY DEF Quiet, NoCookies
  <1>3. \A i \in Requests :
          /\ req'[i].token \in {0, req[i].token}
          /\ req'[i].cookies.token \in {0, req[i].cookies.token}
          /\ req'[i].token # 0 => req'[i].by = req[i].by
          /\ req'[i].cookies.token # 0 => req'[i].by = req[i].by
          /\ Awaited(i)' => Awaited(i) /\ req'[i].by = req[i].by
          /\ Granted(i)' => req'[i] = req[i] /\ Granted(i)
          /\ Asking(i)' /\ req'[i].waited => /\ Asking(i) /\ req[i].waited
                                            /\ req'[i].by = req[i].by
                                            /\ req'[i].token = req[i].token
    <2> TAKE i \in Requests
    <2>0. req[i] \in RequestType
      BY DEF TypeInv, TypeOK
    <2>1. CASE req'[i] = req[i]
      BY <2>1 DEF Granted, Asking, Awaited
    <2>2. CASE /\ req'[i].token = 0 /\ req'[i].cookies = NoCookies
               /\ ~Granted(i)' /\ req'[i].step # "sent"
               /\ req'[i].kind = "refresh" => /\ req[i].kind = "refresh" /\ req'[i].by = req[i].by
                                             /\ (req'[i].waited => req[i].waited)
      <3>1. ~Asking(i)'
        BY <2>2 DEF TypeInv, RequestOK, Asking
      <3>2. QED
        BY <2>2, <3>1 DEF Awaited, NoCookies
    <2>3. CASE /\ At(i, "refresh", "sent") /\ At(i, "refresh", "read")'
               /\ req'[i].by = req[i].by /\ req'[i].token = req[i].token
               /\ req'[i].waited = req[i].waited /\ req'[i].cookies = req[i].cookies
      BY <2>3 DEF At, Granted, Asking, Awaited
    <2>4. CASE /\ req[i].step \in {"sent", "read"} /\ req'[i] = [req[i] EXCEPT !.waited = FALSE]
      BY <2>0, <2>4 DEF RequestType, Granted, Asking, Awaited
    <2>5. QED
      BY <2>1, <2>2, <2>3, <2>4 DEF Quiet, QuietRequest
  <1>4. \A b \in Browsers : \A t : t # 0 /\ Holds(b, t)' => Holds(b, t)
    BY <1>2, <1>3 DEF Holds
  <1>5. OneHolder'
    BY <1>1, <1>4, TokensFacts DEF JarInv, OneHolder
  <1>6. OnlyOnItsWay'
    <2>1. \A i \in Requests : Granted(i) => req[i].cookies.token # 0
      BY DEF TypeInv, RequestOK, Granted
    <2>2. QED
      BY <1>2, <1>3, <2>1 DEF JarInv, OnlyOnItsWay
  <1>12. astray' = astray
    BY DEF Quiet
  <1>7. AnswerIsCurrent'
    BY <1>1, <1>3, <1>12 DEF JarInv, AnswerIsCurrent
  <1>8. OneRefresh'
    BY <1>3 DEF JarInv, OneRefresh
  <1>9. JarHoldsToken'
    BY <1>1, <1>2, <1>12, Zeros DEF JarInv, JarHoldsToken
  <1>10. JarMatchesRequest'
    BY <1>1, <1>2, <1>3, <1>12, Zeros DEF JarInv, JarMatchesRequest
  <1>11. QED
    BY <1>5, <1>6, <1>7, <1>8, <1>9, <1>10 DEF JarInv

LEMMA SendsJarInv ==
  ASSUME TypeInv, TypeInv', TokenInv, JarInv, Coordinated, NEW i \in Requests, NEW b \in Browsers, Sends(i, b)
  PROVE  JarInv'
  <1>1. PICK kind \in {"refresh", "logout"} :
          /\ req'[i] = Handled(kind, b, TRUE, "sent", jar[b].token, 0, FALSE, 0, 0)
          /\ kind = "refresh" /\ Coordinated => ~Refreshing(b)
    BY DEF Sends
  <1>2. /\ req'[i].by = b /\ req'[i].token = jar[b].token /\ req'[i].cookies.token = 0
        /\ req'[i].kind = kind /\ req'[i].waited /\ ~Granted(i)'
    BY <1>1 DEF Handled, NoCookies, Granted
  <1>3. /\ \A j \in Requests \ {i} : req'[j] = req[j]
        /\ UNCHANGED <<rows, jar, astray>>
        /\ req[i] = NoRequest
    BY DEF Sends
  <1>4. /\ \A r \in SessionIds : TokensOf(r)' = TokensOf(r) /\ (Live(r)' <=> Live(r))
        /\ \A j \in Requests : Granted(j)' => j # i /\ Granted(j)
        /\ \A j \in Requests \ {i} : Asking(j)' => Asking(j)
    BY <1>2, <1>3 DEF TokensOf, Live, Granted, Asking
  <1>5. \A c \in Browsers : \A t : t # 0 /\ Holds(c, t)' => Holds(c, t)
    BY <1>2, <1>3 DEF Holds
  <1>6. OneHolder'
    BY <1>4, <1>5, TokensFacts DEF JarInv, OneHolder
  <1>7. OnlyOnItsWay'
    <2>1. \A j \in Requests : Granted(j) => req[j].cookies.token # 0
      BY DEF TypeInv, RequestOK, Granted
    <2>2. QED
      BY <1>2, <1>3, <1>4, <2>1 DEF JarInv, OnlyOnItsWay
  <1>8. AnswerIsCurrent'
    BY <1>3, <1>4 DEF JarInv, AnswerIsCurrent
  <1>9. OneRefresh'
    <2>1. \A j \in Requests \ {i} : Awaited(i)' /\ Awaited(j)' => req'[j].by # b
      BY <1>1, <1>2, <1>3 DEF Refreshing, Awaited
    <2>2. QED
      BY <1>2, <1>3, <2>1 DEF JarInv, OneRefresh, Awaited
  <1>10. JarHoldsToken'
    BY <1>3, <1>4 DEF JarInv, JarHoldsToken
  <1>11. JarMatchesRequest'
    BY <1>2, <1>3, <1>4 DEF JarInv, JarMatchesRequest
  <1>12. QED
    BY <1>6, <1>7, <1>8, <1>9, <1>10, <1>11 DEF JarInv

LEMMA ArrivesJarInv ==
  ASSUME TypeInv, TypeInv', TokenInv, JarInv, NEW i \in Requests, Arrives(i)
  PROVE  JarInv'
  <1> DEFINE b == req[i].by
             u == req[i].cookies.token
             s == req[i].cookies.sid
  <1>1. /\ b \in Browsers /\ u # 0 /\ s \in SessionIds
        /\ req[i].kind \in {"login", "refresh"}
    BY DEF Arrives, Granted, TypeInv, RequestOK
  <1>2. /\ Granted(i)
        /\ jar'[b] = req[i].cookies
        /\ \A c \in Browsers \ {b} : jar'[c] = jar[c]
        /\ req'[i] = NoRequest
        /\ \A j \in Requests \ {i} : req'[j] = req[j]
        /\ rows' = rows /\ astray' = astray /\ req[i].waited
    BY <1>1 DEF Arrives, Granted, TypeInv, TypeOK, RequestOK
  <1>3. /\ \A r \in SessionIds : TokensOf(r)' = TokensOf(r) /\ (Live(r)' <=> Live(r))
        /\ \A j \in Requests : Granted(j)' => j # i /\ Granted(j)
        /\ \A j \in Requests : Asking(j)' => j # i /\ Asking(j)
        /\ NoRequest.token = 0 /\ NoRequest.cookies.token = 0 /\ NoRequest.kind # "refresh"
    BY <1>2 DEF TokensOf, Live, Granted, Asking, NoRequest, NoCookies
  <1>4. \A c \in Browsers : \A t : t # 0 /\ Holds(c, t)' => Holds(c, t)
    <2> SUFFICES ASSUME NEW c \in Browsers, NEW t, t # 0, Holds(c, t)' PROVE Holds(c, t)
      OBVIOUS
    <2>1. CASE jar'[c].token = t
      BY <1>2, <2>1 DEF Holds
    <2>2. CASE \E j \in Requests : req'[j].by = c /\ (req'[j].token = t \/ req'[j].cookies.token = t)
      BY <1>2, <1>3, <2>2 DEF Holds
    <2>3. QED
      BY <2>1, <2>2 DEF Holds
  <1>5. OneHolder'
    BY <1>3, <1>4, TokensFacts DEF JarInv, OneHolder
  <1>6. OnlyOnItsWay'
    <2>1. \A j \in Requests : Granted(j) => req[j].cookies.token # 0
      BY DEF TypeInv, RequestOK, Granted
    <2>2. QED
      BY <1>2, <1>3, <2>1 DEF JarInv, OnlyOnItsWay
  <1>7. AnswerIsCurrent'
    BY <1>2, <1>3 DEF JarInv, AnswerIsCurrent
  <1>8. OneRefresh'
    BY <1>2, <1>3 DEF JarInv, OneRefresh, Awaited
  <1>9. JarHoldsToken'
    <2>1. Live(s) /\ s \notin astray => u \in TokensOf(s)
      BY <1>1, <1>2 DEF JarInv, AnswerIsCurrent, TokensOf
    <2>2. QED
      BY <1>2, <1>3, <2>1 DEF JarInv, JarHoldsToken
  <1>10. JarMatchesRequest'
    <2> SUFFICES ASSUME NEW j \in Requests, NEW c \in Browsers, NEW r \in SessionIds,
                        Asking(j), req[j].waited, j # i, req[j].by = c, jar'[c].sid = r,
                        r \notin astray, req[j].token \in TokensOf(r)
                 PROVE  jar'[c].token = req[j].token
      BY <1>2, <1>3 DEF JarMatchesRequest
    <2>1. CASE c # b
      BY <1>2, <2>1 DEF JarInv, JarMatchesRequest
    <2>2. CASE c = b
      <3>1. req[i].kind = "login"
        BY <1>1, <1>2, <2>2 DEF JarInv, OneRefresh, Asking, Awaited
      <3>2. r = s /\ Live(s)
        BY <1>2, <2>2, TokensFacts
      <3>3. TokensOf(s) = {u}
        BY <1>1, <1>2, <3>1, <3>2 DEF JarInv, AnswerIsCurrent, TokensOf
      <3>4. req[j].token # u
        BY <1>2 DEF JarInv, OnlyOnItsWay
      <3>5. QED
        BY <3>2, <3>3, <3>4
    <2>3. QED
      BY <2>1, <2>2
  <1>11. QED
    BY <1>5, <1>6, <1>7, <1>8, <1>9, <1>10 DEF JarInv

\* The jars of session s hold token t, and no answer for s is under way.
InHand(s, t) ==
  /\ \A c \in Browsers : jar[c].sid = s => jar[c].token = t /\ t # 0
  /\ \A j \in Requests : Granted(j) => req[j].cookies.sid # s

\* A token handed out for session s, when the browsers that hold something of it
\* are in the state that Issues or Rotates is taken in.
LEMMA HandsOutJarInv ==
  ASSUME TypeInv, TypeInv', TokenInv, JarInv,
         NEW i \in Requests, NEW s \in SessionIds, NEW prev \in Nat, HandsOut(i, s, prev),
         prev <= drawn.tokens, req[i].kind = "login" => prev = 0,
         \A c \in Browsers : prev # 0 /\ Holds(c, prev) => c = req[i].by,
         astray \subseteq astray', s \in astray' \/ InHand(s, prev)
  PROVE  JarInv'
  <1> DEFINE b == req[i].by
             u == drawn.tokens + 1
  <1>1. \/ req'[i] = NoRequest
        \/ /\ req'[i].by = b /\ req'[i].token = 0 /\ req'[i].cookies.token = u
           /\ req'[i].cookies.sid = s /\ req'[i].kind = req[i].kind
           /\ req'[i].step = "granted" /\ req[i].waited
    <2>1. req'[i] = Response(req[i], "granted", Minted(i, s))
      BY DEF HandsOut
    <2>2. CASE req[i].waited
      BY <2>1, <2>2 DEF Response, AnswerOf, Minted
    <2>3. CASE ~req[i].waited
      BY <2>1, <2>3 DEF Response
    <2>4. QED
      BY <2>2, <2>3
  <1>0. /\ NoRequest.token = 0 /\ NoRequest.cookies.token = 0
        /\ NoRequest.kind = "none" /\ NoRequest.step = "free"
    BY DEF NoRequest, NoCookies
  <1>2. /\ \A j \in Requests \ {i} : req'[j] = req[j]
        /\ jar' = jar
        /\ ~Granted(i)
    BY DEF HandsOut, Granted
  <1>3. /\ u \in Nat /\ u # 0 /\ u # prev
        /\ \A c \in Browsers : jar[c].token # u
        /\ \A j \in Requests : req[j].token # u /\ req[j].cookies.token # u
        /\ \A r \in SessionIds : u \notin TokensOf(r)
    <2>1. drawn.tokens \in Nat /\ prev <= drawn.tokens
      BY TokensFacts
    <2>2. /\ \A c \in Browsers : jar[c].token \in Nat /\ jar[c].token <= drawn.tokens
          /\ \A j \in Requests : /\ req[j].token \in Nat /\ req[j].token <= drawn.tokens
                                 /\ req[j].cookies.token \in Nat
                                 /\ req[j].cookies.token <= drawn.tokens
      BY DEF TypeInv, TypeOK, RequestType, Cookies, TokenInv
    <2>3. \A r \in SessionIds : u \notin TokensOf(r)
      BY <2>1, TokensFacts
    <2>4. QED
      BY <2>1, <2>2, <2>3
  <1>4. \A r \in SessionIds :
          \/ TokensOf(r)' = {} /\ ~Live(r)'
          \/ /\ r # s /\ TokensOf(r)' = TokensOf(r) /\ (Live(r)' <=> Live(r))
             /\ rows'[r].hash = rows[r].hash /\ rows'[r].prev = rows[r].prev
          \/ /\ r = s /\ TokensOf(r)' = {u, prev} \ {0} /\ Live(r)'
             /\ rows'[r].hash = u /\ rows'[r].prev = prev
    BY <1>3, HandsOutRows DEF TokensOf, Live, NoRow
  <1>5. /\ \A j \in Requests : Granted(j)' => j = i \/ Granted(j)
        /\ \A j \in Requests : Asking(j)' => j # i /\ Asking(j)
    BY <1>0, <1>1, <1>2 DEF Granted, Asking
  <1>6. \A c \in Browsers : \A t : t # 0 /\ Holds(c, t)' => Holds(c, t) \/ (c = b /\ t = u)
    <2> SUFFICES ASSUME NEW c \in Browsers, NEW t, t # 0, Holds(c, t)'
                 PROVE  Holds(c, t) \/ (c = b /\ t = u)
      OBVIOUS
    <2>1. CASE jar'[c].token = t
      BY <1>2, <2>1 DEF Holds
    <2>2. ASSUME NEW j \in Requests, req'[j].by = c, req'[j].token = t \/ req'[j].cookies.token = t
          PROVE  Holds(c, t) \/ (c = b /\ t = u)
      BY <1>0, <1>1, <1>2, <2>2 DEF Holds
    <2>3. QED
      BY <2>1, <2>2 DEF Holds
  <1>7. \A c \in Browsers : ~Holds(c, u)
    BY <1>3 DEF Holds
  <1>8. OneHolder'
    <2> SUFFICES ASSUME NEW r \in SessionIds, NEW c \in Browsers, NEW d \in Browsers,
                        NEW t \in TokensOf(r)', NEW v \in TokensOf(r)', Holds(c, t)', Holds(d, v)'
                 PROVE  c = d
      BY DEF OneHolder
    <2>1. t # 0 /\ v # 0
      BY DEF TokensOf
    <2>2. CASE r # s
      <3>1. t \in TokensOf(r) /\ v \in TokensOf(r)
        BY <1>4, <2>2
      <3>2. Holds(c, t) /\ Holds(d, v)
        BY <1>3, <1>6, <2>1, <3>1
      <3>3. QED
        BY <3>1, <3>2 DEF JarInv, OneHolder
    <2>3. CASE r = s
      <3>1. t \in {u, prev} /\ v \in {u, prev}
        BY <1>4, <2>3
      <3>2. c = b /\ d = b
        BY <1>3, <1>6, <1>7, <2>1, <3>1
      <3>3. QED
        BY <3>2
    <2>4. QED
      BY <2>2, <2>3
  <1>9. OnlyOnItsWay'
    <2>1. \A j \in Requests : Granted(j) => req[j].cookies.token # 0
      BY DEF TypeInv, RequestOK, Granted
    <2> SUFFICES ASSUME NEW k \in Requests, Granted(k)'
                 PROVE  /\ \A c \in Browsers : jar'[c].token # req'[k].cookies.token
                        /\ \A j \in Requests : /\ req'[j].token # req'[k].cookies.token
                                               /\ req'[j].cookies.token = req'[k].cookies.token => k = j
      BY DEF OnlyOnItsWay
    <2>2. CASE k = i
      <3>1. req'[i].cookies.token = u /\ req'[i].token = 0
        BY <1>0, <1>1, <2>2 DEF Granted
      <3>2. QED
        BY <1>2, <1>3, <2>2, <3>1
    <2>3. CASE k # i
      <3>1. Granted(k) /\ req'[k] = req[k]
        BY <1>2, <1>5, <2>3
      <3>2. req'[i].token = 0 /\ req'[i].cookies.token \in {0, u}
        BY <1>0, <1>1
      <3>3. QED
        BY <1>2, <1>3, <2>1, <2>3, <3>1, <3>2 DEF JarInv, OnlyOnItsWay
    <2>4. QED
      BY <2>2, <2>3
  <1>10. AnswerIsCurrent'
    <2> SUFFICES ASSUME NEW j \in Requests, NEW r \in SessionIds,
                        Granted(j)', req'[j].cookies.sid = r, Live(r)', r \notin astray'
                 PROVE  /\ rows'[r].hash = req'[j].cookies.token
                        /\ req'[j].kind = "login" => rows'[r].prev = 0
      BY DEF AnswerIsCurrent
    <2>1. CASE j = i
      BY <1>0, <1>1, <1>4, <2>1 DEF Granted
    <2>2. CASE j # i
      BY <1>2, <1>4, <1>5, <2>2 DEF JarInv, AnswerIsCurrent, InHand
    <2>3. QED
      BY <2>1, <2>2
  <1>11. OneRefresh'
    BY <1>0, <1>1, <1>2 DEF JarInv, OneRefresh, Awaited
  <1>12. JarHoldsToken'
    BY <1>2, <1>4 DEF JarInv, JarHoldsToken, InHand
  <1>13. JarMatchesRequest'
    BY <1>2, <1>3, <1>4, <1>5 DEF JarInv, JarMatchesRequest, InHand
  <1>14. QED
    BY <1>8, <1>9, <1>10, <1>11, <1>12, <1>13 DEF JarInv

LEMMA IssuesJarInv ==
  ASSUME TypeInv, TypeInv', TokenInv, JarInv, NEW i \in Requests, Issues(i)
  PROVE  JarInv'
  <1> DEFINE s == drawn.sessions + 1
  <1>1. s \in SessionIds /\ HandsOut(i, s, 0) /\ drawn.tokens \in Nat /\ astray' = astray
    BY TokensFacts DEF Issues, HandsOut
  <1>2. \A c \in Browsers : jar[c].sid # s
    <2>1. \A c \in Browsers : jar[c].sid \in Nat /\ jar[c].sid <= drawn.sessions
      BY DEF TypeInv, TypeOK, Cookies, TokenInv
    <2>2. QED
      BY <2>1 DEF TypeInv, TypeOK
  <1>3. \A j \in Requests : req[j].cookies.sid # s
    <2>1. \A j \in Requests : req[j].cookies.sid \in Nat /\ req[j].cookies.sid <= drawn.sessions
      BY DEF TypeInv, TypeOK, RequestType, Cookies, TokenInv
    <2>2. QED
      BY <2>1 DEF TypeInv, TypeOK
  <1> HIDE DEF s
  <1>4. QED
    BY <1>1, <1>2, <1>3, HandsOutJarInv DEF InHand

LEMMA RotatesJarInv ==
  ASSUME TypeInv, TypeInv', TokenInv, JarInv, NEW i \in Requests, Rotates(i)
  PROVE  JarInv'
  <1> DEFINE s == req[i].sid
             t == req[i].token
             b == req[i].by
  <1>1. /\ s \in SessionIds /\ HandsOut(i, s, t) /\ Live(s)
        /\ req[i].kind = "refresh" /\ req[i].step = "read" /\ Asking(i)
        /\ t \in {rows[s].hash, rows[s].prev}
    BY DEF Rotates, HandsOut, Asking
  <1>2. /\ b \in Browsers /\ t # 0 /\ t \in Nat /\ t <= drawn.tokens
    BY <1>1 DEF TypeInv, TypeOK, RequestType, RequestOK, TokenInv
  <1>3. t \in TokensOf(s) /\ Holds(b, t)
    BY <1>1, <1>2 DEF TokensOf, Holds
  <1>4. \A c \in Browsers : Holds(c, t) => c = b
    BY <1>1, <1>2, <1>3 DEF JarInv, OneHolder
  <1>5. ASSUME s \notin astray, NEW j \in Requests, Granted(j), req[j].cookies.sid = s
        PROVE  /\ req[j].kind = "refresh" /\ req[j].by = b /\ req[j].waited
    <2> DEFINE u == req[j].cookies.token
    <2>1. /\ rows[s].hash = u
          /\ req[j].kind = "login" => rows[s].prev = 0
      BY <1>1, <1>5 DEF JarInv, AnswerIsCurrent
    <2>2. t # u
      BY <1>5 DEF JarInv, OnlyOnItsWay
    <2>3. req[j].kind = "refresh" /\ req[j].by \in Browsers /\ u # 0 /\ req[j].waited
      BY <1>1, <1>2, <1>5, <2>1, <2>2 DEF TypeInv, RequestOK, Granted
    <2>4. Holds(req[j].by, u) /\ u \in TokensOf(s)
      BY <2>1, <2>3 DEF Holds, TokensOf
    <2>5. req[j].by = b
      BY <1>1, <1>2, <1>3, <2>3, <2>4 DEF JarInv, OneHolder
    <2>6. QED
      BY <2>3, <2>5
  <1>6. ASSUME s \notin astray, NEW c \in Browsers, jar[c].sid = s
        PROVE  c = b
    <2>1. jar[c].token \in TokensOf(s)
      BY <1>1, <1>6 DEF JarInv, JarHoldsToken
    <2>2. Holds(c, jar[c].token)
      BY DEF Holds
    <2>3. QED
      BY <1>1, <1>2, <1>3, <2>1, <2>2 DEF JarInv, OneHolder
  <1>7. s \in astray' \/ InHand(s, t)
    <2>1. CASE s \in astray \/ (~req[i].waited /\ MovedOn(i))
      BY <2>1 DEF Rotates
    <2>2. CASE s \notin astray /\ req[i].waited
      <3>1. \A c \in Browsers : jar[c].sid = s => jar[c].token = t
        BY <1>1, <1>2, <1>3, <1>6, <2>2 DEF JarInv, JarMatchesRequest
      <3>2. ASSUME NEW j \in Requests, Granted(j), req[j].cookies.sid = s PROVE FALSE
        <4>1. Awaited(i) /\ Awaited(j) /\ req[j].by = b
          BY <1>1, <1>5, <2>2, <3>2 DEF Awaited
        <4>2. i = j
          BY <4>1 DEF JarInv, OneRefresh
        <4>3. QED
          BY <1>1, <3>2, <4>2 DEF Granted
      <3>3. QED
        BY <1>2, <3>1, <3>2 DEF InHand
    <2>3. CASE s \notin astray /\ ~MovedOn(i)
      <3>1. \A c \in Browsers : jar[c].sid = s => jar[c].token = t
        BY <1>6, <2>3 DEF MovedOn
      <3>2. \A j \in Requests : Granted(j) => req[j].cookies.sid # s
        BY <1>5, <2>3 DEF MovedOn, At, Granted
      <3>3. QED
        BY <1>2, <3>1, <3>2 DEF InHand
    <2>4. QED
      BY <2>1, <2>2, <2>3
  <1>8. astray \subseteq astray'
    BY DEF Rotates
  <1>9. req[i].kind # "login" /\ \A c \in Browsers : t # 0 /\ Holds(c, t) => c = b
    BY <1>1, <1>4
  <1>10. t \in Nat /\ t <= drawn.tokens /\ s \in SessionIds /\ HandsOut(i, s, t) /\ b = req[i].by
    BY <1>1, <1>2
  <1> HIDE DEF s, t
  <1>11. QED
    BY <1>7, <1>8, <1>9, <1>10, HandsOutJarInv

\* While the pages of a browser wait for one refresh at a time, no lost, late or
\* repeated answer leaves a live session with a token its browser does not have:
\* the jar holds the current token or the one before, which a refresh within the
\* grace period is taken by and keeps as the previous one.  Refreshes that a page
\* has given up on are handled at any time; one that is handled after the browser
\* has been given another token is the only thing that can cost it the session.
THEOREM JarsRecognised == Coordinated => (Spec => []JarRecognised)
  <1> SUFFICES ASSUME Coordinated PROVE Spec => []JarRecognised
    OBVIOUS
  <1>1. Init => JarInv
    BY InitJarInv
  <1>2. (TypeInv /\ TokenInv) /\ (TypeInv /\ TokenInv)' /\ JarInv /\ [Next]_vars => JarInv'
    BY StepCases, QuietJarInv, SendsJarInv, ArrivesJarInv, IssuesJarInv, RotatesJarInv
  <1>3. TypeInv /\ JarInv => JarRecognised
    <2> SUFFICES ASSUME TypeInv, JarInv, NEW b \in Browsers, jar[b].sid # 0, Live(jar[b].sid),
                        jar[b].sid \notin astray
                 PROVE  jar[b].token \in {rows[jar[b].sid].hash, rows[jar[b].sid].prev}
      BY DEF JarRecognised
    <2>1. jar[b].sid \in SessionIds
      BY ConstantsAssumption
         DEF ConstantsAssumption, TypeInv, TypeOK, Cookies, SessionIds
    <2>2. QED
      BY <2>1 DEF JarInv, JarHoldsToken, TokensOf
  <1>4. QED
    BY <1>1, <1>2, <1>3, TypeAndTokens, PTL DEF Spec

(***************************************************************************)
(* ManualFacts.                                                            *)
(***************************************************************************)

\* What a page, its draft and the items of a save know of one another: a row is
\* shown as a whole, and a value that differs from the one shown next to it was
\* typed over exactly that one.
Filled == [value : Cells, previous : Cells, over : Cells]

PageForm ==
  \A e \in Editors, r \in Rows :
    /\ page[e].shown[r] = Hidden <=> page[e].cells[r] = Hidden
    /\ page[e].cells[r] # page[e].shown[r] => over[e][r] = page[e].shown[r]

DraftForm ==
  \A e \in Editors, r \in Rows :
    draft[e][r] = Nothing \/ (draft[e][r] \in Filled /\ draft[e][r].over = draft[e][r].previous)

ItemForm ==
  \A s \in Saves, r \in Rows :
    LET i == txn[s].items[r]
    IN  i = NoItem \/ (/\ i.value \in Cells /\ i.previous \in Cells
                       /\ i.value # i.previous => i.over = i.previous)

Form == PageForm /\ DraftForm /\ ItemForm

\* Ids are drawn in order, and the id of a save that is not over is in no row
\* and in no read.
Active(s) == txn[s].step \in {"sent", "writing"}
Drawn == Legacy \cup (1 .. spent.posts)

IdsDrawn ==
  /\ \A r \in Rows : stored[r].ids \subseteq Drawn
  /\ \A s \in Saves, r \in Rows : txn[s].read[r] \subseteq Drawn
  /\ \A s \in Saves : Active(s) => txn[s].id \in 1 .. spent.posts

IdsFresh ==
  \A s \in Saves : Active(s) =>
    /\ \A z \in Saves \ {s} : Active(z) => txn[z].id # txn[s].id
    /\ \A r \in Rows : txn[s].id \notin stored[r].ids
    /\ \A z \in Saves, r \in Rows : txn[s].id \notin txn[z].read[r]

\* A month is empty, one row, or still the legacy rows.
Shape(S) == S = {} \/ S = Legacy \/ \E i \in 1 .. MaxPosts : S = {i}
Shapes ==
  /\ \A r \in Rows : Shape(stored[r].ids)
  /\ \A s \in Saves, r \in Rows : Shape(txn[s].read[r])

\* The rows a save still has to write, and those it has written: only rows it
\* changes, in order, no row with two writers; what it has written replaces
\* what it read, and what it has not still may have been replaced.
Writing ==
  \A s \in Saves :
    /\ txn[s].step # "writing" => txn[s].todo = {} /\ txn[s].mine = {}
    /\ txn[s].todo \cup txn[s].mine \subseteq Edited(s)
    /\ \A t \in txn[s].todo, m \in txn[s].mine : m < t
    /\ \A z \in Saves \ {s} : txn[s].mine \cap txn[z].mine = {}

Unwritten ==
  \A s \in Saves : \A r \in txn[s].todo :
    /\ txn[s].read[r] = {} => txn[s].items[r].previous = NULL /\ stored[r].ids \cap Legacy = {}
    /\ (txn[s].read[r] # {} /\ txn[s].read[r] \subseteq stored[r].ids)
         => stored[r].value = txn[s].items[r].previous

Replaced ==
  \A s \in Saves : \A r \in txn[s].mine :
    stored[r].ids = txn[s].read[r] /\ stored[r].value = txn[s].items[r].previous

Locks == Writing /\ Unwritten /\ Replaced

IInv == EditTypeOK /\ Form /\ IdsDrawn /\ IdsFresh /\ Shapes /\ Locks /\ TypingIsBacked

-----------------------------------------------------------------------------
(* The actions on a page.                                                  *)

LEMMA FormInit == EditInit => Form
  BY EditorAssumption
     DEF EditorAssumption, EditInit, Form, PageForm, DraftForm, ItemForm, ClosedPage, NoRows, NoDraft, FreeSlot

LEMMA PageFormStep == EditTypeOK /\ Form /\ [EditNext]_editVars => PageForm'
<1> SUFFICES ASSUME EditTypeOK, Form, [EditNext]_editVars, NEW e \in Editors, NEW r \in Rows
             PROVE  /\ page'[e].shown[r] = Hidden <=> page'[e].cells[r] = Hidden
                    /\ page'[e].cells[r] # page'[e].shown[r] => over'[e][r] = page'[e].shown[r]
  BY DEF PageForm
<1>0. /\ page \in [Editors -> [mode : Modes, shown : [Rows -> Shown], cells : [Rows -> Shown],
                               timer : BOOLEAN, refused : BOOLEAN]]
      /\ over \in [Editors -> [Rows -> Shown]]
      /\ \A f \in Editors, q \in Rows :
           /\ page[f].shown[q] = Hidden <=> page[f].cells[q] = Hidden
           /\ page[f].cells[q] # page[f].shown[q] => over[f][q] = page[f].shown[q]
  BY DEF EditTypeOK, Form, PageForm
<1>a. \A f \in Editors, q \in Rows :
           /\ page[f].shown[q] = Hidden <=> page[f].cells[q] = Hidden
           /\ page[f].cells[q] # page[f].shown[q] => over[f][q] = page[f].shown[q]
  BY <1>0
<1> DEFINE Kept == /\ page'[e].shown[r] = Hidden <=> page'[e].cells[r] = Hidden
                   /\ page'[e].cells[r] # page'[e].shown[r] => over'[e][r] = page'[e].shown[r]
<1>1. ASSUME NEW f \in Editors, Load(f) PROVE Kept
  <2> DEFINE back == Restorable(f, Snapshot)
  <2>1. \A q \in back : /\ draft[f][q] \in Filled /\ draft[f][q].over = draft[f][q].previous
                        /\ Snapshot[q] # Hidden /\ draft[f][q].previous = Snapshot[q]
    BY DEF Form, DraftForm, Restorable
  <2>2. \A g \in Editors \ {f} : page'[g] = page[g] /\ over'[g] = over[g]
    BY <1>0, <1>1 DEF Load
  <2>3. /\ page'[f].shown = Snapshot
        /\ page'[f].cells = [q \in Rows |-> IF q \in back THEN draft[f][q].value ELSE Snapshot[q]]
        /\ over'[f] = [q \in Rows |-> IF q \in back THEN draft[f][q].over ELSE Snapshot[q]]
    BY <1>0, <1>1, Zenon DEF Load
  <2>4. Hidden \notin Cells
    BY EditorAssumption DEF EditorAssumption, Cells
  <2> HIDE DEF back
  <2>5. CASE e # f
    <3>1. page'[e] = page[e] /\ over'[e] = over[e]
      BY <2>2, <2>5
    <3>2. QED
      BY <1>a, <3>1
  <2>6. CASE e = f /\ r \in back
    <3>1. /\ page'[e].shown[r] = Snapshot[r] /\ page'[e].cells[r] = draft[f][r].value
          /\ over'[e][r] = draft[f][r].over
      BY <2>3, <2>6
    <3>2. /\ draft[f][r].value \in Cells /\ draft[f][r].over = Snapshot[r] /\ Snapshot[r] # Hidden
      BY <2>1, <2>6 DEF Filled
    <3>3. QED
      BY <2>4, <3>1, <3>2
  <2>7. CASE e = f /\ r \notin back
    <3>1. page'[e].shown[r] = Snapshot[r] /\ page'[e].cells[r] = Snapshot[r]
      BY <2>3, <2>7
    <3>2. QED
      BY <3>1
  <2>8. QED
    BY <2>5, <2>6, <2>7
<1>2. ASSUME NEW f \in Editors, NEW q \in Rows, NEW v \in Cells, Type(f, q, v) PROVE Kept
  <2>1. \A g \in Editors \ {f} : page'[g] = page[g] /\ over'[g] = over[g]
    BY <1>0, <1>2 DEF Type
  <2>2. /\ page'[f].shown = page[f].shown
        /\ page'[f].cells = [page[f].cells EXCEPT ![q] = v]
        /\ over'[f] = [over[f] EXCEPT ![q] = page[f].shown[q]]
        /\ page[f].shown[q] # Hidden
    BY <1>0, <1>2 DEF Type
  <2>3. v # Hidden
    BY EditorAssumption DEF EditorAssumption, Cells
  <2>4. CASE e # f
    BY <1>a, <2>1, <2>4
  <2>5. CASE e = f
    <3>1. page[f].cells \in [Rows -> Shown] /\ over[f] \in [Rows -> Shown]
      BY <1>0
    <3>2. /\ page'[f].cells[r] = IF r = q THEN v ELSE page[f].cells[r]
          /\ over'[f][r] = IF r = q THEN page[f].shown[q] ELSE over[f][r]
      BY <2>2, <3>1
    <3>3. CASE r = q
      BY <2>2, <2>3, <2>5, <3>2, <3>3
    <3>4. CASE r # q
      <4>1. /\ page[f].shown[r] = Hidden <=> page[f].cells[r] = Hidden
            /\ page[f].cells[r] # page[f].shown[r] => over[f][r] = page[f].shown[r]
        BY <1>a
      <4>2. page'[f].cells[r] = page[f].cells[r] /\ over'[f][r] = over[f][r]
            /\ page'[f].shown = page[f].shown
        BY <2>2, <3>2, <3>4
      <4>3. QED
        BY <2>5, <4>1, <4>2
    <3>5. QED
      BY <3>3, <3>4
  <2>6. QED
    BY <2>4, <2>5
<1>3. ASSUME NEW f \in Editors, StoreDraft(f) PROVE Kept
  BY <1>0, <1>3 DEF StoreDraft
<1>4. ASSUME NEW f \in Editors, Discard(f) PROVE Kept
  BY <1>0, <1>4 DEF Discard, Rendered
<1>5. ASSUME NEW f \in Editors, Reload(f) PROVE Kept
  BY <1>0, <1>5 DEF Reload, ClosedPage, NoRows
<1>6. ASSUME NEW f \in Editors, Recover(f) PROVE Kept
  BY <1>0, <1>6 DEF Recover, Rendered, Snapshot
<1>7. ASSUME NEW f \in Editors, RecoverFails(f) PROVE Kept
  BY <1>0, <1>7 DEF RecoverFails
<1>8. ASSUME NEW f \in Editors, NEW s \in Saves, Save(f, s) PROVE Kept
  BY <1>0, <1>8 DEF Save
<1>9. ASSUME NEW f \in Editors, NEW s \in Saves, ReceiveSaved(f, s) PROVE Kept
  BY <1>0, <1>9 DEF ReceiveSaved, Rendered, Snapshot
<1>10. ASSUME NEW f \in Editors, NEW s \in Saves, ReceiveConflict(f, s) PROVE Kept
  <2>1. over' = over /\ page'[e].shown = page[e].shown /\ page'[e].cells = page[e].cells
    BY <1>0, <1>10 DEF ReceiveConflict
  <2>2. QED
    BY <1>a, <2>1
<1>11. ASSUME NEW f \in Editors, NEW s \in Saves, ReceiveError(f, s) PROVE Kept
  BY <1>0, <1>11 DEF ReceiveError
<1>12. ASSUME NEW f \in Editors, NEW s \in Saves, SaveFails(f, s) PROVE Kept
  BY <1>0, <1>12 DEF SaveFails
<1>13. ASSUME UNCHANGED <<page, over>> PROVE Kept
  BY <1>0, <1>13
<1>14. ASSUME NEW s \in Saves, HandlerStep(s) PROVE UNCHANGED <<page, over>>
  BY <1>14 DEF HandlerStep, ReadRows, Commit, HandlerFails, Unread, WriteRow
<1>15. ASSUME NEW q \in Movers, StaffChanges(q) PROVE UNCHANGED <<page, over>>
  BY <1>15 DEF StaffChanges
<1>16. QED
  BY <1>1, <1>2, <1>3, <1>4, <1>5, <1>6, <1>7, <1>8, <1>9, <1>10, <1>11, <1>12, <1>13, <1>14, <1>15
     DEF EditNext, PageStep, editVars

LEMMA DraftFormStep == EditTypeOK /\ Form /\ [EditNext]_editVars => DraftForm'
<1> SUFFICES ASSUME EditTypeOK, Form, [EditNext]_editVars, NEW e \in Editors, NEW r \in Rows
             PROVE  \/ draft'[e][r] = Nothing
                    \/ draft'[e][r] \in Filled /\ draft'[e][r].over = draft'[e][r].previous
  BY DEF DraftForm
<1> DEFINE Kept == \/ draft'[e][r] = Nothing
                   \/ draft'[e][r] \in Filled /\ draft'[e][r].over = draft'[e][r].previous
<1>0. draft \in [Editors -> [Rows -> Item \cup {Nothing}]]
  BY DEF EditTypeOK
<1>a. \A f \in Editors, q \in Rows :
        draft[f][q] = Nothing \/ (draft[f][q] \in Filled /\ draft[f][q].over = draft[f][q].previous)
  BY DEF Form, DraftForm
<1>b. ASSUME NEW f \in Editors PROVE
        \A q \in Rows : \/ DraftOf(f)[q] = Nothing
                        \/ DraftOf(f)[q] \in Filled /\ DraftOf(f)[q].over = DraftOf(f)[q].previous
  <2> TAKE q \in Rows
  <2>1. CASE q \in Changed(f)
    <3>1. /\ page[f].shown[q] \in Shown /\ page[f].cells[q] \in Shown
          /\ page[f].shown[q] = Hidden <=> page[f].cells[q] = Hidden
          /\ page[f].cells[q] # page[f].shown[q] /\ over[f][q] = page[f].shown[q]
      BY <2>1 DEF EditTypeOK, Form, PageForm, Changed
    <3>2. page[f].shown[q] \in Cells /\ page[f].cells[q] \in Cells
      BY <3>1 DEF Shown
    <3>3. DraftOf(f)[q] = [value |-> page[f].cells[q], previous |-> page[f].shown[q], over |-> over[f][q]]
      BY <2>1 DEF DraftOf
    <3>4. QED
      BY <3>1, <3>2, <3>3 DEF Filled
  <2>2. CASE q \notin Changed(f)
    BY <2>2 DEF DraftOf
  <2>3. QED
    BY <2>1, <2>2
<1>1. ASSUME NEW f \in Editors, draft' = [draft EXCEPT ![f] = DraftOf(f)] PROVE Kept
  BY <1>0, <1>a, <1>b, <1>1
<1>2. ASSUME NEW f \in Editors, draft' = [draft EXCEPT ![f] = NoDraft] PROVE Kept
  BY <1>0, <1>a, <1>2 DEF NoDraft
<1>3. ASSUME UNCHANGED draft PROVE Kept
  BY <1>a, <1>3
<1>4. ASSUME NEW f \in Editors, PageStep(f)
      PROVE  \/ UNCHANGED draft
             \/ draft' = [draft EXCEPT ![f] = DraftOf(f)]
             \/ draft' = [draft EXCEPT ![f] = NoDraft]
  BY <1>4 DEF PageStep, Load, Type, StoreDraft, Discard, Reload, Recover, RecoverFails, Save, ReceiveSaved,
              ReceiveConflict, ReceiveError, SaveFails
<1>5. ASSUME NEW s \in Saves, HandlerStep(s) PROVE UNCHANGED draft
  BY <1>5 DEF HandlerStep, ReadRows, Commit, HandlerFails, Unread, WriteRow
<1>6. ASSUME NEW q \in Movers, StaffChanges(q) PROVE UNCHANGED draft
  BY <1>6 DEF StaffChanges
<1>7. QED
  BY <1>1, <1>2, <1>3, <1>4, <1>5, <1>6 DEF EditNext, editVars

-----------------------------------------------------------------------------
(* What the steps do to the slots and to the table.                        *)

\* A slot keeps all that its transaction is about (its reader may leave).
Same(s) ==
  /\ txn'[s].step = txn[s].step /\ txn'[s].id = txn[s].id
  /\ txn'[s].items = txn[s].items /\ txn'[s].read = txn[s].read
  /\ txn'[s].todo = txn[s].todo /\ txn'[s].mine = txn[s].mine

Others(s) == \A z \in Saves \ {s} : txn'[z] = txn[z]

\* Pages and staff change nothing but to free slots and to leave them.
EditQuiet ==
  /\ UNCHANGED stored /\ spent'.posts = spent.posts
  /\ \A s \in Saves : Same(s) \/ txn'[s] = FreeSlot

Slot == [step : {"free", "sent", "writing", "done", "conflict", "error"},
         by : Editors \cup {NULL}, id : 0 .. MaxPosts, items : [Rows -> Item],
         read : [Rows -> SUBSET Ids], todo : SUBSET Rows, mine : SUBSET Rows]

LEMMA StepKinds ==
  ASSUME EditTypeOK, [EditNext]_editVars
  PROVE  \/ EditQuiet
         \/ \E e \in Editors, s \in Saves : Save(e, s)
         \/ \E s \in Saves : ReadRows(s) \/ Commit(s) \/ HandlerFails(s)
         \/ \E s \in Saves, r \in Rows : WriteRow(s, r)
<1>0. /\ txn \in [Saves -> Slot] /\ spent \in [posts : 0 .. MaxPosts, edits : 0 .. MaxEdits, trouble : 0 .. MaxTrouble]
  BY DEF EditTypeOK, Slot
<1>1. ASSUME NEW e \in Editors, Load(e) \/ StoreDraft(e) \/ Discard(e) \/ Recover(e) PROVE EditQuiet
  BY <1>1 DEF Load, StoreDraft, Discard, Recover, EditQuiet, Same
<1>2. ASSUME NEW e \in Editors, NEW r \in Rows, NEW v \in Cells, Type(e, r, v) PROVE EditQuiet
  BY <1>0, <1>2 DEF Type, EditQuiet, Same
<1>3. ASSUME NEW e \in Editors, Reload(e) PROVE EditQuiet
  BY <1>0, <1>3 DEF Reload, Abandoned, Trouble, EditQuiet, Same, Slot
<1>4. ASSUME NEW e \in Editors, RecoverFails(e) PROVE EditQuiet
  BY <1>0, <1>4 DEF RecoverFails, Trouble, EditQuiet, Same
<1>5. ASSUME NEW e \in Editors, NEW s \in Saves, SaveFails(e, s) PROVE EditQuiet
  BY <1>0, <1>5 DEF SaveFails, Trouble, EditQuiet, Same, Slot
<1>6. ASSUME NEW e \in Editors, NEW s \in Saves,
             ReceiveSaved(e, s) \/ ReceiveConflict(e, s) \/ ReceiveError(e, s)
      PROVE EditQuiet
  BY <1>0, <1>6 DEF ReceiveSaved, ReceiveConflict, ReceiveError, EditQuiet, Same
<1>7. ASSUME NEW s \in Saves, Unread(s) PROVE EditQuiet
  BY <1>0, <1>7 DEF Unread, EditQuiet, Same
<1>8. ASSUME NEW r \in Movers, StaffChanges(r) PROVE EditQuiet
  BY <1>0, <1>8 DEF StaffChanges, Trouble, EditQuiet, Same
<1>9. ASSUME UNCHANGED editVars PROVE EditQuiet
  BY <1>9 DEF editVars, EditQuiet, Same
<1>10. QED
  BY <1>1, <1>2, <1>3, <1>4, <1>5, <1>6, <1>7, <1>8, <1>9 DEF EditNext, PageStep, HandlerStep

\* The five steps that are about a transaction, field by field.
LEMMA SaveEffect ==
  ASSUME EditTypeOK, NEW e \in Editors, NEW s \in Saves, Save(e, s)
  PROVE  /\ Others(s) /\ UNCHANGED stored /\ spent'.posts = spent.posts + 1
         /\ txn[s] = FreeSlot /\ spent.posts < MaxPosts
         /\ txn'[s].step = "sent" /\ txn'[s].id = spent.posts + 1 /\ txn'[s].items = Items(e)
         /\ txn'[s].by = e
         /\ txn'[s].read = FreeSlot.read /\ txn'[s].todo = {} /\ txn'[s].mine = {}
  BY DEF EditTypeOK, Save, Others, FreeSlot

LEMMA ReadEffect ==
  ASSUME EditTypeOK, NEW s \in Saves, ReadRows(s)
  PROVE  /\ Others(s) /\ UNCHANGED <<stored, spent>> /\ txn[s].step = "sent"
         /\ txn'[s].id = txn[s].id /\ txn'[s].items = txn[s].items /\ txn'[s].by = txn[s].by
         /\ txn'[s].mine = txn[s].mine
         /\ \/ /\ txn'[s].step \in {"conflict", "error"}
               /\ txn'[s].read = txn[s].read /\ txn'[s].todo = txn[s].todo
            \/ /\ ~Stale(s) /\ ~Gone(s) /\ ~NotOpen(s)
               /\ txn'[s].step = "writing" /\ txn'[s].todo = Edited(s)
               /\ txn'[s].read = [r \in Rows |-> IF r \in Edited(s) THEN stored[r].ids ELSE {}]
<1> DEFINE new == IF Gone(s) THEN [txn[s] EXCEPT !.step = "conflict"]
                  ELSE IF NotOpen(s) THEN [txn[s] EXCEPT !.step = "error"]
                  ELSE IF Stale(s) THEN [txn[s] EXCEPT !.step = "conflict"]
                  ELSE [txn[s] EXCEPT !.step = "writing", !.todo = Edited(s),
                                      !.read = [r \in Rows |-> IF r \in Edited(s) THEN stored[r].ids ELSE {}]]
<1>1. txn \in [Saves -> Slot]
  BY DEF EditTypeOK, Slot
<1>2. txn' = [txn EXCEPT ![s] = new]
  BY DEF ReadRows
<1>3. txn'[s] = new /\ Others(s)
  <2> HIDE DEF new
  <2> QED
    BY <1>1, <1>2 DEF Others
<1>4. txn[s] \in Slot
  BY <1>1
<1>5. UNCHANGED <<stored, spent>> /\ txn[s].step = "sent"
  BY DEF ReadRows
<1>6. CASE Gone(s) \/ NotOpen(s) \/ Stale(s)
  <2>1. txn'[s] = [txn[s] EXCEPT !.step = "conflict"] \/ txn'[s] = [txn[s] EXCEPT !.step = "error"]
    BY <1>3, <1>6
  <2>2. QED
    BY <1>3, <1>4, <1>5, <2>1 DEF Slot
<1>7. CASE ~Gone(s) /\ ~NotOpen(s) /\ ~Stale(s)
  <2> DEFINE ids == [r \in Rows |-> IF r \in Edited(s) THEN stored[r].ids ELSE {}]
  <2>1. txn'[s] = [txn[s] EXCEPT !.step = "writing", !.todo = Edited(s), !.read = ids]
    BY <1>3, <1>7
  <2> HIDE DEF ids
  <2>2. /\ txn'[s].step = "writing" /\ txn'[s].todo = Edited(s) /\ txn'[s].read = ids
        /\ txn'[s].id = txn[s].id /\ txn'[s].items = txn[s].items /\ txn'[s].by = txn[s].by
        /\ txn'[s].mine = txn[s].mine
    BY <1>4, <2>1 DEF Slot
  <2>3. QED
    BY <1>3, <1>5, <1>7, <2>2 DEF ids
<1>8. QED
  BY <1>6, <1>7

LEMMA WriteEffect ==
  ASSUME EditTypeOK, NEW s \in Saves, NEW r \in Rows, WriteRow(s, r)
  PROVE  /\ Others(s) /\ UNCHANGED <<stored, spent>> /\ txn[s].step = "writing"
         /\ r \in NextRows(s) /\ ~Held(r, s)
         /\ txn'[s].id = txn[s].id /\ txn'[s].items = txn[s].items /\ txn'[s].by = txn[s].by
         /\ txn'[s].read = txn[s].read
         /\ \/ /\ Writable(s, r) /\ txn'[s].step = "writing"
               /\ txn'[s].todo = txn[s].todo \ {r} /\ txn'[s].mine = txn[s].mine \cup {r}
            \/ txn'[s].step = "conflict" /\ txn'[s].todo = {} /\ txn'[s].mine = {}
  BY DEF EditTypeOK, WriteRow, Others

LEMMA CommitEffect ==
  ASSUME EditTypeOK, NEW s \in Saves, Commit(s)
  PROVE  /\ Others(s) /\ UNCHANGED spent /\ txn[s].step = "writing" /\ txn[s].todo = {}
         /\ txn'[s].step = "done" /\ txn'[s].mine = {} /\ txn'[s].todo = {}
         /\ txn'[s].id = txn[s].id /\ txn'[s].items = txn[s].items /\ txn'[s].by = txn[s].by
         /\ txn'[s].read = txn[s].read
         /\ stored' = [r \in Rows |-> IF r \in txn[s].mine THEN Written(s, r) ELSE stored[r]]
  BY DEF EditTypeOK, Commit, Others

LEMMA FailEffect ==
  ASSUME EditTypeOK, NEW s \in Saves, HandlerFails(s)
  PROVE  /\ Others(s) /\ UNCHANGED stored /\ spent'.posts = spent.posts
         /\ txn'[s].step = "error" /\ txn'[s].todo = {} /\ txn'[s].mine = {}
         /\ txn'[s].id = txn[s].id /\ txn'[s].items = txn[s].items /\ txn'[s].by = txn[s].by
         /\ txn'[s].read = txn[s].read
  BY DEF EditTypeOK, HandlerFails, Trouble, Others

LEMMA ItemFormStep == EditTypeOK /\ Form /\ [EditNext]_editVars => ItemForm'
<1> SUFFICES ASSUME EditTypeOK, Form, [EditNext]_editVars, NEW s \in Saves PROVE
      \A r \in Rows : LET i == txn'[s].items[r]
                      IN  i = NoItem \/ (/\ i.value \in Cells /\ i.previous \in Cells
                                         /\ i.value # i.previous => i.over = i.previous)
  BY DEF ItemForm
<1> DEFINE Good(items) == \A r \in Rows :
             LET i == items[r]
             IN  i = NoItem \/ (/\ i.value \in Cells /\ i.previous \in Cells
                                /\ i.value # i.previous => i.over = i.previous)
<1>1. \A z \in Saves : Good(txn[z].items)
  BY DEF Form, ItemForm
<1>2. Good(FreeSlot.items)
  BY DEF FreeSlot
<1>3. ASSUME NEW e \in Editors PROVE Good(Items(e))
  <2>1. \A r \in Rows : /\ page[e].shown[r] \in Shown /\ page[e].cells[r] \in Shown
                        /\ page[e].shown[r] = Hidden <=> page[e].cells[r] = Hidden
    BY DEF EditTypeOK, Form, PageForm
  <2>2. \A r \in Rows : page[e].cells[r] # page[e].shown[r] => over[e][r] = page[e].shown[r]
    BY DEF Form, PageForm
  <2>3. QED
    BY <2>1, <2>2 DEF Items, Shown
<1>4. \/ txn'[s].items = txn[s].items \/ txn'[s].items = FreeSlot.items
      \/ \E e \in Editors : txn'[s].items = Items(e)
  <2>1. CASE EditQuiet
    BY <2>1 DEF EditQuiet, Same
  <2>2. ASSUME NEW e \in Editors, NEW z \in Saves, Save(e, z)
        PROVE  txn'[s].items = txn[s].items \/ txn'[s].items = Items(e)
    BY <2>2, SaveEffect DEF Others
  <2>3. ASSUME NEW z \in Saves, ReadRows(z) PROVE txn'[s].items = txn[s].items
    BY <2>3, ReadEffect DEF Others
  <2>4. ASSUME NEW z \in Saves, Commit(z) PROVE txn'[s].items = txn[s].items
    BY <2>4, CommitEffect DEF Others
  <2>5. ASSUME NEW z \in Saves, HandlerFails(z) PROVE txn'[s].items = txn[s].items
    BY <2>5, FailEffect DEF Others
  <2>6. ASSUME NEW z \in Saves, NEW r \in Rows, WriteRow(z, r) PROVE txn'[s].items = txn[s].items
    BY <2>6, WriteEffect DEF Others
  <2>7. QED
    BY <2>1, <2>2, <2>3, <2>4, <2>5, <2>6, StepKinds
<1> HIDE DEF Good
<1>5. Good(txn'[s].items)
  BY <1>1, <1>2, <1>3, <1>4
<1>6. QED
  BY <1>5 DEF Good

\* A value that a commit leaves: at most the ids that were there, and its own.
LEMMA WrittenIds ==
  ASSUME NEW s \in Saves, NEW r \in Rows
  PROVE  /\ Written(s, r).ids = {} \/ Written(s, r).ids = (stored[r].ids \ txn[s].read[r]) \cup {txn[s].id}
         /\ Written(s, r).ids = {} <=> txn[s].items[r].value = NULL
         /\ Written(s, r).value = txn[s].items[r].value
  BY DEF Written, Empty

\* What every step leaves of a slot and of a row, as far as ids go.
LEMMA IdSteps ==
  ASSUME EditTypeOK, [EditNext]_editVars
  PROVE  /\ spent'.posts \in {spent.posts, spent.posts + 1} /\ spent'.posts \in 0 .. MaxPosts
         /\ \A r \in Rows :
              \/ stored'[r] = stored[r]
              \/ \E s \in Saves : /\ txn[s].step = "writing" /\ txn'[s].step = "done" /\ r \in txn[s].mine
                                  /\ stored'[r] = Written(s, r)
         /\ \A s \in Saves :
              \/ txn'[s].step = "free"
              \/ txn'[s].step \in {"done", "conflict", "error"} /\ txn'[s].id = txn[s].id
              \/ Active(s) /\ txn'[s].step \in {"sent", "writing"} /\ txn'[s].id = txn[s].id
              \/ /\ txn'[s].step = "sent" /\ txn'[s].id = spent.posts + 1 /\ spent'.posts = spent.posts + 1
                 /\ UNCHANGED stored /\ \A z \in Saves \ {s} : Same(z)
         /\ \A s \in Saves, r \in Rows : txn'[s].read[r] \in {{}, txn[s].read[r], stored[r].ids}
<1>0. /\ spent.posts \in 0 .. MaxPosts /\ MaxPosts \in Nat
      /\ \A s \in Saves : txn[s].step \in {"free", "sent", "writing", "done", "conflict", "error"}
  BY EditorAssumption DEF EditTypeOK, EditorAssumption
<1> DEFINE PostsKept == spent'.posts \in {spent.posts, spent.posts + 1} /\ spent'.posts \in 0 .. MaxPosts
           RowsKept == \A r \in Rows :
              \/ stored'[r] = stored[r]
              \/ \E s \in Saves : /\ txn[s].step = "writing" /\ txn'[s].step = "done" /\ r \in txn[s].mine
                                  /\ stored'[r] = Written(s, r)
           SlotKept(s) ==
              \/ txn'[s].step = "free"
              \/ txn'[s].step \in {"done", "conflict", "error"} /\ txn'[s].id = txn[s].id
              \/ Active(s) /\ txn'[s].step \in {"sent", "writing"} /\ txn'[s].id = txn[s].id
              \/ /\ txn'[s].step = "sent" /\ txn'[s].id = spent.posts + 1 /\ spent'.posts = spent.posts + 1
                 /\ UNCHANGED stored /\ \A z \in Saves \ {s} : Same(z)
           ReadKept(s) == \A r \in Rows : txn'[s].read[r] \in {{}, txn[s].read[r], stored[r].ids}
<1> SUFFICES PostsKept /\ RowsKept /\ \A s \in Saves : SlotKept(s) /\ ReadKept(s)
  OBVIOUS
<1>1. ASSUME NEW s \in Saves, Same(s) PROVE SlotKept(s) /\ ReadKept(s)
  BY <1>0, <1>1 DEF Same, Active
<1>2. CASE EditQuiet
  <2>1. PostsKept /\ RowsKept
    BY <1>0, <1>2 DEF EditQuiet
  <2>2. ASSUME NEW s \in Saves, txn'[s] = FreeSlot PROVE SlotKept(s) /\ ReadKept(s)
    BY <2>2 DEF FreeSlot
  <2>3. QED
    BY <1>1, <1>2, <2>1, <2>2 DEF EditQuiet
<1>3. ASSUME NEW z \in Saves, Others(z) PROVE \A s \in Saves \ {z} : Same(s)
  BY <1>3 DEF Others, Same
<1>4. ASSUME NEW e \in Editors, NEW z \in Saves, Save(e, z)
      PROVE  PostsKept /\ RowsKept /\ \A s \in Saves : SlotKept(s) /\ ReadKept(s)
  <2>1. PostsKept /\ RowsKept
    BY <1>0, <1>4, SaveEffect
  <2>2. \A s \in Saves \ {z} : Same(s)
    BY <1>3, <1>4, SaveEffect
  <2>3. SlotKept(z) /\ ReadKept(z)
    BY <1>4, <2>2, SaveEffect DEF FreeSlot
  <2>4. QED
    BY <1>1, <2>1, <2>2, <2>3
<1>5. ASSUME NEW z \in Saves, ReadRows(z)
      PROVE  PostsKept /\ RowsKept /\ \A s \in Saves : SlotKept(s) /\ ReadKept(s)
  <2>1. PostsKept /\ RowsKept
    BY <1>0, <1>5, ReadEffect
  <2>2. \A s \in Saves \ {z} : Same(s)
    BY <1>3, <1>5, ReadEffect
  <2>3. SlotKept(z) /\ ReadKept(z)
    BY <1>5, ReadEffect DEF Active
  <2>4. QED
    BY <1>1, <2>1, <2>2, <2>3
<1>6. ASSUME NEW z \in Saves, Commit(z)
      PROVE  PostsKept /\ RowsKept /\ \A s \in Saves : SlotKept(s) /\ ReadKept(s)
  <2>1. PostsKept /\ RowsKept
    BY <1>0, <1>6, CommitEffect
  <2>2. \A s \in Saves \ {z} : Same(s)
    BY <1>3, <1>6, CommitEffect
  <2>3. SlotKept(z) /\ ReadKept(z)
    BY <1>6, CommitEffect
  <2>4. QED
    BY <1>1, <2>1, <2>2, <2>3
<1>7. ASSUME NEW z \in Saves, HandlerFails(z)
      PROVE  PostsKept /\ RowsKept /\ \A s \in Saves : SlotKept(s) /\ ReadKept(s)
  <2>1. PostsKept /\ RowsKept
    BY <1>0, <1>7, FailEffect
  <2>2. \A s \in Saves \ {z} : Same(s)
    BY <1>3, <1>7, FailEffect
  <2>3. SlotKept(z) /\ ReadKept(z)
    BY <1>7, FailEffect
  <2>4. QED
    BY <1>1, <2>1, <2>2, <2>3
<1>8. ASSUME NEW z \in Saves, NEW q \in Rows, WriteRow(z, q)
      PROVE  PostsKept /\ RowsKept /\ \A s \in Saves : SlotKept(s) /\ ReadKept(s)
  <2>1. PostsKept /\ RowsKept
    BY <1>0, <1>8, WriteEffect
  <2>2. \A s \in Saves \ {z} : Same(s)
    BY <1>3, <1>8, WriteEffect
  <2>3. SlotKept(z) /\ ReadKept(z)
    BY <1>8, WriteEffect DEF Active
  <2>4. QED
    BY <1>1, <2>1, <2>2, <2>3
<1>9. QED
  <2> HIDE DEF PostsKept, RowsKept, SlotKept, ReadKept
  <2> QED
    BY <1>2, <1>4, <1>5, <1>6, <1>7, <1>8, StepKinds

LEMMA IdsStep == EditTypeOK /\ IdsDrawn /\ IdsFresh /\ [EditNext]_editVars => IdsDrawn' /\ IdsFresh'
<1> SUFFICES ASSUME EditTypeOK, IdsDrawn, IdsFresh, [EditNext]_editVars PROVE IdsDrawn' /\ IdsFresh'
  OBVIOUS
<1>0. spent.posts \in Nat /\ spent'.posts \in Nat /\ spent.posts <= spent'.posts
  BY IdSteps, EditorAssumption DEF EditTypeOK, EditorAssumption
<1>1. 1 .. spent.posts \subseteq 1 .. spent'.posts /\ Drawn \subseteq Drawn'
  BY <1>0 DEF Drawn
<1>2. spent.posts + 1 \notin Drawn
  BY <1>0 DEF Drawn, Legacy
<1>3. ASSUME NEW s \in Saves, Active(s)' PROVE
        \/ Active(s) /\ txn'[s].id = txn[s].id
        \/ /\ txn'[s].id = spent.posts + 1 /\ spent'.posts = spent.posts + 1
           /\ UNCHANGED stored /\ \A z \in Saves \ {s} : Same(z)
  BY <1>3, IdSteps DEF Active
<1>4. ASSUME NEW r \in Rows PROVE
        \/ stored'[r].ids \subseteq stored[r].ids
        \/ \E s \in Saves : /\ Active(s) /\ ~Active(s)'
                            /\ stored'[r].ids \subseteq stored[r].ids \cup {txn[s].id}
  <2>1. \/ stored'[r] = stored[r]
        \/ \E s \in Saves : /\ txn[s].step = "writing" /\ txn'[s].step = "done"
                            /\ stored'[r] = Written(s, r)
    BY IdSteps
  <2>2. QED
    BY <2>1, WrittenIds DEF Active
<1>5. ASSUME NEW s \in Saves, NEW r \in Rows PROVE txn'[s].read[r] \in {{}, txn[s].read[r], stored[r].ids}
  BY IdSteps
<1>6. \A s \in Saves : Active(s)' => txn'[s].id \in 1 .. spent'.posts
  BY <1>0, <1>1, <1>3 DEF IdsDrawn
<1>7. \A r \in Rows : stored'[r].ids \subseteq Drawn'
  <2> TAKE r \in Rows
  <2>1. \A s \in Saves : Active(s) => txn[s].id \in Drawn
    BY DEF IdsDrawn, Drawn
  <2>2. stored[r].ids \subseteq Drawn
    BY DEF IdsDrawn
  <2>3. QED
    BY <1>1, <1>4, <2>1, <2>2
<1>8. \A s \in Saves, r \in Rows : txn'[s].read[r] \subseteq Drawn'
  BY <1>1, <1>5 DEF IdsDrawn
<1>9. IdsDrawn'
  BY <1>6, <1>7, <1>8 DEF IdsDrawn
<1>10. ASSUME NEW s \in Saves, Active(s)' PROVE
         /\ \A z \in Saves \ {s} : Active(z)' => txn'[z].id # txn'[s].id
         /\ \A r \in Rows : txn'[s].id \notin stored'[r].ids
         /\ \A z \in Saves, r \in Rows : txn'[s].id \notin txn'[z].read[r]
  <2>1. CASE Active(s) /\ txn'[s].id = txn[s].id
    <3>1. txn[s].id \in 1 .. spent.posts
      BY <2>1 DEF IdsDrawn
    <3>2. \A z \in Saves \ {s} : Active(z)' => txn'[z].id # txn'[s].id
      <4> SUFFICES ASSUME NEW z \in Saves \ {s}, Active(z)' PROVE txn'[z].id # txn'[s].id
        OBVIOUS
      <4>1. CASE Active(z) /\ txn'[z].id = txn[z].id
        BY <2>1, <4>1 DEF IdsFresh
      <4>2. CASE txn'[z].id = spent.posts + 1
        BY <1>0, <2>1, <3>1, <4>2
      <4>3. QED
        BY <1>3, <4>1, <4>2
    <3>3. \A r \in Rows : txn'[s].id \notin stored'[r].ids
      <4> TAKE r \in Rows
      <4>1. txn[s].id \notin stored[r].ids
        BY <2>1 DEF IdsFresh
      <4>2. \A z \in Saves : Active(z) /\ ~Active(z)' => txn[z].id # txn[s].id
        BY <1>10, <2>1 DEF IdsFresh
      <4>3. QED
        BY <1>4, <2>1, <4>1, <4>2
    <3>4. \A z \in Saves, r \in Rows : txn'[s].id \notin txn'[z].read[r]
      <4> TAKE z \in Saves, r \in Rows
      <4>1. txn[s].id \notin stored[r].ids /\ txn[s].id \notin txn[z].read[r]
        BY <2>1 DEF IdsFresh
      <4>2. QED
        BY <1>5, <2>1, <4>1
    <3>5. QED
      BY <3>2, <3>3, <3>4
  <2>2. CASE /\ txn'[s].id = spent.posts + 1 /\ UNCHANGED stored /\ \A z \in Saves \ {s} : Same(z)
    <3>1. \A z \in Saves \ {s} : Active(z)' => txn'[z].id # txn'[s].id
      BY <1>0, <2>2 DEF Same, Active, IdsDrawn
    <3>2. \A r \in Rows : txn'[s].id \notin stored'[r].ids
      BY <1>2, <2>2 DEF IdsDrawn
    <3>3. \A z \in Saves, r \in Rows : txn'[s].id \notin txn'[z].read[r]
      BY <1>2, <1>5, <2>2 DEF IdsDrawn
    <3>4. QED
      BY <3>1, <3>2, <3>3
  <2>3. QED
    BY <1>3, <1>10, <2>1, <2>2
<1>11. QED
  BY <1>9, <1>10 DEF IdsFresh

LEMMA ShapesStep == EditTypeOK /\ IdsDrawn /\ Shapes /\ Locks /\ [EditNext]_editVars => Shapes'
<1> SUFFICES ASSUME EditTypeOK, IdsDrawn, Shapes, Locks, [EditNext]_editVars PROVE Shapes'
  OBVIOUS
<1>1. ASSUME NEW r \in Rows PROVE Shape(stored'[r].ids)
  <2>1. CASE stored'[r] = stored[r]
    BY <2>1 DEF Shapes
  <2>2. ASSUME NEW s \in Saves, txn[s].step = "writing", r \in txn[s].mine, stored'[r] = Written(s, r)
        PROVE Shape(stored'[r].ids)
    <3>1. stored[r].ids \ txn[s].read[r] = {}
      BY <2>2 DEF Locks, Replaced
    <3>2. txn[s].id \in 1 .. MaxPosts
      BY <2>2, EditorAssumption DEF IdsDrawn, Active, EditTypeOK, EditorAssumption
    <3>3. QED
      BY <2>2, <3>1, <3>2, WrittenIds DEF Shape
  <2>3. QED
    BY <2>1, <2>2, IdSteps
<1>2. ASSUME NEW s \in Saves, NEW r \in Rows PROVE Shape(txn'[s].read[r])
  <2>1. txn'[s].read[r] \in {{}, txn[s].read[r], stored[r].ids}
    BY IdSteps
  <2>2. QED
    BY <2>1 DEF Shapes, Shape
<1>3. QED
  BY <1>1, <1>2 DEF Shapes

-----------------------------------------------------------------------------
(* The locks: what a save has written is what it had read.                 *)

\* Two months of which one holds the other, and some row: they are the same.
LEMMA ShapesMeet ==
  ASSUME NEW A, NEW B, Shape(A), Shape(B), A # {}, A \subseteq B
  PROVE  A = B
<1>1. Legacy = {-1, -2} /\ \A i \in 1 .. MaxPosts : i # -1 /\ i # -2
  BY EditorAssumption DEF Legacy, EditorAssumption
<1>2. CASE A = Legacy
  BY <1>1, <1>2 DEF Shape
<1>3. CASE \E i \in 1 .. MaxPosts : A = {i}
  BY <1>1, <1>3 DEF Shape
<1>4. QED
  BY <1>2, <1>3 DEF Shape

\* What a slot says of itself, and of the row it will write or has written.
Own(s) ==
  /\ txn[s].step # "writing" => txn[s].todo = {} /\ txn[s].mine = {}
  /\ txn[s].todo \cup txn[s].mine \subseteq Edited(s)
  /\ \A t \in txn[s].todo, m \in txn[s].mine : m < t

Awaits(s, r) ==
  /\ txn[s].read[r] = {} => txn[s].items[r].previous = NULL /\ stored[r].ids \cap Legacy = {}
  /\ (txn[s].read[r] # {} /\ txn[s].read[r] \subseteq stored[r].ids)
       => stored[r].value = txn[s].items[r].previous

Replaces(s, r) ==
  stored[r].ids = txn[s].read[r] /\ stored[r].value = txn[s].items[r].previous

Apart(s, z) == txn[s].mine \cap txn[z].mine = {}

LEMMA LocksAre ==
  Locks <=> /\ \A s \in Saves : Own(s)
            /\ \A s \in Saves, z \in Saves : s # z => Apart(s, z)
            /\ \A s \in Saves : \A r \in txn[s].todo : Awaits(s, r)
            /\ \A s \in Saves : \A r \in txn[s].mine : Replaces(s, r)
  BY DEF Locks, Writing, Unwritten, Replaced, Own, Apart, Awaits, Replaces

\* A slot that keeps its items keeps the rows it changes.
LEMMA EditedKept ==
  ASSUME NEW s \in Saves, txn'[s].items = txn[s].items
  PROVE  Edited(s)' = Edited(s)
  BY DEF Edited, Posted

\* Steps after which the rows are the same and every slot has at most given up.
LEMMA LocksQuiet ==
  ASSUME Locks, UNCHANGED stored,
         \A s \in Saves : \/ Same(s)
                          \/ txn'[s].step # "writing" /\ txn'[s].todo = {} /\ txn'[s].mine = {}
  PROVE  Locks'
<1>1. ASSUME NEW s \in Saves PROVE Own(s)'
  BY LocksAre, EditedKept DEF Own, Same
<1>2. ASSUME NEW s \in Saves, NEW z \in Saves, s # z PROVE Apart(s, z)'
  BY <1>2, LocksAre DEF Apart, Same
<1>3. ASSUME NEW s \in Saves, NEW r \in txn'[s].todo PROVE Awaits(s, r)'
  <2>1. Same(s) /\ r \in txn[s].todo
    BY <1>3 DEF Same
  <2>2. Awaits(s, r)
    BY <2>1, LocksAre
  <2>3. QED
    BY <2>1, <2>2 DEF Awaits, Same
<1>4. ASSUME NEW s \in Saves, NEW r \in txn'[s].mine PROVE Replaces(s, r)'
  <2>1. Same(s) /\ r \in txn[s].mine
    BY <1>4 DEF Same
  <2>2. Replaces(s, r)
    BY <2>1, LocksAre
  <2>3. QED
    BY <2>1, <2>2 DEF Replaces, Same
<1>5. QED
  BY <1>1, <1>2, <1>3, <1>4 DEF Locks, Writing, Unwritten, Replaced, Own, Apart, Awaits, Replaces

LEMMA LocksRead ==
  ASSUME EditTypeOK, Locks, NEW s \in Saves, ReadRows(s)
  PROVE  Locks'
<1>1. CASE txn'[s].step \in {"conflict", "error"} /\ txn'[s].todo = txn[s].todo
  <2>1. txn[s].todo = {} /\ txn[s].mine = {} /\ txn'[s].mine = txn[s].mine
    BY ReadEffect DEF Locks, Writing
  <2>2. \A z \in Saves \ {s} : Same(z)
    BY ReadEffect DEF Others, Same
  <2>3. QED
    BY <1>1, <2>1, <2>2, ReadEffect, LocksQuiet
<1>2. CASE /\ ~Stale(s) /\ ~Gone(s) /\ ~NotOpen(s)
           /\ txn'[s].step = "writing" /\ txn'[s].todo = Edited(s)
           /\ txn'[s].read = [r \in Rows |-> IF r \in Edited(s) THEN stored[r].ids ELSE {}]
  <2>0. /\ txn'[s].items = txn[s].items /\ txn'[s].mine = txn[s].mine /\ txn[s].mine = {}
        /\ UNCHANGED stored /\ \A z \in Saves \ {s} : txn'[z] = txn[z]
    BY ReadEffect DEF Locks, Writing, Others
  <2>1. ASSUME NEW z \in Saves PROVE Own(z)'
    BY <1>2, <2>0, LocksAre, EditedKept DEF Own
  <2>2. ASSUME NEW z \in Saves, NEW y \in Saves, z # y PROVE Apart(z, y)'
    BY <2>0, <2>2, LocksAre DEF Apart
  <2>3. ASSUME NEW z \in Saves, NEW r \in txn'[z].todo PROVE Awaits(z, r)'
    <3>1. CASE z # s
      BY <2>0, <2>3, <3>1, LocksAre DEF Awaits
    <3>2. CASE z = s
      <4>1. r \in Edited(s) /\ r \in Rows
        BY <1>2, <2>3, <3>2 DEF Edited, Posted
      <4>2. txn'[s].read[r] = stored[r].ids
        BY <1>2, <4>1
      <4>3. stored[r].ids = {} <=> stored[r].value = NULL
        BY <4>1 DEF EditTypeOK
      <4>4. stored[r].value = txn[s].items[r].previous
        <5>1. CASE r \notin Closed(s)
          BY <1>2, <4>1, <5>1 DEF Stale
        <5>2. CASE r \in Closed(s)
          BY <1>2, <4>1, <5>2 DEF Gone, NotOpen, Edited
        <5>3. QED
          BY <5>1, <5>2
      <4>5. QED
        BY <2>0, <3>2, <4>2, <4>3, <4>4 DEF Awaits
    <3>3. QED
      BY <3>1, <3>2
  <2>4. ASSUME NEW z \in Saves, NEW r \in txn'[z].mine PROVE Replaces(z, r)'
    BY <2>0, <2>4, LocksAre DEF Replaces
  <2>5. QED
    BY <2>1, <2>2, <2>3, <2>4 DEF Locks, Writing, Unwritten, Replaced, Own, Apart, Awaits, Replaces
<1>3. QED
  BY <1>1, <1>2, ReadEffect

LEMMA LocksWrite ==
  ASSUME EditTypeOK, Shapes, Locks, NEW s \in Saves, NEW r \in Rows, WriteRow(s, r)
  PROVE  Locks'
<1>0. /\ UNCHANGED stored /\ \A z \in Saves \ {s} : txn'[z] = txn[z] /\ Same(z)
  BY WriteEffect DEF Others, Same
<1>1. CASE txn'[s].step = "conflict" /\ txn'[s].todo = {} /\ txn'[s].mine = {}
  BY <1>0, <1>1, LocksQuiet
<1>2. CASE /\ Writable(s, r) /\ txn'[s].step = "writing"
           /\ txn'[s].todo = txn[s].todo \ {r} /\ txn'[s].mine = txn[s].mine \cup {r}
  <2>0. /\ txn[s].step = "writing" /\ txn'[s].items = txn[s].items /\ txn'[s].read = txn[s].read
        /\ r \in txn[s].todo /\ \A k \in txn[s].todo : r <= k
        /\ \A z \in Saves \ {s} : r \notin txn[z].mine
    BY WriteEffect DEF NextRows, Held
  <2>1. ASSUME NEW z \in Saves PROVE Own(z)'
    <3>1. CASE z # s
      BY <1>0, <3>1, LocksAre, EditedKept DEF Own
    <3>2. CASE z = s
      <4>1. Own(s) /\ Edited(s)' = Edited(s)
        BY <2>0, LocksAre, EditedKept
      <4>2. txn[s].todo \subseteq Int
        BY EditorAssumption DEF EditTypeOK, Rows, EditorAssumption
      <4>3. \A t \in txn'[s].todo, m \in txn'[s].mine : m < t
        BY <1>2, <2>0, <4>1, <4>2 DEF Own
      <4>4. QED
        BY <1>2, <2>0, <3>2, <4>1, <4>3 DEF Own
    <3>3. QED
      BY <3>1, <3>2
  <2>2. ASSUME NEW z \in Saves, NEW y \in Saves, z # y PROVE Apart(z, y)'
    BY <1>0, <1>2, <2>0, <2>2, LocksAre DEF Apart
  <2>3. ASSUME NEW z \in Saves, NEW q \in txn'[z].todo PROVE Awaits(z, q)'
    <3>1. q \in txn[z].todo /\ txn'[z].items = txn[z].items /\ txn'[z].read = txn[z].read
      BY <1>0, <1>2, <2>0, <2>3
    <3>2. Awaits(z, q)
      BY <3>1, LocksAre
    <3>3. QED
      BY <1>0, <3>1, <3>2 DEF Awaits
  <2>4. Replaces(s, r)
    <3>1. Awaits(s, r) /\ Own(s)
      BY <2>0, LocksAre
    <3>2. CASE txn[s].read[r] # {}
      <4>1. txn[s].read[r] \subseteq stored[r].ids
        BY <1>2 DEF Writable
      <4>2. stored[r].ids = txn[s].read[r]
        BY <3>2, <4>1, ShapesMeet DEF Shapes
      <4>3. QED
        BY <3>1, <3>2, <4>1, <4>2 DEF Awaits, Replaces
    <3>3. CASE txn[s].read[r] = {}
      <4>1. txn[s].items[r].previous = NULL /\ stored[r].ids \cap Legacy = {}
        BY <3>1, <3>3 DEF Awaits
      <4>2. txn[s].items[r].value # NULL
        BY <2>0, <3>1, <4>1 DEF Own, Edited
      <4>3. stored[r].ids = {}
        BY <1>2, <3>3, <4>1, <4>2 DEF Writable
      <4>4. QED
        BY <3>3, <4>1, <4>3 DEF Replaces, EditTypeOK
    <3>4. QED
      BY <3>2, <3>3
  <2>5. ASSUME NEW z \in Saves, NEW q \in txn'[z].mine PROVE Replaces(z, q)'
    <3>1. txn'[z].items = txn[z].items /\ txn'[z].read = txn[z].read
      BY <1>0, <2>0
    <3>2. Replaces(z, q)
      <4>1. CASE q \in txn[z].mine
        BY <4>1, LocksAre
      <4>2. CASE q \notin txn[z].mine
        BY <1>0, <1>2, <2>4, <2>5, <4>2
      <4>3. QED
        BY <4>1, <4>2
    <3>3. QED
      BY <1>0, <3>1, <3>2 DEF Replaces
  <2>6. QED
    BY <2>1, <2>2, <2>3, <2>5 DEF Locks, Writing, Unwritten, Replaced, Own, Apart, Awaits, Replaces
<1>3. QED
  BY <1>1, <1>2, WriteEffect

LEMMA LocksCommit ==
  ASSUME EditTypeOK, IdsDrawn, IdsFresh, Locks, NEW s \in Saves, Commit(s)
  PROVE  Locks'
<1>0. /\ txn[s].step = "writing" /\ txn'[s].step = "done" /\ txn'[s].mine = {} /\ txn'[s].todo = {}
      /\ \A z \in Saves \ {s} : txn'[z] = txn[z]
      /\ \A r \in Rows : stored'[r] = IF r \in txn[s].mine THEN Written(s, r) ELSE stored[r]
  BY CommitEffect DEF Others
<1>r. \A z \in Saves : txn[z].todo \subseteq Rows /\ txn[z].mine \subseteq Rows
  BY DEF EditTypeOK
<1>1. ASSUME NEW z \in Saves PROVE Own(z)'
  <2>1. CASE z = s
    BY <1>0, <2>1 DEF Own
  <2>2. CASE z # s
    BY <1>0, <2>2, LocksAre, EditedKept DEF Own
  <2>3. QED
    BY <2>1, <2>2
<1>2. ASSUME NEW z \in Saves, NEW y \in Saves, z # y PROVE Apart(z, y)'
  BY <1>0, <1>2, LocksAre DEF Apart
<1>3. ASSUME NEW z \in Saves, NEW r \in txn'[z].todo PROVE Awaits(z, r)'
  <2>1. z # s /\ txn'[z] = txn[z] /\ r \in txn[z].todo /\ r \in Rows
    BY <1>0, <1>3, <1>r
  <2>2. Awaits(z, r)
    BY <2>1, LocksAre
  <2>3. CASE r \notin txn[s].mine
    BY <1>0, <2>1, <2>2, <2>3 DEF Awaits
  <2>4. CASE r \in txn[s].mine
    <3>1. stored'[r].ids = {} \/ stored'[r].ids = {txn[s].id}
      <4>1. Replaces(s, r)
        BY <2>4, LocksAre
      <4>2. QED
        BY <1>0, <2>1, <2>4, <4>1, WrittenIds DEF Replaces
    <3>2. txn[s].id \notin Legacy
      BY <1>0, EditorAssumption DEF IdsDrawn, Active, Legacy
    <3>3. txn[s].id \notin txn[z].read[r]
      BY <1>0, <2>1 DEF IdsFresh, Active
    <3>4. QED
      BY <2>1, <2>2, <3>1, <3>2, <3>3 DEF Awaits
  <2>5. QED
    BY <2>3, <2>4
<1>4. ASSUME NEW z \in Saves, NEW r \in txn'[z].mine PROVE Replaces(z, r)'
  <2>1. z # s /\ txn'[z] = txn[z] /\ r \in txn[z].mine /\ r \in Rows
    BY <1>0, <1>4, <1>r
  <2>2. r \notin txn[s].mine
    BY <2>1, LocksAre DEF Apart
  <2>3. QED
    BY <1>0, <2>1, <2>2, LocksAre DEF Replaces
<1>5. QED
  BY <1>1, <1>2, <1>3, <1>4 DEF Locks, Writing, Unwritten, Replaced, Own, Apart, Awaits, Replaces

LEMMA LocksStep == EditTypeOK /\ IdsDrawn /\ IdsFresh /\ Shapes /\ Locks /\ [EditNext]_editVars => Locks'
<1> SUFFICES ASSUME EditTypeOK, IdsDrawn, IdsFresh, Shapes, Locks, [EditNext]_editVars PROVE Locks'
  OBVIOUS
<1>1. CASE EditQuiet
  BY <1>1, LocksQuiet DEF EditQuiet, FreeSlot
<1>2. ASSUME NEW e \in Editors, NEW s \in Saves, Save(e, s) PROVE Locks'
  <2>1. \A z \in Saves \ {s} : Same(z)
    BY <1>2, SaveEffect DEF Others, Same
  <2>2. QED
    BY <1>2, <2>1, SaveEffect, LocksQuiet
<1>3. ASSUME NEW s \in Saves, HandlerFails(s) PROVE Locks'
  <2>1. \A z \in Saves \ {s} : Same(z)
    BY <1>3, FailEffect DEF Others, Same
  <2>2. QED
    BY <1>3, <2>1, FailEffect, LocksQuiet
<1>4. QED
  BY <1>1, <1>2, <1>3, LocksRead, LocksWrite, LocksCommit, StepKinds

-----------------------------------------------------------------------------
(* Drafts, types, and the theorems.                                        *)

Backed(e) == ~page[e].timer /\ ~page[e].refused => \A r \in Changed(e) : draft[e][r] = DraftOf(e)[r]

LEMMA BackedStep == EditTypeOK /\ Form /\ TypingIsBacked /\ [EditNext]_editVars => TypingIsBacked'
<1> SUFFICES ASSUME EditTypeOK, Form, TypingIsBacked, [EditNext]_editVars, NEW e \in Editors PROVE Backed(e)'
  BY DEF TypingIsBacked, Backed
<1>0. /\ page \in [Editors -> [mode : Modes, shown : [Rows -> Shown], cells : [Rows -> Shown],
                               timer : BOOLEAN, refused : BOOLEAN]]
      /\ draft \in [Editors -> [Rows -> Item \cup {Nothing}]]
      /\ over \in [Editors -> [Rows -> Shown]]
  BY DEF EditTypeOK
<1>b. Backed(e)
  BY DEF TypingIsBacked, Backed
\* A page whose rows, typing and draft stay is backed as before.
<1>k. ASSUME page'[e].shown = page[e].shown, page'[e].cells = page[e].cells, over'[e] = over[e],
             draft'[e] = draft[e],
             ~page'[e].timer /\ ~page'[e].refused => ~page[e].timer /\ ~page[e].refused
      PROVE  Backed(e)'
  <2>1. Changed(e)' = Changed(e) /\ DraftOf(e)' = DraftOf(e)
    BY <1>k DEF Changed, DraftOf
  <2>2. QED
    BY <1>b, <1>k, <2>1 DEF Backed
\* A page with nothing typed has nothing to back.
<1>n. ASSUME page'[e].cells = page'[e].shown PROVE Backed(e)'
  BY <1>n DEF Backed, Changed
<1>1. ASSUME NEW f \in Editors, Load(f) PROVE Backed(e)'
  <2>1. CASE e # f
    <3>1. page'[e] = page[e] /\ over'[e] = over[e] /\ draft'[e] = draft[e]
      BY <1>0, <1>1, <2>1 DEF Load
    <3>2. QED
      BY <1>k, <3>1
  <2>2. CASE e = f
    <3> DEFINE back == Restorable(f, Snapshot)
    <3>1. /\ page'[f].shown = Snapshot
          /\ page'[f].cells = [q \in Rows |-> IF q \in back THEN draft[f][q].value ELSE Snapshot[q]]
          /\ over'[f] = [q \in Rows |-> IF q \in back THEN draft[f][q].over ELSE Snapshot[q]]
          /\ draft' = IF back = {} /\ Snapshot # NoRows THEN [draft EXCEPT ![f] = NoDraft] ELSE draft
      BY <1>0, <1>1, Zenon DEF Load
    <3>2. \A q \in back : /\ draft[f][q] \in Filled /\ draft[f][q].previous = Snapshot[q]
      BY DEF Form, DraftForm, Restorable
    <3>3. Snapshot = [q \in Rows |-> Snapshot[q]] /\ back \subseteq Rows
      BY DEF Snapshot, Restorable
    <3> HIDE DEF back
    <3>4. CASE back = {}
      BY <1>n, <2>2, <3>1, <3>3, <3>4
    <3>5. CASE back # {}
      <4>1. draft'[e] = draft[e]
        BY <3>1, <3>5
      <4>2. \A q \in Rows \ back : page'[e].cells[q] = page'[e].shown[q]
        BY <2>2, <3>1
      <4>3. ASSUME NEW q \in Changed(e)' PROVE draft'[e][q] = DraftOf(e)'[q]
        <5>1. q \in back /\ q \in Rows
          BY <4>2, <4>3 DEF Changed
        <5>2. DraftOf(e)'[q] = [value |-> page'[e].cells[q], previous |-> page'[e].shown[q],
                                over |-> over'[e][q]]
          BY <4>3, <5>1 DEF DraftOf
        <5>3. /\ page'[e].cells[q] = draft[e][q].value /\ page'[e].shown[q] = draft[e][q].previous
              /\ over'[e][q] = draft[e][q].over
          BY <2>2, <3>1, <3>2, <5>1
        <5>4. draft[e][q] \in [value : Cells, previous : Cells, over : Cells]
          BY <2>2, <3>2, <5>1 DEF Filled
        <5>5. QED
          BY <4>1, <5>2, <5>3, <5>4
      <4>4. QED
        BY <4>3 DEF Backed
    <3>6. QED
      BY <3>4, <3>5
  <2>3. QED
    BY <2>1, <2>2
<1>2. ASSUME NEW f \in Editors, NEW q \in Rows, NEW v \in Cells, Type(f, q, v) PROVE Backed(e)'
  <2>1. CASE e # f
    <3>1. page'[e] = page[e] /\ over'[e] = over[e] /\ draft'[e] = draft[e]
      BY <1>0, <1>2, <2>1 DEF Type
    <3>2. QED
      BY <1>k, <3>1
  <2>2. CASE e = f
    <3>1. page'[e].timer
      BY <1>0, <1>2, <2>2 DEF Type
    <3>2. QED
      BY <3>1 DEF Backed
  <2>3. QED
    BY <2>1, <2>2
<1>3. ASSUME NEW f \in Editors, StoreDraft(f) PROVE Backed(e)'
  <2>1. CASE e # f
    <3>1. page'[e] = page[e] /\ over'[e] = over[e] /\ draft'[e] = draft[e]
      BY <1>0, <1>3, <2>1 DEF StoreDraft
    <3>2. QED
      BY <1>k, <3>1
  <2>2. CASE e = f
    <3>1. /\ page'[e].shown = page[e].shown /\ page'[e].cells = page[e].cells /\ over' = over
          /\ draft'[e] = DraftOf(e)
      BY <1>0, <1>3, <2>2 DEF StoreDraft
    <3>2. Changed(e)' = Changed(e) /\ DraftOf(e)' = DraftOf(e)
      BY <3>1 DEF Changed, DraftOf
    <3>3. QED
      BY <3>1, <3>2 DEF Backed
  <2>3. QED
    BY <2>1, <2>2
<1>4. ASSUME NEW f \in Editors,
             Discard(f) \/ Reload(f) \/ Recover(f) \/ \E s \in Saves : ReceiveSaved(f, s)
      PROVE Backed(e)'
  <2>1. CASE e # f
    <3>1. page'[e] = page[e] /\ over'[e] = over[e] /\ draft'[e] = draft[e]
      BY <1>0, <1>4, <2>1 DEF Discard, Reload, Recover, ReceiveSaved
    <3>2. QED
      BY <1>k, <3>1
  <2>2. CASE e = f
    <3>1. page'[e].cells = page'[e].shown
      BY <1>0, <1>4, <2>2 DEF Discard, Reload, Recover, ReceiveSaved, Rendered, ClosedPage
    <3>2. QED
      BY <1>n, <3>1
  <2>3. QED
    BY <2>1, <2>2
<1>5. ASSUME NEW f \in Editors, NEW s \in Saves, ReceiveConflict(f, s) PROVE Backed(e)'
  <2>1. CASE e # f
    <3>1. page'[e] = page[e] /\ over'[e] = over[e] /\ draft'[e] = draft[e]
      BY <1>0, <1>5, <2>1 DEF ReceiveConflict
    <3>2. QED
      BY <1>k, <3>1
  <2>2. CASE e = f
    <3>1. page'[e].refused
      BY <1>0, <1>5, <2>2 DEF ReceiveConflict
    <3>2. QED
      BY <3>1 DEF Backed
  <2>3. QED
    BY <2>1, <2>2
<1>6. ASSUME NEW f \in Editors,
             RecoverFails(f) \/ \E s \in Saves : Save(f, s) \/ ReceiveError(f, s) \/ SaveFails(f, s)
      PROVE  Backed(e)'
  <2>1. /\ over' = over /\ draft' = draft
        /\ \E mode \in Modes : page' = [page EXCEPT ![f].mode = mode]
    BY <1>6 DEF RecoverFails, Save, ReceiveError, SaveFails, Modes
  <2>2. PICK mode \in Modes : page' = [page EXCEPT ![f].mode = mode]
    BY <2>1
  <2>3. /\ page'[e].shown = page[e].shown /\ page'[e].cells = page[e].cells
        /\ page'[e].timer = page[e].timer /\ page'[e].refused = page[e].refused
    BY <1>0, <2>2
  <2>4. QED
    BY <1>k, <2>1, <2>3
<1>7. ASSUME UNCHANGED <<page, over, draft>> PROVE Backed(e)'
  BY <1>k, <1>7
<1>8. ASSUME NEW s \in Saves, HandlerStep(s) PROVE UNCHANGED <<page, over, draft>>
  BY <1>8 DEF HandlerStep, ReadRows, Commit, HandlerFails, Unread, WriteRow
<1>9. ASSUME NEW q \in Movers, StaffChanges(q) PROVE UNCHANGED <<page, over, draft>>
  BY <1>9 DEF StaffChanges
<1>10. QED
  BY <1>1, <1>2, <1>3, <1>4, <1>5, <1>6, <1>7, <1>8, <1>9 DEF EditNext, PageStep, editVars

LEMMA TypeInit == EditInit => EditTypeOK
<1> SUFFICES ASSUME EditInit PROVE EditTypeOK
  OBVIOUS
<1>0. Starts \subseteq [posts : 0 .. MaxPosts, edits : 0 .. MaxEdits, trouble : 0 .. MaxTrouble]
  BY EditorAssumption DEF EditorAssumption
<1>1. /\ stored \in [Rows -> [ids : SUBSET Ids, value : Cells]]
      /\ \A r \in Rows : stored[r].ids = {} <=> stored[r].value = NULL
  <2>1. stored \in [Rows -> {Empty} \cup [ids : {Legacy}, value : Values]]
    BY DEF EditInit
  <2>2. Legacy # {} /\ NULL \notin Values
    BY EditorAssumption DEF EditorAssumption, Legacy
  <2>3. \A x \in {Empty} \cup [ids : {Legacy}, value : Values] :
          x \in [ids : SUBSET Ids, value : Cells] /\ (x.ids = {} <=> x.value = NULL)
    BY <2>2 DEF Empty, Ids, Cells
  <2>4. QED
    BY <2>1, <2>3
<1>2. NoRows \in [Rows -> Shown] /\ NoDraft \in [Rows -> Item \cup {Nothing}]
  BY DEF NoRows, NoDraft, Shown
<1>3. FreeSlot \in Slot
  <2>1. NoItem \in Item
    BY DEF NoItem, Item, Shown
  <2>2. 0 \in 0 .. MaxPosts
    BY EditorAssumption DEF EditorAssumption
  <2>3. QED
    BY <2>1, <2>2 DEF FreeSlot, Slot
<1>4. ClosedPage \in [mode : Modes, shown : [Rows -> Shown], cells : [Rows -> Shown],
                      timer : BOOLEAN, refused : BOOLEAN]
  BY <1>2 DEF ClosedPage, Modes
<1>5. /\ txn \in [Saves -> Slot] /\ active \subseteq Rows
      /\ over \in [Editors -> [Rows -> Shown]] /\ draft \in [Editors -> [Rows -> Item \cup {Nothing}]]
  BY <1>2, <1>3 DEF EditInit
<1>6. page \in [Editors -> [mode : Modes, shown : [Rows -> Shown], cells : [Rows -> Shown],
                           timer : BOOLEAN, refused : BOOLEAN]]
  BY <1>4 DEF EditInit
<1>7. spent \in [posts : 0 .. MaxPosts, edits : 0 .. MaxEdits, trouble : 0 .. MaxTrouble]
  BY <1>0 DEF EditInit
<1>8. QED
  BY <1>1, <1>5, <1>6, <1>7 DEF EditTypeOK, Slot

\* The table after a commit: what is written has a value, or nothing at all.
LEMMA StoredTypeStep ==
  EditTypeOK /\ Form /\ IdsDrawn /\ Locks /\ [EditNext]_editVars =>
    /\ stored' \in [Rows -> [ids : SUBSET Ids, value : Cells]]
    /\ \A r \in Rows : stored'[r].ids = {} <=> stored'[r].value = NULL
<1> SUFFICES ASSUME EditTypeOK, Form, IdsDrawn, Locks, [EditNext]_editVars
             PROVE  /\ stored' \in [Rows -> [ids : SUBSET Ids, value : Cells]]
                    /\ \A r \in Rows : stored'[r].ids = {} <=> stored'[r].value = NULL
  OBVIOUS
<1>0. /\ stored \in [Rows -> [ids : SUBSET Ids, value : Cells]]
      /\ \A r \in Rows : stored[r].ids = {} <=> stored[r].value = NULL
  BY DEF EditTypeOK
<1>1. ASSUME NEW s \in Saves, Commit(s)
      PROVE  /\ stored' \in [Rows -> [ids : SUBSET Ids, value : Cells]]
             /\ \A r \in Rows : stored'[r].ids = {} <=> stored'[r].value = NULL
  <2>1. /\ txn[s].step = "writing"
        /\ stored' = [r \in Rows |-> IF r \in txn[s].mine THEN Written(s, r) ELSE stored[r]]
    BY <1>1, CommitEffect
  <2>2. ASSUME NEW r \in Rows, r \in txn[s].mine
        PROVE  /\ Written(s, r) \in [ids : SUBSET Ids, value : Cells]
               /\ Written(s, r).ids = {} <=> Written(s, r).value = NULL
    <3>1. txn[s].items[r] # NoItem
      BY <2>2, LocksAre DEF Own, Edited, Posted
    <3>2. txn[s].items[r].value \in Cells
      BY <3>1 DEF Form, ItemForm
    <3>3. txn[s].id \in Ids
      BY <2>1, EditorAssumption DEF IdsDrawn, Active, EditTypeOK, Ids, EditorAssumption
    <3>4. stored[r].ids \subseteq Ids
      BY <1>0
    <3>5. Written(s, r) \in [ids : SUBSET Ids, value : Cells]
      BY <3>2, <3>3, <3>4 DEF Written, Empty, Cells
    <3>6. QED
      BY <3>5, WrittenIds
  <2>3. QED
    BY <1>0, <2>1, <2>2
<1>2. CASE EditQuiet
  BY <1>0, <1>2 DEF EditQuiet
<1>3. QED
  <2>1. ASSUME UNCHANGED stored
        PROVE  /\ stored' \in [Rows -> [ids : SUBSET Ids, value : Cells]]
               /\ \A r \in Rows : stored'[r].ids = {} <=> stored'[r].value = NULL
    BY <1>0, <2>1
  <2>2. ASSUME NEW e \in Editors, NEW s \in Saves, Save(e, s) PROVE UNCHANGED stored
    BY <2>2, SaveEffect
  <2>3. ASSUME NEW s \in Saves, ReadRows(s) \/ HandlerFails(s) PROVE UNCHANGED stored
    BY <2>3, ReadEffect, FailEffect
  <2>4. ASSUME NEW s \in Saves, NEW r \in Rows, WriteRow(s, r) PROVE UNCHANGED stored
    BY <2>4, WriteEffect
  <2>5. QED
    BY <1>1, <1>2, <2>1, <2>2, <2>3, <2>4, StepKinds

\* The slots.
LEMMA SlotTypeStep ==
  EditTypeOK /\ [EditNext]_editVars => txn' \in [Saves -> Slot]
<1> SUFFICES ASSUME EditTypeOK, [EditNext]_editVars PROVE txn' \in [Saves -> Slot]
  OBVIOUS
<1>0. /\ txn \in [Saves -> Slot] /\ MaxPosts \in Nat
      /\ page \in [Editors -> [mode : Modes, shown : [Rows -> Shown], cells : [Rows -> Shown],
                               timer : BOOLEAN, refused : BOOLEAN]]
      /\ over \in [Editors -> [Rows -> Shown]]
      /\ spent.posts \in 0 .. MaxPosts
      /\ \A r \in Rows : stored[r].ids \in SUBSET Ids
  BY EditorAssumption DEF EditTypeOK, Slot, EditorAssumption
<1>n. NoItem \in Item
  BY DEF NoItem, Item, Shown
<1>f. FreeSlot \in Slot
  BY <1>0, <1>n DEF FreeSlot, Slot
<1>1. ASSUME NEW e \in Editors, NEW s \in Saves, Save(e, s) PROVE txn' \in [Saves -> Slot]
  <2>1. Items(e) \in [Rows -> Item]
    BY <1>0, <1>n DEF Items, Item
  <2> DEFINE new == [FreeSlot EXCEPT !.step = "sent", !.by = e, !.id = spent.posts + 1, !.items = Items(e)]
  <2>2. new \in Slot
    <3>1. spent.posts + 1 \in 0 .. MaxPosts
      BY <1>0, <1>1 DEF Save
    <3>2. QED
      BY <1>f, <2>1, <3>1 DEF Slot
  <2>3. txn' = [txn EXCEPT ![s] = new]
    BY <1>1 DEF Save
  <2> HIDE DEF new
  <2>4. QED
    BY <1>0, <2>2, <2>3
<1>2. ASSUME NEW s \in Saves, ReadRows(s) PROVE txn' \in [Saves -> Slot]
  <2> DEFINE ids == [r \in Rows |-> IF r \in Edited(s) THEN stored[r].ids ELSE {}]
             new == IF Gone(s) THEN [txn[s] EXCEPT !.step = "conflict"]
                    ELSE IF NotOpen(s) THEN [txn[s] EXCEPT !.step = "error"]
                    ELSE IF Stale(s) THEN [txn[s] EXCEPT !.step = "conflict"]
                    ELSE [txn[s] EXCEPT !.step = "writing", !.todo = Edited(s), !.read = ids]
  <2>1. txn' = [txn EXCEPT ![s] = new]
    BY <1>2 DEF ReadRows
  <2>2. new \in Slot
    <3>1. ids \in [Rows -> SUBSET Ids] /\ Edited(s) \in SUBSET Rows
      BY <1>0 DEF Edited, Posted
    <3>2. txn[s] \in Slot
      BY <1>0
    <3> HIDE DEF ids
    <3>3. /\ [txn[s] EXCEPT !.step = "conflict"] \in Slot /\ [txn[s] EXCEPT !.step = "error"] \in Slot
      BY <3>2 DEF Slot
    <3>4. [txn[s] EXCEPT !.step = "writing", !.todo = Edited(s), !.read = ids] \in Slot
      BY <3>1, <3>2 DEF Slot
    <3>5. QED
      BY <3>3, <3>4, Zenon
  <2> HIDE DEF new
  <2>3. QED
    BY <1>0, <2>1, <2>2
<1>3. ASSUME NEW s \in Saves, NEW r \in Rows, WriteRow(s, r) PROVE txn' \in [Saves -> Slot]
  <2> DEFINE new == IF Writable(s, r)
                    THEN [txn[s] EXCEPT !.todo = @ \ {r}, !.mine = @ \cup {r}]
                    ELSE [txn[s] EXCEPT !.step = "conflict", !.todo = {}, !.mine = {}]
  <2>1. txn' = [txn EXCEPT ![s] = new]
    BY <1>3 DEF WriteRow
  <2>2. new \in Slot
    <3>1. txn[s] \in Slot
      BY <1>0
    <3>2. [txn[s] EXCEPT !.todo = @ \ {r}, !.mine = @ \cup {r}] \in Slot
      BY <3>1 DEF Slot
    <3>3. [txn[s] EXCEPT !.step = "conflict", !.todo = {}, !.mine = {}] \in Slot
      BY <3>1 DEF Slot
    <3>4. QED
      BY <3>2, <3>3, Zenon
  <2> HIDE DEF new
  <2>3. QED
    BY <1>0, <2>1, <2>2
<1>4. ASSUME NEW s \in Saves, Commit(s) PROVE txn' \in [Saves -> Slot]
  <2> DEFINE new == [txn[s] EXCEPT !.step = "done", !.mine = {}]
  <2>1. txn' = [txn EXCEPT ![s] = new]
    BY <1>0, <1>4 DEF Commit
  <2>2. new \in Slot
    <3>1. txn[s] \in Slot
      BY <1>0
    <3>2. QED
      BY <3>1 DEF Slot
  <2> HIDE DEF new
  <2>3. QED
    BY <1>0, <2>1, <2>2
<1>5. ASSUME NEW s \in Saves, HandlerFails(s) PROVE txn' \in [Saves -> Slot]
  <2> DEFINE new == [txn[s] EXCEPT !.step = "error", !.todo = {}, !.mine = {}]
  <2>1. txn' = [txn EXCEPT ![s] = new]
    BY <1>0, <1>5 DEF HandlerFails
  <2>2. new \in Slot
    <3>1. txn[s] \in Slot
      BY <1>0
    <3>2. QED
      BY <3>1 DEF Slot
  <2> HIDE DEF new
  <2>3. QED
    BY <1>0, <2>1, <2>2
<1>6. ASSUME NEW s \in Saves, Unread(s) PROVE txn' \in [Saves -> Slot]
  BY <1>0, <1>f, <1>6 DEF Unread
<1>7. ASSUME NEW e \in Editors, NEW s \in Saves,
             ReceiveSaved(e, s) \/ ReceiveConflict(e, s) \/ ReceiveError(e, s)
      PROVE  txn' \in [Saves -> Slot]
  BY <1>0, <1>f, <1>7 DEF ReceiveSaved, ReceiveConflict, ReceiveError
<1>8. ASSUME NEW e \in Editors, NEW s \in Saves, SaveFails(e, s) PROVE txn' \in [Saves -> Slot]
  <2> DEFINE new == [txn[s] EXCEPT !.by = NULL]
  <2>1. txn' = [txn EXCEPT ![s] = new]
    BY <1>0, <1>8 DEF SaveFails
  <2>2. new \in Slot
    <3>1. txn[s] \in Slot
      BY <1>0
    <3>2. QED
      BY <3>1 DEF Slot
  <2> HIDE DEF new
  <2>3. QED
    BY <1>0, <2>1, <2>2
<1>9. ASSUME NEW e \in Editors, Reload(e) PROVE txn' \in [Saves -> Slot]
  <2>1. ASSUME NEW s \in Saves PROVE Abandoned(e)[s] \in Slot
    <3>1. txn[s] \in Slot
      BY <1>0
    <3>2. [txn[s] EXCEPT !.by = NULL] \in Slot
      BY <3>1 DEF Slot
    <3>3. Abandoned(e)[s] \in {txn[s], [txn[s] EXCEPT !.by = NULL]}
      BY DEF Abandoned
    <3>4. QED
      BY <3>1, <3>2, <3>3
  <2>2. txn' = Abandoned(e) /\ Abandoned(e) = [s \in Saves |-> Abandoned(e)[s]]
    BY <1>9 DEF Reload, Abandoned
  <2>3. QED
    BY <2>1, <2>2
<1>10. ASSUME UNCHANGED txn PROVE txn' \in [Saves -> Slot]
  BY <1>0, <1>10
<1>11. ASSUME NEW e \in Editors, PageStep(e)
       PROVE  \/ UNCHANGED txn \/ Reload(e)
              \/ \E s \in Saves : Save(e, s) \/ ReceiveSaved(e, s) \/ ReceiveConflict(e, s)
                                  \/ ReceiveError(e, s) \/ SaveFails(e, s)
  BY <1>11 DEF PageStep, Load, Type, StoreDraft, Discard, Recover, RecoverFails
<1>12. ASSUME NEW q \in Movers, StaffChanges(q) PROVE UNCHANGED txn
  BY <1>12 DEF StaffChanges
<1>13. QED
  BY <1>1, <1>2, <1>3, <1>4, <1>5, <1>6, <1>7, <1>8, <1>9, <1>10, <1>11, <1>12
     DEF EditNext, HandlerStep, editVars

PageType == [mode : Modes, shown : [Rows -> Shown], cells : [Rows -> Shown], timer : BOOLEAN, refused : BOOLEAN]

\* The pages, what was shown when a cell was typed, and the drafts.
LEMMA PageTypeStep ==
  EditTypeOK /\ [EditNext]_editVars =>
    page' \in [Editors -> PageType] /\ over' \in [Editors -> [Rows -> Shown]]
<1> SUFFICES ASSUME EditTypeOK, [EditNext]_editVars
             PROVE page' \in [Editors -> PageType] /\ over' \in [Editors -> [Rows -> Shown]]
  OBVIOUS
<1> DEFINE Goal == page' \in [Editors -> PageType] /\ over' \in [Editors -> [Rows -> Shown]]
<1>0. /\ page \in [Editors -> PageType] /\ over \in [Editors -> [Rows -> Shown]]
      /\ draft \in [Editors -> [Rows -> Item \cup {Nothing}]]
      /\ \A r \in Rows : stored[r].value \in Cells
  BY DEF EditTypeOK, PageType
<1>s. Snapshot \in [Rows -> Shown] /\ NoRows \in [Rows -> Shown]
  BY <1>0 DEF Snapshot, NoRows, Shown
<1>r. ASSUME NEW f \in Editors, NEW loaded \in [Rows -> Shown] PROVE Rendered(f, "editing", loaded) \in PageType
  BY <1>r DEF Rendered, PageType, Modes
<1>c. ClosedPage \in PageType
  BY <1>s DEF ClosedPage, PageType, Modes
<1>1. ASSUME NEW f \in Editors, Load(f) PROVE Goal
  <2> DEFINE back == Restorable(f, Snapshot)
             cells == [r \in Rows |-> IF r \in back THEN draft[f][r].value ELSE Snapshot[r]]
             typed == [r \in Rows |-> IF r \in back THEN draft[f][r].over ELSE Snapshot[r]]
             mode == IF page[f].mode = "opening" THEN "editing" ELSE page[f].mode
             new == [mode |-> mode, shown |-> Snapshot, cells |-> cells,
                     timer |-> back # {} /\ mode = "editing", refused |-> FALSE]
  <2>1. page' = [page EXCEPT ![f] = new] /\ over' = [over EXCEPT ![f] = typed]
    BY <1>1, Zenon DEF Load
  <2>2. \A r \in back : draft[f][r] \in Item
    BY <1>0 DEF Restorable
  <2>3. cells \in [Rows -> Shown] /\ typed \in [Rows -> Shown]
    BY <1>s, <2>2 DEF Item
  <2>4. mode \in Modes
    BY <1>0 DEF PageType, Modes
  <2>5. new \in PageType
    <3> HIDE DEF back, cells, mode
    <3>1. (back # {} /\ mode = "editing") \in BOOLEAN
      OBVIOUS
    <3>2. QED
      BY <1>s, <2>3, <2>4, <3>1 DEF PageType
  <2> HIDE DEF new, typed
  <2>6. QED
    BY <1>0, <2>1, <2>3, <2>5
<1>2. ASSUME NEW f \in Editors, NEW q \in Rows, NEW v \in Cells, Type(f, q, v) PROVE Goal
  <2> DEFINE new == [page[f] EXCEPT !.cells[q] = v, !.timer = TRUE, !.refused = FALSE]
             typed == [over[f] EXCEPT ![q] = page[f].shown[q]]
  <2>1. page' = [page EXCEPT ![f] = new] /\ over' = [over EXCEPT ![f] = typed]
    BY <1>0, <1>2 DEF Type
  <2>2. new \in PageType /\ typed \in [Rows -> Shown]
    <3>1. page[f] \in PageType /\ over[f] \in [Rows -> Shown] /\ v \in Shown
      BY <1>0, <1>2 DEF Shown
    <3>2. QED
      BY <3>1 DEF PageType
  <2> HIDE DEF new, typed
  <2>3. QED
    BY <1>0, <2>1, <2>2
<1>3. ASSUME NEW f \in Editors, NEW new \in PageType, page' = [page EXCEPT ![f] = new],
             NEW loaded \in [Rows -> Shown], over' = over \/ over' = [over EXCEPT ![f] = loaded]
      PROVE  Goal
  BY <1>0, <1>3
<1>4. ASSUME NEW f \in Editors, Discard(f) \/ Recover(f) \/ \E s \in Saves : ReceiveSaved(f, s) PROVE Goal
  <2>1. page[f].shown \in [Rows -> Shown]
    BY <1>0 DEF PageType
  <2>2. \E loaded \in [Rows -> Shown] : /\ page' = [page EXCEPT ![f] = Rendered(f, "editing", loaded)]
                                      /\ over' = [over EXCEPT ![f] = loaded]
    BY <1>4, <1>s, <2>1 DEF Discard, Recover, ReceiveSaved
  <2>3. PICK loaded \in [Rows -> Shown] : /\ page' = [page EXCEPT ![f] = Rendered(f, "editing", loaded)]
                                        /\ over' = [over EXCEPT ![f] = loaded]
    BY <2>2
  <2>4. Rendered(f, "editing", loaded) \in PageType
    BY <1>r
  <2>5. QED
    BY <1>0, <2>3, <2>4
<1>5. ASSUME NEW f \in Editors, Reload(f) PROVE Goal
  BY <1>0, <1>5, <1>c, <1>s DEF Reload
<1>6. ASSUME NEW f \in Editors,
             \/ StoreDraft(f) \/ RecoverFails(f)
             \/ \E s \in Saves : \/ Save(f, s) \/ ReceiveConflict(f, s)
                                 \/ ReceiveError(f, s) \/ SaveFails(f, s)
      PROVE  Goal
  <2>1. over' = over
    BY <1>6 DEF StoreDraft, RecoverFails, Save, ReceiveConflict, ReceiveError, SaveFails
  <2>2. page[f] \in PageType
    BY <1>0
  <2> DEFINE Moved(mode) == [page[f] EXCEPT !.mode = mode]
             refused == [page[f] EXCEPT !.mode = "recovering", !.timer = FALSE, !.refused = TRUE]
             saved == [page[f] EXCEPT !.timer = FALSE]
  <2>3. /\ Moved("editing") \in PageType /\ Moved("saving") \in PageType
        /\ refused \in PageType /\ saved \in PageType
    BY <2>2 DEF PageType, Modes
  <2>4. \/ page' = [page EXCEPT ![f] = Moved("editing")] \/ page' = [page EXCEPT ![f] = Moved("saving")]
        \/ page' = [page EXCEPT ![f] = refused] \/ page' = [page EXCEPT ![f] = saved]
    BY <1>0, <1>6 DEF StoreDraft, RecoverFails, Save, ReceiveConflict, ReceiveError, SaveFails
  <2> HIDE DEF Moved, refused, saved
  <2>5. QED
    BY <1>0, <2>1, <2>3, <2>4
<1>7. ASSUME UNCHANGED <<page, over>> PROVE Goal
  BY <1>0, <1>7
<1>8. ASSUME NEW s \in Saves, HandlerStep(s) PROVE UNCHANGED <<page, over>>
  BY <1>8 DEF HandlerStep, ReadRows, Commit, HandlerFails, Unread, WriteRow
<1>9. ASSUME NEW q \in Movers, StaffChanges(q) PROVE UNCHANGED <<page, over>>
  BY <1>9 DEF StaffChanges
<1> HIDE DEF Goal
<1>10. Goal
  BY <1>1, <1>2, <1>4, <1>5, <1>6, <1>7, <1>8, <1>9 DEF EditNext, PageStep, editVars
<1>11. QED
  BY <1>10 DEF Goal

LEMMA DraftTypeStep == EditTypeOK /\ Form /\ [EditNext]_editVars => draft' \in [Editors -> [Rows -> Item \cup {Nothing}]]
<1> SUFFICES ASSUME EditTypeOK, Form, [EditNext]_editVars PROVE draft' \in [Editors -> [Rows -> Item \cup {Nothing}]]
  OBVIOUS
<1>0. draft \in [Editors -> [Rows -> Item \cup {Nothing}]]
  BY DEF EditTypeOK
<1>1. ASSUME NEW f \in Editors PROVE DraftOf(f) \in [Rows -> Item \cup {Nothing}]
  BY DEF EditTypeOK, DraftOf, Item
<1>2. NoDraft \in [Rows -> Item \cup {Nothing}]
  BY DEF NoDraft
<1>3. ASSUME NEW f \in Editors, PageStep(f)
      PROVE  \/ UNCHANGED draft
             \/ draft' = [draft EXCEPT ![f] = DraftOf(f)]
             \/ draft' = [draft EXCEPT ![f] = NoDraft]
  BY <1>3 DEF PageStep, Load, Type, StoreDraft, Discard, Reload, Recover, RecoverFails, Save, ReceiveSaved,
              ReceiveConflict, ReceiveError, SaveFails
<1>4. ASSUME NEW s \in Saves, HandlerStep(s) PROVE UNCHANGED draft
  BY <1>4 DEF HandlerStep, ReadRows, Commit, HandlerFails, Unread, WriteRow
<1>5. ASSUME NEW q \in Movers, StaffChanges(q) PROVE UNCHANGED draft
  BY <1>5 DEF StaffChanges
<1>6. QED
  BY <1>0, <1>1, <1>2, <1>3, <1>4, <1>5 DEF EditNext, editVars

LEMMA RestTypeStep ==
  EditTypeOK /\ [EditNext]_editVars =>
    /\ active' \subseteq Rows
    /\ spent' \in [posts : 0 .. MaxPosts, edits : 0 .. MaxEdits, trouble : 0 .. MaxTrouble]
<1> SUFFICES ASSUME EditTypeOK, [EditNext]_editVars
             PROVE  /\ active' \subseteq Rows
                    /\ spent' \in [posts : 0 .. MaxPosts, edits : 0 .. MaxEdits, trouble : 0 .. MaxTrouble]
  OBVIOUS
<1> DEFINE Spent == [posts : 0 .. MaxPosts, edits : 0 .. MaxEdits, trouble : 0 .. MaxTrouble]
<1>0. /\ active \subseteq Rows /\ spent \in Spent
      /\ {MaxPosts, MaxEdits, MaxTrouble} \subseteq Nat /\ Movers \subseteq Rows
  BY EditorAssumption DEF EditTypeOK, EditorAssumption
<1>t. ASSUME Trouble PROVE spent' \in Spent
  BY <1>0, <1>t DEF Trouble
<1>1. ASSUME NEW f \in Editors, NEW r \in Rows, NEW v \in Cells, Type(f, r, v)
      PROVE active' = active /\ spent' \in Spent
  BY <1>0, <1>1 DEF Type
<1>2. ASSUME NEW f \in Editors, NEW s \in Saves, Save(f, s) PROVE active' = active /\ spent' \in Spent
  BY <1>0, <1>2 DEF Save
<1>3. ASSUME NEW f \in Editors, Reload(f) \/ RecoverFails(f) \/ \E s \in Saves : SaveFails(f, s)
      PROVE active' = active /\ spent' \in Spent
  BY <1>3, <1>t DEF Reload, RecoverFails, SaveFails
<1>4. ASSUME NEW s \in Saves, HandlerFails(s) PROVE active' = active /\ spent' \in Spent
  BY <1>4, <1>t DEF HandlerFails
<1>5. ASSUME NEW r \in Movers, StaffChanges(r) PROVE active' \subseteq Rows /\ spent' \in Spent
  BY <1>0, <1>5, <1>t DEF StaffChanges
<1>6. ASSUME UNCHANGED <<active, spent>> PROVE active' \subseteq Rows /\ spent' \in Spent
  BY <1>0, <1>6
<1>7. ASSUME NEW f \in Editors, PageStep(f)
      PROVE  \/ UNCHANGED <<active, spent>>
             \/ \E r \in Rows, v \in Cells : Type(f, r, v)
             \/ \E s \in Saves : Save(f, s) \/ SaveFails(f, s)
             \/ Reload(f) \/ RecoverFails(f)
  BY <1>7 DEF PageStep, Load, StoreDraft, Discard, Recover, ReceiveSaved, ReceiveConflict, ReceiveError
<1>8. ASSUME NEW s \in Saves, HandlerStep(s) PROVE UNCHANGED <<active, spent>> \/ HandlerFails(s)
  BY <1>8 DEF HandlerStep, ReadRows, Commit, Unread, WriteRow
<1> HIDE DEF Spent
<1>9. active' \subseteq Rows /\ spent' \in Spent
  BY <1>0, <1>1, <1>2, <1>3, <1>4, <1>5, <1>6, <1>7, <1>8 DEF EditNext, editVars
<1>10. QED
  BY <1>9 DEF Spent

LEMMA TypeStep == EditTypeOK /\ Form /\ IdsDrawn /\ Locks /\ [EditNext]_editVars => EditTypeOK'
  BY StoredTypeStep, SlotTypeStep, PageTypeStep, DraftTypeStep, RestTypeStep DEF EditTypeOK, Slot, PageType

\* What else holds at the start.
LEMMA RestInit == EditInit => IdsDrawn /\ IdsFresh /\ Shapes /\ Locks /\ TypingIsBacked
<1> SUFFICES ASSUME EditInit PROVE IdsDrawn /\ IdsFresh /\ Shapes /\ Locks /\ TypingIsBacked
  OBVIOUS
<1>1. \A s \in Saves : txn[s] = FreeSlot
  BY DEF EditInit
<1>2. \A r \in Rows : stored[r].ids = {} \/ stored[r].ids = Legacy
  BY DEF EditInit, Empty
<1>3. \A s \in Saves : ~Active(s) /\ txn[s].step = "free" /\ txn[s].todo = {} /\ txn[s].mine = {}
  BY <1>1 DEF FreeSlot, Active
<1>4. \A s \in Saves, r \in Rows : txn[s].read[r] = {}
  BY <1>1 DEF FreeSlot
<1>5. IdsDrawn /\ IdsFresh /\ Shapes
  BY <1>2, <1>3, <1>4 DEF IdsDrawn, IdsFresh, Shapes, Shape, Drawn
<1>6. Locks
  BY <1>3 DEF Locks, Writing, Unwritten, Replaced
<1>7. TypingIsBacked
  BY DEF EditInit, TypingIsBacked, Changed, ClosedPage, NoRows
<1>8. QED
  BY <1>5, <1>6, <1>7

LEMMA Inductive == EditSpec => []IInv
<1>1. EditInit => IInv
  BY TypeInit, FormInit, RestInit DEF IInv
<1>2. IInv /\ [EditNext]_editVars => IInv'
  <2> SUFFICES ASSUME IInv, [EditNext]_editVars PROVE IInv'
    OBVIOUS
  <2>1. Form'
    BY PageFormStep, DraftFormStep, ItemFormStep DEF IInv, Form
  <2>2. EditTypeOK'
    BY TypeStep DEF IInv
  <2>3. IdsDrawn' /\ IdsFresh' /\ Shapes' /\ Locks'
    BY IdsStep, ShapesStep, LocksStep DEF IInv
  <2>4. TypingIsBacked'
    BY BackedStep DEF IInv
  <2>5. QED
    BY <2>1, <2>2, <2>3, <2>4 DEF IInv
<1>3. QED
  BY <1>1, <1>2, PTL DEF EditSpec

\* Every variable keeps its type, and a stored row has a value: a save that
\* clears a month leaves no row behind.
THEOREM FactsTypes == EditSpec => []EditTypeOK
<1>1. IInv => EditTypeOK
  BY DEF IInv
<1>2. QED
  BY <1>1, Inductive, PTL

\* Whatever is typed and not settled is in the draft of its tab or about to be,
\* whatever the other people, the server and the network do.
THEOREM TypingSurvives == EditSpec => []TypingIsBacked
<1>1. IInv => TypingIsBacked
  BY DEF IInv
<1>2. QED
  BY <1>1, Inductive, PTL

\* A month never holds two values to be added up, save the legacy rows nobody
\* has replaced yet: the DELETE of the rows read and the unique index exclude
\* each other's writes, with any number of saves.
THEOREM OneRowPerMonth == EditSpec => []MonthIsOneRow
<1>1. Shapes => MonthIsOneRow
  <2> SUFFICES ASSUME Shapes, NEW r \in Rows
               PROVE  stored[r].ids \subseteq Legacy \/ Cardinality(stored[r].ids) = 1
    BY DEF MonthIsOneRow
  <2>1. CASE \E i \in 1 .. MaxPosts : stored[r].ids = {i}
    BY <2>1, FS_Singleton
  <2>2. CASE stored[r].ids = {} \/ stored[r].ids = Legacy
    BY <2>2
  <2>3. QED
    BY <2>1, <2>2 DEF Shapes, Shape
<1>2. IInv => MonthIsOneRow
  BY <1>1 DEF IInv
<1>3. QED
  BY <1>2, Inductive, PTL

\* Two saves never wait for each other's rows, because both write in key order.
THEOREM NoDeadlockOfTwo == EditSpec => []NoCircularWait
<1>1. IInv => NoCircularWait
  <2> SUFFICES ASSUME IInv, NEW s \in Saves, NEW z \in Saves, WaitsFor(s, z), WaitsFor(z, s) PROVE FALSE
    BY DEF NoCircularWait
  <2>1. PICK r \in txn[s].todo : r \in txn[z].mine
    BY DEF WaitsFor, NextRows
  <2>2. PICK q \in txn[z].todo : q \in txn[s].mine
    BY DEF WaitsFor, NextRows
  <2>3. Own(s) /\ Own(z)
    BY LocksAre DEF IInv
  <2>4. q < r /\ r < q
    BY <2>1, <2>2, <2>3 DEF Own
  <2>5. r \in Int /\ q \in Int
    BY <2>1, <2>2, EditorAssumption DEF IInv, EditTypeOK, Rows, EditorAssumption
  <2>6. QED
    BY <2>4, <2>5
<1>2. QED
  BY <1>1, Inductive, PTL

\* The optimistic lock: what a save replaces is what its author had in front of
\* him when he typed, through stale pages, retries, reloads and drafts.
THEOREM NothingOverwritten == EditSpec => NothingOverwrittenUnseen
<1> DEFINE Seen == \A r \in Rows : stored'[r] # stored[r] =>
       \E s \in Saves :
         /\ txn[s].step = "writing"
         /\ txn[s].items[r].over = stored[r].value
         /\ txn[s].items[r].value = stored'[r].value
         /\ stored'[r].value # stored[r].value
<1>1. IInv /\ [EditNext]_editVars => Seen
  <2> SUFFICES ASSUME IInv, [EditNext]_editVars, NEW r \in Rows, stored'[r] # stored[r]
               PROVE  \E s \in Saves :
                        /\ txn[s].step = "writing"
                        /\ txn[s].items[r].over = stored[r].value
                        /\ txn[s].items[r].value = stored'[r].value
                        /\ stored'[r].value # stored[r].value
    OBVIOUS
  <2>1. PICK s \in Saves : txn[s].step = "writing" /\ r \in txn[s].mine /\ stored'[r] = Written(s, r)
    BY IdSteps DEF IInv
  <2>2. Own(s) /\ Replaces(s, r)
    BY <2>1, LocksAre DEF IInv
  <2>3. txn[s].items[r] # NoItem /\ txn[s].items[r].value # txn[s].items[r].previous
    BY <2>1, <2>2 DEF Own, Edited, Posted
  <2>4. txn[s].items[r].over = txn[s].items[r].previous
    BY <2>3 DEF IInv, Form, ItemForm
  <2>5. stored'[r].value = txn[s].items[r].value
    BY <2>1, WrittenIds
  <2>6. QED
    BY <2>1, <2>2, <2>3, <2>4, <2>5 DEF Replaces
<1>2. QED
  BY <1>1, Inductive, PTL DEF EditSpec, NothingOverwrittenUnseen
=============================================================================
