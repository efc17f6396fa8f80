--------------------------- MODULE Browser_proofs ---------------------------
(***************************************************************************)
(* Proofs about the browser: the idle monitors, for any number of tabs and *)
(* any durations, and the tab of the dashboard, for any views, filters,    *)
(* lengths of history and numbers of requests under way; and about the     *)
(* links of MailLinks that are opened there: of all links mailed to an     *)
(* account at most one works, and once.                                    *)
(***************************************************************************)
EXTENDS MCBrowser, MailLinks, TLAPS

-----------------------------------------------------------------------------
(* The idle monitors.                                                      *)

\* The moment somebody was last there.
LastThere == now - away

\* No mark is ahead of the last input, and the shared one, which is written only now and then,
\* is behind it by less than a note and a write; a tab whose note is newer than its own mark and
\* the shared one took it when both were PromptAfter old.
IdleInv ==
  /\ now \in Nat /\ away \in Nat /\ shared \in Nat
  /\ own \in [Tabs -> Nat] /\ noted \in [Tabs -> Nat] /\ written \in [Tabs -> Nat]
  /\ phase \in [Tabs -> {"closed", "active", "prompt", "expired"}]
  /\ WriteEvery <= now /\ 0 <= LastThere
  /\ shared <= LastThere
  /\ \A t \in Tabs : own[t] <= LastThere /\ noted[t] <= now
  /\ \A t \in Tabs : written[t] <= shared /\ own[t] <= written[t] + WriteEvery - 1
  /\ \A t \in Tabs : \/ noted[t] <= own[t] \/ noted[t] <= shared
                     \/ own[t] <= noted[t] - PromptAfter /\ shared <= noted[t] - PromptAfter
  /\ (\E t \in Tabs : phase[t] # "closed") => shared >= LastThere - (NoteEvery - 1) - (WriteEvery - 1)

\* A tab is idle since its own last mark or the shared one, whichever is later.
LEMMA IdleIs ==
  ASSUME IdleInv, NEW t \in Tabs
  PROVE  /\ Monitors!Idle(t) = now - (IF own[t] > shared THEN own[t] ELSE shared)
         /\ Monitors!Idle(t) \in Nat
  BY DEF IdleInv, LastThere, Monitors!Idle, Monitors!Sooner, Monitors!Later

\* The monitors start with all marks in the past.
LEMMA IdleInit ==
  ASSUME Monitors!Init PROVE IdleInv
  BY IdleAssumption DEF Monitors!Init, IdleInv, LastThere

\* Ticks, input, opening and confirming keep every mark close enough to the truth.
LEMMA IdleStep ==
  ASSUME IdleInv, Monitors!Next PROVE IdleInv'
  <1>1. CASE Monitors!Clock
    BY <1>1, IdleAssumption DEF Monitors!Clock, IdleInv, LastThere
  <1>2. ASSUME NEW t \in Tabs, Monitors!Open(t) PROVE IdleInv'
    BY <1>2, IdleAssumption DEF Monitors!Open, Monitors!Mark, IdleInv, LastThere
  <1>3. ASSUME NEW t \in Tabs, Monitors!Tick(t) PROVE IdleInv'
    BY <1>3, IdleAssumption DEF Monitors!Tick, Monitors!Phase, IdleInv, LastThere
  <1>4. ASSUME NEW t \in Tabs, Monitors!Input(t) PROVE IdleInv'
    <2> DEFINE later == IF own[t] > shared THEN own[t] ELSE shared
    <2>0. Monitors!Idle(t) = now - later /\ later \in Nat
      BY IdleIs DEF IdleInv
    <2>1. CASE phase[t] # "active" \/ now - noted[t] < NoteEvery
      <3>1. UNCHANGED <<now, shared, own, noted, written, phase>>
        BY <1>4, <2>1 DEF Monitors!Input
      <3>2. CASE ~Monitors!AtWork(t)
        BY <1>4, <3>1, <3>2 DEF Monitors!Input, IdleInv, LastThere
      <3>3. CASE Monitors!AtWork(t)
        <4>1. away' = 0 /\ phase[t] = "active" /\ now - noted[t] < NoteEvery /\ now - later < PromptAfter
          BY <1>4, <2>0, <2>1, <3>3 DEF Monitors!Input, Monitors!AtWork
        <4>2. noted[t] <= own[t] \/ noted[t] <= shared
          BY <4>1, IdleAssumption DEF IdleInv, LastThere
        <4>3. shared >= now - (NoteEvery - 1) - (WriteEvery - 1)
          BY <4>1, <4>2, IdleAssumption DEF IdleInv, LastThere
        <4>4. QED
          BY <3>1, <4>1, <4>3, IdleAssumption DEF IdleInv, LastThere
      <3>4. QED
        BY <3>2, <3>3
    <2>2. CASE phase[t] = "active" /\ now - noted[t] >= NoteEvery /\ Monitors!Idle(t) >= PromptAfter
      <3>1. /\ UNCHANGED <<now, shared, own, written, away>>
            /\ noted' = [noted EXCEPT ![t] = now]
            /\ phase' = [phase EXCEPT ![t] = Monitors!Phase(t)]
        BY <1>4, <2>0, <2>2, IdleAssumption DEF Monitors!Input, Monitors!AtWork, IdleInv
      <3>2. Monitors!Phase(t) \in {"active", "prompt", "expired"}
        BY DEF Monitors!Phase
      <3>3. own[t] <= now - PromptAfter /\ shared <= now - PromptAfter
        BY <2>0, <2>2, IdleAssumption DEF IdleInv
      <3>4. QED
        BY <2>2, <3>1, <3>2, <3>3, IdleAssumption DEF IdleInv, LastThere
    <2>3. CASE phase[t] = "active" /\ now - noted[t] >= NoteEvery /\ ~(Monitors!Idle(t) >= PromptAfter)
      <3>1. /\ now' = now /\ phase' = phase /\ away' = 0
            /\ noted' = [noted EXCEPT ![t] = now] /\ own' = [own EXCEPT ![t] = now]
            /\ \/ now - written[t] >= WriteEvery /\ written' = [written EXCEPT ![t] = now] /\ shared' = now
               \/ now - written[t] < WriteEvery /\ written' = written /\ shared' = shared
        BY <1>4, <2>0, <2>3, IdleAssumption DEF Monitors!Input, Monitors!AtWork, Monitors!Noted, IdleInv
      <3>2. QED
        BY <2>3, <3>1, IdleAssumption DEF IdleInv, LastThere
    <2>4. QED
      BY <2>1, <2>2, <2>3, IdleAssumption DEF IdleInv
  <1>5. ASSUME NEW t \in Tabs, Monitors!Confirm(t) PROVE IdleInv'
    <2>1. CASE Monitors!Idle(t) >= LogoutAfter
      BY <1>5, <2>1 DEF Monitors!Confirm, IdleInv, LastThere
    <2>2. CASE ~(Monitors!Idle(t) >= LogoutAfter)
      BY <1>5, <2>2, IdleAssumption DEF Monitors!Confirm, Monitors!Mark, IdleInv, LastThere
    <2>3. QED
      BY <2>1, <2>2
  <1>6. QED
    BY <1>1, <1>2, <1>3, <1>4, <1>5 DEF Monitors!Next

\* For any number of tabs and any four durations in their order, an open tab never takes
\* somebody for idle who was not (tick, idleFor), and is late by at most what noteActivity
\* saves in notes and writes: nobody is logged out at work, and nobody stays who left.
THEOREM IdleMeasured == BrowserSpec => []IdleIsMeasured
  <1>1. BrowserInit => IdleInv
    BY IdleInit DEF BrowserInit
  <1>2. IdleInv /\ [BrowserNext]_<<part, vars, monitors>> => IdleInv'
    <2>1. ASSUME IdleInv, UNCHANGED monitors PROVE IdleInv'
      BY <2>1 DEF monitors, IdleInv, LastThere
    <2>2. QED
      BY <2>1, IdleStep DEF BrowserNext
  <1>3. IdleInv => IdleIsMeasured
    <2> SUFFICES ASSUME IdleInv, NEW t \in Tabs, phase[t] \in {"active", "prompt"}
                 PROVE  Monitors!Idle(t) >= away /\ Monitors!Idle(t) <= away + (NoteEvery - 1) + (WriteEvery - 1)
      BY DEF IdleIsMeasured, Monitors!IdleIsMeasured
    <2>1. Monitors!Idle(t) = now - (IF own[t] > shared THEN own[t] ELSE shared)
      BY IdleIs
    <2>2. QED
      BY <2>1, IdleAssumption DEF IdleInv, LastThere
  <1>4. QED
    BY <1>1, <1>2, <1>3, PTL DEF BrowserSpec

-----------------------------------------------------------------------------
(* The tab of the dashboard.                                               *)

Entries == [view : Views, tag : Nat]
GoMoves == [kind : {"go"}, delta : Int]
GuardedMoves == [kind : {"link"}, view : Views] \cup [kind : {"pick"}, filter : Filters] \cup GoMoves

\* The types of what the tab keeps.
BoardTypes ==
  /\ hist \in Seq(Entries) /\ at \in 1..Len(hist) /\ pos \in Nat /\ view \in Views
  /\ travel \in Seq(Int) /\ expected \in Nat \cup {NoPos} /\ handler \in Int /\ correcting \in BOOLEAN
  /\ ask \in {NoAsk} \cup GuardedMoves /\ held \in Nat \cup {StaffList, Correction}
  /\ arriving \subseteq {"free", "held"}

\* What a current request will draw is what its view asked for last.
Requests ==
  /\ seq \in Nat /\ current \in [Views -> 0..seq]
  /\ DOMAIN rows = Views /\ rows = [v \in Views |-> rows[v]]
  /\ DOMAIN asked = Views /\ asked = [v \in Views |-> asked[v]]
  /\ \A r \in flights : /\ r.view \in Views /\ r.id \in 1..seq
                        /\ IsCurrent(r) => asked[r.view] = r.filter
  /\ LatestShown

\* Pages are counted on along the history, and one page is one view.
Ordered(h) ==
  \A i \in 1..Len(h), j \in 1..Len(h) : i <= j =>
    /\ h[i].tag <= h[j].tag /\ h[j].tag - h[i].tag <= j - i
    /\ h[i].tag = h[j].tag => h[i].view = h[j].view

\* The entry of the page that is shown: where the browser is, or where it is put back to,
\* by a traversal under way.
Here ==
  /\ expected = NoPos => hist[at] = Entry(view, pos)
  /\ expected # NoPos =>
       /\ expected = pos
       /\ \E i \in 1..Len(hist) : hist[i] = Entry(view, pos)
       /\ \E i \in 1..Len(travel) : travel[i] = expected - hist[at].tag

\* Whoever waits is waited for.
Waiting ==
  /\ correcting => expected # NoPos /\ (ask.kind = "go" \/ held = Correction)
  /\ handler # None => expected # NoPos \/ ask.kind = "go"
  /\ ask # NoAsk => held = None
  /\ held = Correction => correcting

\* The decision that is held belongs to a view on its way or to a request that is current.
Holding ==
  /\ held = StaffList <=> "held" \in arriving
  /\ held \in Nat \ {None} => \E v \in Views : current[v] = held

\* Agreement after every traversal needs what holds during one.
HistoryInv == BoardTypes /\ Requests /\ Ordered(hist) /\ Here /\ Waiting /\ Holding

\* An entry replaces everything behind the n-th.
LEMMA SeqPush ==
  ASSUME NEW S, NEW h \in Seq(S), NEW n \in 1..Len(h), NEW e \in S
  PROVE  LET g == Append(SubSeq(h, 1, n), e)
         IN  g \in Seq(S) /\ Len(g) = n + 1 /\ g[n + 1] = e /\ \A i \in 1..n : g[i] = h[i]
  OBVIOUS

\* A history stays in order when the next page, or the same once more, is pushed.
LEMMA OrderedPush ==
  ASSUME NEW h \in Seq(Entries), NEW n \in 1..Len(h), NEW e \in Entries, Ordered(h),
         e = h[n] \/ e.tag = h[n].tag + 1
  PROVE  Ordered(Append(SubSeq(h, 1, n), e))
  <1> DEFINE g == Append(SubSeq(h, 1, n), e)
  <1>1. Len(g) = n + 1 /\ g[n + 1] = e /\ \A i \in 1..n : g[i] = h[i]
    BY SeqPush
  <1>2. /\ \A i \in 1..Len(h) : h[i] \in Entries
        /\ Len(h) \in Nat /\ n \in Nat
    OBVIOUS
  <1>t. /\ \A i \in 1..Len(h) : h[i].tag \in Nat
        /\ e.tag \in Nat
    BY <1>2 DEF Entries
  <1> HIDE DEF g
  <1>3. ASSUME NEW i \in 1..Len(g), NEW j \in 1..Len(g), i <= j
        PROVE  /\ g[i].tag <= g[j].tag /\ g[j].tag - g[i].tag <= j - i
               /\ g[i].tag = g[j].tag => g[i].view = g[j].view
    <2>1. CASE j <= n
      <3>1. g[i] = h[i] /\ g[j] = h[j] /\ i \in 1..Len(h) /\ j \in 1..Len(h)
        BY <1>1, <1>2, <1>3, <2>1
      <3>2. QED
        BY <1>3, <3>1 DEF Ordered
    <2>2. CASE j = n + 1 /\ i <= n
      <3>0. i \in 1..Len(h) /\ i \in 1..n
        BY <1>1, <1>2, <2>2
      <3>1. /\ h[i].tag <= h[n].tag /\ h[n].tag - h[i].tag <= n - i
            /\ h[i].tag = h[n].tag => h[i].view = h[n].view
        BY <2>2, <3>0 DEF Ordered
      <3>2. g[i] = h[i] /\ g[j] = e /\ h[i].tag \in Nat /\ h[n].tag \in Nat
        BY <1>1, <1>t, <2>2, <3>0
      <3>3. CASE e = h[n]
        <4>1. g[j].tag = h[n].tag /\ g[j].view = h[n].view /\ g[i].tag = h[i].tag /\ g[i].view = h[i].view
          BY <3>2, <3>3
        <4> DEFINE a == h[i].tag
                   b == h[n].tag
        <4>n. /\ a \in Nat /\ b \in Nat /\ n \in Nat /\ i \in Nat /\ j = n + 1
              /\ a <= b /\ b - a <= n - i
          BY <1>2, <2>2, <3>0, <3>1, <3>2
        <4>m. a <= b /\ b - a <= j - i
          <5> HIDE DEF a, b
          <5>1. QED
            BY <4>n
        <4>2. h[i].tag <= h[n].tag /\ h[n].tag - h[i].tag <= j - i
          BY <4>m
        <4>3. QED
          BY <3>1, <4>1, <4>2
      <3>4. CASE e.tag = h[n].tag + 1
        <4>1. g[j].tag = h[n].tag + 1 /\ g[i].tag = h[i].tag
          BY <3>2, <3>4
        <4>2. h[n].tag - h[i].tag <= n - i /\ h[i].tag <= h[n].tag
          BY <3>1
        <4> DEFINE a == h[i].tag
                   b == h[n].tag
        <4>n. a \in Nat /\ b \in Nat /\ n \in Nat /\ i \in Nat /\ j = n + 1 /\ b - a <= n - i /\ a <= b
          BY <1>2, <2>2, <3>0, <3>2, <4>2
        <4>m. g[j].tag = b + 1 /\ g[i].tag = a
          BY <4>1
        <4> HIDE DEF a, b
        <4>3. g[i].tag <= g[j].tag /\ g[j].tag - g[i].tag <= j - i /\ g[i].tag # g[j].tag
          BY <4>n, <4>m
        <4>4. QED
          BY <4>3
      <3>5. QED
        BY <3>3, <3>4
    <2>3. CASE i = n + 1
      <3>1. i = j
        BY <1>1, <1>2, <1>3, <2>3
      <3>2. g[i] = e
        BY <1>1, <2>3
      <3>3. QED
        BY <1>t, <1>2, <2>3, <3>1, <3>2
    <2>4. QED
      BY <1>1, <1>2, <1>3, <2>1, <2>2, <2>3
  <1>4. Ordered(g)
    BY <1>3 DEF Ordered
  <1>5. QED
    BY <1>4 DEF g

\* The way back from an entry to the page does not leave the history.
LEMMA WayBack ==
  ASSUME HistoryInv, expected # NoPos
  PROVE  at + (expected - hist[at].tag) \in 1..Len(hist)
  <1>1. PICK i \in 1..Len(hist) : hist[i] = Entry(view, pos)
    BY DEF HistoryInv, Here
  <1>2. hist[i].tag = expected /\ expected \in Nat /\ at \in 1..Len(hist) /\ i \in 1..Len(hist) /\ Len(hist) \in Nat
    BY <1>1 DEF HistoryInv, Here, BoardTypes, Entry
  <1>a. hist[at].tag \in Nat /\ hist[i].tag \in Nat
    <2>1. hist[at] \in Entries /\ hist[i] \in Entries
      BY <1>2 DEF HistoryInv, BoardTypes
    <2>2. QED
      BY <2>1 DEF Entries
  <1>3. /\ i <= at => hist[i].tag <= hist[at].tag /\ hist[at].tag - hist[i].tag <= at - i
        /\ at <= i => hist[at].tag <= hist[i].tag /\ hist[i].tag - hist[at].tag <= i - at
    BY <1>2 DEF HistoryInv, Ordered
  <1> DEFINE a == hist[at].tag
             b == hist[i].tag
             n == Len(hist)
  <1>4. /\ a \in Nat /\ b \in Nat /\ n \in Nat /\ b = expected /\ at \in 1..n /\ i \in 1..n
        /\ i <= at => b <= a /\ a - b <= at - i
        /\ at <= i => a <= b /\ b - a <= i - at
    BY <1>2, <1>a, <1>3
  <1>5. at + (expected - a) \in 1..n
    <2> HIDE DEF a, b, n
    <2>1. QED
      BY <1>4
  <1>6. QED
    BY <1>5

\* Somebody waits for a traversal only while one is under way.
LEMMA SettledHere ==
  ASSUME HistoryInv, Settled
  PROVE  expected = NoPos /\ hist[at] = Entry(view, pos) /\ ~correcting
  BY DEF HistoryInv, Here, Settled, Waiting

\* A page of the history that has the tag of the page shown is that page.
LEMMA SameTag ==
  ASSUME HistoryInv, NEW to \in 1..Len(hist), hist[to].tag = pos
  PROVE  hist[to] = Entry(view, pos)
  <1>1. PICK i \in 1..Len(hist) : hist[i] = Entry(view, pos)
    BY DEF HistoryInv, Here, BoardTypes
  <1>2. hist[i].view = hist[to].view
    <2>1. hist[i].tag = pos
      BY <1>1 DEF Entry
    <2>2. i <= to \/ to <= i
      OBVIOUS
    <2>3. QED
      BY <2>1, <2>2 DEF HistoryInv, Ordered
  <1>3. hist[to] \in Entries
    BY DEF HistoryInv, BoardTypes
  <1>4. QED
    BY <1>1, <1>2, <1>3 DEF Entry, Entries

\* What an entry of the history is.
LEMMA EntryIs ==
  ASSUME HistoryInv, NEW i \in 1..Len(hist)
  PROVE  hist[i] \in Entries /\ hist[i].tag \in Nat /\ hist[i].view \in Views
  <1>1. hist[i] \in Entries
    BY DEF HistoryInv, BoardTypes
  <1>2. QED
    BY <1>1 DEF Entries

\* A new page is pushed behind the one shown.
LEMMA PageAdded ==
  ASSUME HistoryInv, Settled, NEW e \in Entries,
         hist' = Append(SubSeq(hist, 1, at), e), at' = at + 1,
         e = Entry(view', pos'), e = Entry(view, pos) \/ pos' = pos + 1
  PROVE  /\ hist' \in Seq(Entries) /\ at' \in 1..Len(hist') /\ Ordered(hist')
         /\ hist'[at'] = Entry(view', pos')
  <1>1. hist[at] = Entry(view, pos) /\ hist \in Seq(Entries) /\ at \in 1..Len(hist) /\ Ordered(hist)
    BY SettledHere DEF HistoryInv, BoardTypes
  <1>2. hist' \in Seq(Entries) /\ Len(hist') = at + 1 /\ hist'[at + 1] = e
    BY <1>1, SeqPush
  <1>3. e = hist[at] \/ e.tag = hist[at].tag + 1
    BY <1>1 DEF Entry
  <1>4. Ordered(hist')
    BY <1>1, <1>3, OrderedPush
  <1>5. QED
    BY <1>1, <1>2, <1>4

\* Nothing but the requests of a view changes.
LEMMA Started ==
  ASSUME Requests, NEW v \in Views, NEW f, NEW how \in {"free", "held"}, Start(v, f, how), rows' = rows
  PROVE  /\ Requests'
         /\ held' \in {held, None, seq + 1}
         /\ how # "held" => held' = held \/ (held' = None /\ held # None /\ held = current[v])
         /\ how = "held" => held' = seq + 1
         /\ held' \in Nat \ {None} => held \in Nat \ {None} \/ current'[v] = held'
         /\ \A w \in Views : w # v => current'[w] = current[w]
         /\ current'[v] = seq + 1
  <1>1. /\ seq \in Nat /\ current \in [Views -> 0..seq] /\ seq' = seq + 1
        /\ current' = [current EXCEPT ![v] = seq + 1]
        /\ held' = IF how = "held" THEN seq + 1 ELSE IF held # None /\ held = current[v] THEN None ELSE held
        /\ flights' = flights \cup {[id |-> seq + 1, view |-> v, filter |-> f]}
    BY DEF Requests, Start
  <1>a. current' \in [Views -> 0..seq + 1]
    BY <1>1
  <1>2. Requests'
    <2>1. /\ asked' = [asked EXCEPT ![v] = f] /\ rows' = rows
          /\ \A w \in Views : w # v => asked'[w] = asked[w]
          /\ asked'[v] = f
      BY DEF Requests, Start
    <2>2. \A w \in Views : w # v => current'[w] = current[w]
      BY <1>1
    <2>3. current'[v] = seq + 1 /\ current' \in [Views -> 0..seq']
      BY <1>1, <1>a
    <2>4. ASSUME NEW r \in flights'
          PROVE  r.view \in Views /\ r.id \in 1..seq' /\ (current'[r.view] = r.id => asked'[r.view] = r.filter)
      <3>1. CASE r \in flights
        <4>1. r.view \in Views /\ r.id \in 1..seq /\ (current[r.view] = r.id => asked[r.view] = r.filter)
          BY <3>1 DEF Requests, IsCurrent
        <4>2. CASE r.view = v
          BY <1>1, <2>3, <4>1, <4>2
        <4>3. CASE r.view # v
          BY <1>1, <2>1, <2>2, <4>1, <4>3
        <4>4. QED
          BY <4>2, <4>3
      <3>2. CASE r = [id |-> seq + 1, view |-> v, filter |-> f]
        BY <1>1, <2>1, <3>2
      <3>3. QED
        BY <1>1, <3>1, <3>2
    <2>5. LatestShown'
      BY <1>1, <2>1, <2>2, <2>3 DEF Requests, LatestShown, None
    <2>6. QED
      BY <1>1, <2>1, <2>3, <2>4, <2>5 DEF Requests, IsCurrent
  <1>3. current'[v] = seq + 1 /\ \A w \in Views : w # v => current'[w] = current[w]
    BY <1>1
  <1>4. /\ how # "held" => held' = held \/ (held' = None /\ held # None /\ held = current[v])
        /\ how = "held" => held' = seq + 1
    BY <1>1
  <1>5. held' \in {held, None, seq + 1}
    BY <1>4
  <1>6. held' \in Nat \ {None} => held \in Nat \ {None} \/ current'[v] = held'
    BY <1>3, <1>4
  <1>7. QED
    BY <1>2, <1>3, <1>4, <1>5, <1>6

\* Nothing of the history changes, nobody is asked, and nobody waits for something new.
LEMMA StillHere ==
  ASSUME HistoryInv, UNCHANGED <<nav, view, handler, ask>>, Requests',
         arriving' \subseteq {"free", "held"},
         held' \in Nat \cup {StaffList, Correction},
         ask # NoAsk => held' = held \/ held' = None,
         held' = Correction <=> held = Correction,
         Holding'
  PROVE  HistoryInv'
  <1>1. BoardTypes'
    BY DEF HistoryInv, BoardTypes, nav
  <1>2. Ordered(hist)' /\ Here'
    BY DEF HistoryInv, Here, Ordered, nav
  <1>3. Waiting'
    BY DEF HistoryInv, Waiting, nav, None, Correction
  <1>4. QED
    BY <1>1, <1>2, <1>3 DEF HistoryInv

\* An answer draws only if it is current, and whoever waited for it goes on.
LEMMA AnswerStep ==
  ASSUME HistoryInv, NEW r \in flights, Answer(r) \/ Fail(r)
  PROVE  HistoryInv'
  <1>1. /\ seq \in Nat /\ current \in [Views -> 0..seq] /\ r.view \in Views /\ r.id \in 1..seq
        /\ rows = [v \in Views |-> rows[v]] /\ asked = [v \in Views |-> asked[v]]
    BY DEF HistoryInv, Requests
  <1>2. CASE ~IsCurrent(r)
    <2>1. UNCHANGED <<current, rows, held, asked, seq, arriving>> /\ flights' \subseteq flights
      BY <1>2 DEF Answer, Fail
    <2>2. Requests'
      BY <2>1 DEF HistoryInv, Requests, IsCurrent, LatestShown
    <2>3. UNCHANGED <<nav, view, handler, ask>>
      BY DEF Answer, Fail
    <2>4. Holding'
      BY <2>1 DEF HistoryInv, Holding
    <2>5. QED
      BY <2>1, <2>2, <2>3, <2>4, StillHere DEF HistoryInv, BoardTypes
  <1>3. CASE IsCurrent(r)
    <2>1. /\ UNCHANGED <<seq, arriving>> /\ UNCHANGED <<nav, view, handler, ask>>
          /\ flights' \subseteq flights /\ current[r.view] = r.id
          /\ current' = [current EXCEPT ![r.view] = None]
          /\ held' = IF held = r.id THEN None ELSE held
          /\ \/ rows' = [rows EXCEPT ![r.view] = r.filter] /\ asked' = asked
             \/ asked' = [asked EXCEPT ![r.view] = rows[r.view]] /\ rows' = rows
      BY <1>3 DEF Answer, Fail, IsCurrent, Released
    <2>2. asked[r.view] = r.filter
      BY <1>3 DEF HistoryInv, Requests
    <2>3. /\ current' \in [Views -> 0..seq] /\ current'[r.view] = None
          /\ \A v \in Views : v # r.view => current'[v] = current[v]
      BY <1>1, <2>1 DEF None
    <2>4. /\ DOMAIN rows' = Views /\ rows' = [v \in Views |-> rows'[v]]
          /\ DOMAIN asked' = Views /\ asked' = [v \in Views |-> asked'[v]]
          /\ rows'[r.view] = asked'[r.view]
          /\ \A v \in Views : v # r.view => rows'[v] = rows[v] /\ asked'[v] = asked[v]
      BY <1>1, <2>1, <2>2
    <2>5. ASSUME NEW f \in flights'
          PROVE  f.view \in Views /\ f.id \in 1..seq' /\ (current'[f.view] = f.id => asked'[f.view] = f.filter)
      <3>1. f.view \in Views /\ f.id \in 1..seq /\ (current[f.view] = f.id => asked[f.view] = f.filter)
        BY <2>1, <2>5 DEF HistoryInv, Requests, IsCurrent
      <3>2. QED
        BY <1>1, <2>1, <2>3, <2>4, <3>1 DEF None
    <2>6. LatestShown'
      BY <2>3, <2>4 DEF HistoryInv, Requests, LatestShown
    <2>7. Requests'
      BY <1>1, <2>1, <2>3, <2>4, <2>5, <2>6 DEF Requests, IsCurrent
    <2>8. Holding'
      <3>1. r.id \in Nat /\ r.id # None
        BY <1>1 DEF None
      <3>2. held' = StaffList <=> "held" \in arriving'
        BY <1>1, <2>1, <3>1 DEF HistoryInv, Holding, StaffList, None
      <3>3. ASSUME held' \in Nat \ {None} PROVE \E v \in Views : current'[v] = held'
        <4>1. held' = held /\ held # r.id
          BY <2>1, <3>3
        <4>2. PICK v \in Views : current[v] = held
          BY <3>3, <4>1 DEF HistoryInv, Holding
        <4>3. v # r.view
          BY <2>1, <4>1, <4>2
        <4>4. QED
          BY <2>3, <4>1, <4>2, <4>3
      <3>4. QED
        BY <3>2, <3>3 DEF Holding
    <2>9. held' \in Nat \cup {StaffList, Correction} /\ (held' = held \/ held' = None)
          /\ (held' = Correction <=> held = Correction)
      BY <1>1, <2>1 DEF HistoryInv, BoardTypes, None, Correction
    <2>10. arriving' \subseteq {"free", "held"}
      BY <2>1 DEF HistoryInv, BoardTypes
    <2>11. QED
      BY <2>1, <2>7, <2>8, <2>9, <2>10, StillHere
  <1>4. QED
    BY <1>2, <1>3

\* A request that a decision has started holds it; any other may only release it.
LEMMA StartStep ==
  ASSUME HistoryInv, NEW v \in Views, NEW f, Start(v, f, "free"), rows' = rows,
         UNCHANGED <<nav, view, handler, ask>>,
         "held" \in arriving' <=> "held" \in arriving, arriving' \subseteq {"free", "held"}
  PROVE  HistoryInv'
  <1>1. /\ Requests' /\ (held' = held \/ (held' = None /\ held # None /\ held = current[v]))
        /\ \A w \in Views : w # v => current'[w] = current[w]
    BY Started DEF HistoryInv
  <1>2. (held # StaffList /\ held # Correction) \/ held' = held
    BY <1>1 DEF HistoryInv, Requests, StaffList, Correction, None
  <1>3. /\ held' \in Nat \cup {StaffList, Correction}
        /\ held' = Correction <=> held = Correction
        /\ held' = StaffList <=> held = StaffList
    BY <1>1, <1>2 DEF HistoryInv, BoardTypes, None, StaffList, Correction
  <1>4. ASSUME held' \in Nat \ {None} PROVE \E w \in Views : current'[w] = held'
    <2>1. held' = held
      BY <1>1, <1>4
    <2>2. PICK w \in Views : current[w] = held
      BY <1>4, <2>1 DEF HistoryInv, Holding
    <2>3. w # v
      <3>1. held' = IF held # None /\ held = current[v] THEN None ELSE held
        BY DEF Start
      <3>2. QED
        BY <1>4, <2>1, <2>2, <3>1
    <2>4. QED
      BY <1>1, <2>1, <2>2, <2>3
  <1>5. Holding'
    BY <1>3, <1>4 DEF HistoryInv, Holding
  <1>6. QED
    BY <1>1, <1>3, <1>5, StillHere

\* A view that is reached asks for its rows; the decision waits for them.
LEMMA ArriveStep ==
  ASSUME HistoryInv, NEW how \in {"free", "held"}, Arrive(how)
  PROVE  HistoryInv'
  <1>1. /\ Start(view, pick[view], how) /\ rows' = rows /\ UNCHANGED <<nav, view, handler, ask>>
        /\ arriving' = arriving \ {how} /\ how \in arriving /\ view \in Views
    BY DEF Arrive, HistoryInv, BoardTypes
  <1>2. CASE how = "free"
    BY <1>1, <1>2, StartStep DEF HistoryInv, BoardTypes
  <1>3. CASE how = "held"
    <2>1. held = StaffList /\ ask = NoAsk
      BY <1>1, <1>3 DEF HistoryInv, Holding, Waiting, StaffList, None
    <2>2. Requests' /\ held' = seq + 1 /\ current'[view] = seq + 1 /\ seq \in Nat
      BY <1>1, <1>3, Started DEF HistoryInv, Requests
    <2>3. Holding'
      BY <1>1, <1>3, <2>2 DEF Holding, StaffList
    <2>4. held' \in Nat /\ held' # Correction /\ held # Correction
      BY <2>1, <2>2 DEF StaffList, Correction
    <2>5. QED
      BY <1>1, <2>1, <2>2, <2>3, <2>4, StillHere DEF HistoryInv, BoardTypes
  <1>4. QED
    BY <1>2, <1>3

\* What Guarded changes when it only asks or does nothing.
LEMMA AskStep ==
  ASSUME HistoryInv, NEW move \in GuardedMoves, Settled, move.kind # "go",
         ask = NoAsk, ask' = move, held = None, UNCHANGED <<nav, view, handler, held, arriving, net>>
  PROVE  HistoryInv'
  <1>1. BoardTypes' /\ Requests' /\ Ordered(hist)' /\ Here' /\ Holding'
    BY DEF HistoryInv, BoardTypes, Requests, Ordered, Here, Holding, nav, net, LatestShown, IsCurrent
  <1>2. Waiting'
    <2>1. expected = NoPos /\ ~correcting /\ handler = None
      BY SettledHere DEF HistoryInv, Waiting, NoAsk
    <2>2. QED
      BY <2>1 DEF Waiting, nav, None, Correction
  <1>3. QED
    BY <1>1, <1>2 DEF HistoryInv

\* A new page, after which nobody is asked about a traversal.
LEMMA PageStep ==
  ASSUME HistoryInv, Settled, NEW e \in Entries,
         hist' = Append(SubSeq(hist, 1, at), e), at' = at + 1, pos' \in Nat, view' \in Views,
         e = Entry(view', pos'), e = Entry(view, pos) \/ pos' = pos + 1,
         UNCHANGED <<travel, expected, handler, correcting, net>>,
         arriving' \subseteq {"free", "held"},
         \/ held' = held /\ ("held" \in arriving' <=> "held" \in arriving)
         \/ held' = StaffList /\ "held" \in arriving',
         ask' \in GuardedMoves \cup {NoAsk}, ask' # NoAsk => held' = None, ask.kind # "go"
  PROVE  HistoryInv'
  <1>1. expected = NoPos /\ ~correcting /\ handler = None /\ held # Correction
    BY SettledHere DEF HistoryInv, Waiting
  <1>2. /\ hist' \in Seq(Entries) /\ at' \in 1..Len(hist') /\ Ordered(hist')
        /\ hist'[at'] = Entry(view', pos')
    BY PageAdded
  <1>3. BoardTypes'
    BY <1>2 DEF HistoryInv, BoardTypes
  <1>4. Requests'
    BY DEF HistoryInv, Requests, net, LatestShown, IsCurrent
  <1>5. Here'
    BY <1>1, <1>2 DEF Here
  <1>6. held' # Correction
    BY <1>1 DEF StaffList, Correction
  <1>7. Waiting'
    BY <1>1, <1>6 DEF Waiting
  <1>8. Holding'
    BY DEF HistoryInv, Holding, StaffList, net
  <1>9. QED
    BY <1>2, <1>3, <1>4, <1>5, <1>7, <1>8 DEF HistoryInv

\* A step that is no step of the history or of the requests.
LEMMA NothingDone ==
  ASSUME HistoryInv, UNCHANGED <<nav, view, handler, ask, held, arriving, net>>
  PROVE  HistoryInv'
  <1>1. Requests' /\ Holding'
    BY DEF HistoryInv, Requests, Holding, net, LatestShown, IsCurrent
  <1>2. QED
    BY <1>1, StillHere DEF HistoryInv, BoardTypes

\* A link pushes its page, or asks first.
LEMMA ClickStep ==
  ASSUME HistoryInv, NEW v \in Views, Click(v)
  PROVE  HistoryInv'
  <1> DEFINE move == [kind |-> "link", view |-> v]
  <1>1. Settled /\ ask = NoAsk /\ Guarded(move) /\ move \in GuardedMoves /\ move.kind = "link"
    BY DEF Click, GuardedMoves
  <1> HIDE DEF move
  <1>2. CASE Blocked
    BY <1>1, <1>2, NothingDone DEF Guarded
  <1>3. CASE ~Blocked /\ view \in typed
    BY <1>1, <1>3, AskStep DEF Guarded, Blocked
  <1>4. CASE ~Blocked /\ view \notin typed
    <2>1. ask' = NoAsk /\ Go(move, "free") /\ held = None
      BY <1>1, <1>4 DEF Guarded, Blocked
    <2>2. move.view = v
      BY DEF move
    <2>3. /\ hist' = Pushed(v) /\ at' = at + 1 /\ pos' = pos + 1 /\ view' = v
          /\ arriving' = arriving \cup {"free"} /\ held' = held
          /\ UNCHANGED <<travel, expected, correcting, handler, net>>
      BY <1>1, <2>1, <2>2 DEF Go
    <2>4. Entry(v, pos + 1) \in Entries /\ ask.kind # "go"
      BY <1>1 DEF HistoryInv, BoardTypes, Entry, Entries, NoAsk
    <2>5. QED
      BY <1>1, <2>1, <2>3, <2>4, PageStep DEF Pushed, HistoryInv, BoardTypes
  <1>5. QED
    BY <1>2, <1>3, <1>4

\* A picker asks for other rows, or asks the person first.
LEMMA PickStep ==
  ASSUME HistoryInv, NEW f \in Filters, Pick(f)
  PROVE  HistoryInv'
  <1> DEFINE move == [kind |-> "pick", filter |-> f]
  <1>1. Settled /\ ask = NoAsk /\ Guarded(move) /\ move \in GuardedMoves /\ move.kind = "pick"
    BY DEF Pick, GuardedMoves
  <1> HIDE DEF move
  <1>2. CASE Blocked
    BY <1>1, <1>2, NothingDone DEF Guarded
  <1>3. CASE ~Blocked /\ view \in typed
    BY <1>1, <1>3, AskStep DEF Guarded, Blocked
  <1>4. CASE ~Blocked /\ view \notin typed
    <2>1. ask' = NoAsk /\ Go(move, "free")
      BY <1>1, <1>4 DEF Guarded
    <2>2. Start(view, move.filter, "free") /\ UNCHANGED <<nav, view, handler, arriving, rows>>
      BY <1>1, <2>1 DEF Go
    <2>3. QED
      BY <1>1, <2>1, <2>2, StartStep DEF HistoryInv, BoardTypes
  <1>5. QED
    BY <1>2, <1>3, <1>4

\* An address of its own pushes an entry and, unless guarded, shows the page.
LEMMA HashStep ==
  ASSUME HistoryInv, NEW v \in Views, HashLink(v)
  PROVE  HistoryInv'
  <1>1. /\ Settled /\ ask = NoAsk /\ at' = at + 1
        /\ UNCHANGED <<travel, expected, handler, correcting, held, net>>
    BY DEF HashLink
  <1>2. ask.kind # "go"
    BY <1>1 DEF NoAsk
  <1>3. CASE ~NeedsGuard
    <2>1. /\ hist' = Pushed(v) /\ pos' = pos + 1 /\ view' = v /\ ask' = NoAsk
          /\ arriving' = arriving \cup {"free"}
      BY <1>1, <1>3 DEF HashLink
    <2>2. Entry(v, pos + 1) \in Entries
      BY DEF HistoryInv, BoardTypes, Entry, Entries
    <2>3. QED
      BY <1>1, <1>2, <2>1, <2>2, PageStep DEF Pushed, HistoryInv, BoardTypes
  <1>4. CASE NeedsGuard
    <2>1. /\ hist' = Append(SubSeq(hist, 1, at), Entry(view, pos)) /\ UNCHANGED <<pos, view, arriving>>
          /\ ask' = IF Blocked THEN NoAsk ELSE [kind |-> "link", view |-> v]
      BY <1>4 DEF HashLink
    <2>2. Entry(view, pos) \in Entries
      BY DEF HistoryInv, BoardTypes, Entry, Entries
    <2>3. ask' \in GuardedMoves \cup {NoAsk} /\ (ask' # NoAsk => held = None)
      BY <2>1 DEF GuardedMoves, Blocked
    <2>4. QED
      BY <1>1, <1>2, <2>1, <2>2, <2>3, PageStep DEF HistoryInv, BoardTypes
  <1>5. QED
    BY <1>3, <1>4

\* Who stays forgets the move, and a correction may end.
LEMMA StayStep ==
  ASSUME HistoryInv, Stay
  PROVE  HistoryInv'
  <1>1. Settled /\ ask' = NoAsk /\ handler' = None /\ UNCHANGED <<nav, view, held, arriving, net>>
    BY DEF Stay
  <1>2. BoardTypes' /\ Requests' /\ Ordered(hist)' /\ Here' /\ Holding'
    BY <1>1 DEF HistoryInv, BoardTypes, Requests, Ordered, Here, Holding, nav, net, LatestShown, IsCurrent, None
  <1>3. Waiting'
    BY <1>1, SettledHere DEF HistoryInv, Waiting, nav, None, Correction
  <1>4. QED
    BY <1>2, <1>3 DEF HistoryInv

\* Who leaves makes the move that was held back.
LEMMA LeaveStep ==
  ASSUME HistoryInv, Leave
  PROVE  HistoryInv'
  <1>1. ask # NoAsk /\ (Settled \/ ask.kind = "go") /\ ask' = NoAsk /\ Go(ask, "held")
    BY DEF Leave
  <1>2. ask \in GuardedMoves /\ held = None
    BY <1>1 DEF HistoryInv, BoardTypes, Waiting
  <1>3. CASE ask.kind = "link"
    <2>1. /\ hist' = Pushed(ask.view) /\ at' = at + 1 /\ pos' = pos + 1 /\ view' = ask.view
          /\ arriving' = arriving \cup {"held"} /\ held' = StaffList
          /\ UNCHANGED <<travel, expected, correcting, handler, net>>
      BY <1>1, <1>3 DEF Go
    <2>2. ask.view \in Views /\ Settled
      BY <1>1, <1>2, <1>3 DEF GuardedMoves, GoMoves
    <2>3. Entry(ask.view, pos + 1) \in Entries
      BY <2>2 DEF HistoryInv, BoardTypes, Entry, Entries
    <2>4. QED
      BY <1>1, <1>3, <2>1, <2>2, <2>3, PageStep DEF Pushed, HistoryInv, BoardTypes
  <1>4. CASE ask.kind = "pick"
    <2>1. Start(view, ask.filter, "held") /\ UNCHANGED <<nav, view, handler, arriving, rows>>
      BY <1>1, <1>4 DEF Go
    <2>2. view \in Views /\ seq \in Nat /\ "held" \notin arriving
      BY <1>2 DEF HistoryInv, BoardTypes, Requests, Holding, None, StaffList
    <2>3. Requests' /\ held' = seq + 1 /\ current'[view] = seq + 1
      BY <2>1, <2>2, Started DEF HistoryInv
    <2>4. Settled
      BY <1>1, <1>4
    <2>5. BoardTypes' /\ Ordered(hist)' /\ Here'
      <3>1. BoardTypes'
        BY <1>1, <2>1, <2>2, <2>3 DEF HistoryInv, BoardTypes, nav
      <3>2. Ordered(hist)' /\ Here'
        BY <2>1 DEF HistoryInv, Here, nav
      <3>3. QED
        BY <3>1, <3>2
    <2>6. Waiting'
      BY <1>1, <1>4, <2>1, <2>2, <2>3, <2>4, SettledHere DEF HistoryInv, Waiting, nav, Correction
    <2>7. Holding'
      BY <2>1, <2>2, <2>3 DEF Holding, StaffList
    <2>8. QED
      BY <2>3, <2>5, <2>6, <2>7 DEF HistoryInv
  <1>5. CASE ask.kind = "go"
    <2>1. /\ travel' = IF correcting THEN travel ELSE Append(travel, ask.delta)
          /\ handler' = IF correcting THEN ask.delta ELSE None
          /\ held' = IF correcting THEN Correction ELSE held
          /\ UNCHANGED <<hist, at, pos, view, expected, correcting, arriving, net>>
      BY <1>1, <1>5 DEF Go
    <2>2. ask.delta \in Int
      BY <1>2, <1>5 DEF GuardedMoves, GoMoves
    <2>3. travel' \in Seq(Int) /\ \A i \in 1..Len(travel) : i \in 1..Len(travel') /\ travel'[i] = travel[i]
      BY <2>1, <2>2 DEF HistoryInv, BoardTypes
    <2>4. BoardTypes'
      BY <1>1, <1>2, <2>1, <2>2, <2>3 DEF HistoryInv, BoardTypes, None, Correction
    <2>5. Requests' /\ Ordered(hist)'
      BY <2>1 DEF HistoryInv, Requests, Ordered, net, LatestShown, IsCurrent
    <2>6. Here'
      BY <2>1, <2>3 DEF HistoryInv, Here
    <2>7. Waiting'
      BY <1>1, <1>2, <2>1 DEF HistoryInv, Waiting, None, Correction
    <2>8. Holding'
      BY <1>2, <2>1 DEF HistoryInv, Holding, None, Correction, StaffList, net
    <2>9. QED
      BY <2>4, <2>5, <2>6, <2>7, <2>8 DEF HistoryInv
  <1>6. QED
    BY <1>2, <1>3, <1>4, <1>5 DEF GuardedMoves, GoMoves

\* The traversal that puts the browser back ends at the page.
LEMMA CompleteStep ==
  ASSUME HistoryInv, NEW to \in 1..Len(hist), NEW rest \in Seq(Int), hist[to].tag = expected,
         expected # NoPos, at' = to, Complete(rest), UNCHANGED net
  PROVE  HistoryInv'
  <1>1. /\ expected = pos /\ hist[to] = Entry(view, pos)
        /\ UNCHANGED <<hist, view, arriving>> /\ pos' = pos /\ expected' = NoPos /\ correcting' = FALSE
    BY SameTag DEF HistoryInv, Here, Complete, BoardTypes
  <1>2. /\ travel' \in Seq(Int) /\ handler' \in Int /\ held' \in {held, None} /\ held' # Correction
        /\ held' = held \/ held = Correction
        /\ ask' \in GuardedMoves \cup {NoAsk} /\ (ask' # NoAsk => held' = None)
        /\ (handler' # None => ask'.kind = "go")
    <2>1. CASE correcting
      <3>1. ask' = ask
        BY <2>1 DEF Complete
      <3>2. CASE held = Correction
        <4>1. travel' = Append(rest, handler) /\ handler' = None /\ held' = None
          BY <2>1, <3>2 DEF Complete
        <4>2. travel' \in Seq(Int)
          BY <4>1 DEF HistoryInv, BoardTypes
        <4>3. QED
          BY <3>1, <3>2, <4>1, <4>2 DEF HistoryInv, BoardTypes, None, Correction
      <3>3. CASE held # Correction
        BY <2>1, <3>1, <3>3 DEF Complete, HistoryInv, BoardTypes, Waiting
      <3>4. QED
        BY <3>2, <3>3
    <2>2. CASE ~correcting
      <3>1. held' = held /\ held # Correction
        BY <2>2 DEF Complete, HistoryInv, Waiting
      <3>2. CASE Blocked \/ view \notin typed
        <4>1. ask' = ask /\ handler' = None /\ (travel' = rest \/ travel' = Append(rest, handler))
          BY <2>2, <3>2 DEF Complete
        <4>2. travel' \in Seq(Int)
          <5>1. handler \in Int
            BY DEF HistoryInv, BoardTypes
          <5>2. QED
            BY <4>1, <5>1
        <4>3. ask' \in GuardedMoves \cup {NoAsk} /\ (ask' # NoAsk => held' = None)
          BY <3>1, <4>1 DEF HistoryInv, BoardTypes, Waiting
        <4>4. handler' \in Int /\ ~(handler' # None)
          BY <4>1 DEF None
        <4>5. held' \in {held, None} /\ held' # Correction /\ (held' = held \/ held = Correction)
          BY <3>1
        <4>6. QED
          BY <4>2, <4>3, <4>4, <4>5
      <3>3. CASE ~Blocked /\ view \in typed
        <4>1. ask' = [kind |-> "go", delta |-> handler] /\ handler' = handler /\ travel' = rest /\ held = None
          BY <2>2, <3>3 DEF Complete, Blocked
        <4>2. handler \in Int
          BY DEF HistoryInv, BoardTypes
        <4>3. ask' \in GuardedMoves /\ ask'.kind = "go"
          BY <4>1, <4>2 DEF GuardedMoves, GoMoves
        <4>4. QED
          BY <3>1, <4>1, <4>2, <4>3
      <3>4. QED
        BY <3>2, <3>3
    <2>3. QED
      BY <2>1, <2>2
  <1>3. BoardTypes'
    <2>1. /\ hist' \in Seq(Entries) /\ at' \in 1..Len(hist') /\ pos' \in Nat /\ view' \in Views
          /\ expected' \in Nat \cup {NoPos} /\ correcting' \in BOOLEAN /\ arriving' \subseteq {"free", "held"}
      BY <1>1 DEF HistoryInv, BoardTypes
    <2>2. held' \in Nat \cup {StaffList, Correction}
      BY <1>2 DEF HistoryInv, BoardTypes, None
    <2>3. QED
      BY <1>2, <2>1, <2>2 DEF BoardTypes
  <1>4. Requests' /\ Ordered(hist)'
    BY <1>1 DEF HistoryInv, Requests, net, LatestShown, IsCurrent
  <1>5. Here'
    BY <1>1 DEF Here
  <1>6. Waiting'
    BY <1>1, <1>2 DEF Waiting
  <1>7. Holding'
    BY <1>1, <1>2 DEF HistoryInv, Holding, net, None, StaffList, Correction
  <1>8. QED
    BY <1>3, <1>4, <1>5, <1>6, <1>7 DEF HistoryInv

\* Another traversal is on its way back to the page.
LEMMA BackStep ==
  ASSUME HistoryInv, NEW to \in 1..Len(hist), NEW rest \in Seq(Int), at' = to,
         expected = NoPos \/ expected = pos, expected' = pos,
         travel' = Append(rest, pos - hist[to].tag),
         handler' \in Int, correcting' \in BOOLEAN, ask' = ask, held' = held,
         UNCHANGED <<hist, pos, view, arriving>>, UNCHANGED net,
         correcting' => ask.kind = "go" \/ held = Correction, correcting => correcting'
  PROVE  HistoryInv'
  <1>1. hist[to].tag \in Nat /\ pos \in Nat /\ rest \in Seq(Int)
    BY EntryIs DEF HistoryInv, BoardTypes
  <1>2. /\ travel' \in Seq(Int) /\ Len(rest) + 1 \in 1..Len(travel')
        /\ travel'[Len(rest) + 1] = pos - hist[to].tag
    BY <1>1
  <1>3. BoardTypes'
    BY <1>2 DEF HistoryInv, BoardTypes
  <1>4. Requests' /\ Ordered(hist)'
    BY DEF HistoryInv, Requests, net, LatestShown, IsCurrent
  <1>5. \E i \in 1..Len(hist) : hist[i] = Entry(view, pos)
    BY DEF HistoryInv, Here, BoardTypes
  <1>a. /\ expected' = pos' /\ expected' # NoPos /\ Len(rest) + 1 \in 1..Len(travel')
        /\ travel'[Len(rest) + 1] = expected' - hist'[at'].tag
        /\ \E i \in 1..Len(hist') : hist'[i] = Entry(view', pos')
    BY <1>1, <1>2, <1>5 DEF NoPos
  <1>6. Here'
    BY <1>a DEF Here
  <1>7. Waiting'
    BY <1>1 DEF HistoryInv, Waiting, NoPos
  <1>8. Holding'
    BY DEF HistoryInv, Holding, net
  <1>9. QED
    BY <1>3, <1>4, <1>6, <1>7, <1>8 DEF HistoryInv

\* A popstate: the browser has moved, on its own or by the page's own correction.
LEMMA TraverseStep ==
  ASSUME HistoryInv, Traverse
  PROVE  /\ HistoryInv'
         /\ view' # view => view \notin typed
  <1> DEFINE to == at + Head(travel)
             rest == Tail(travel)
             delta == pos - hist[to].tag
  <1>1. /\ travel # <<>> /\ travel \in Seq(Int) /\ rest \in Seq(Int) /\ at \in 1..Len(hist) /\ UNCHANGED net
        /\ to \in Int /\ Len(rest) = Len(travel) - 1 /\ \A i \in 1..Len(rest) : rest[i] = travel[i + 1]
        /\ travel[1] = Head(travel) /\ hist \in Seq(Entries) /\ DOMAIN hist = 1..Len(hist)
    BY DEF Traverse, HistoryInv, BoardTypes
  <1>2. /\ to \notin DOMAIN hist =>
             travel' = rest /\ UNCHANGED <<hist, at, pos, expected, correcting, view, handler, ask, held, arriving>>
        /\ to \in DOMAIN hist =>
             /\ at' = to
             /\ IF Expects
                THEN IF hist[to].tag = expected THEN Complete(rest) ELSE Restore(expected - hist[to].tag, rest)
                ELSE IF handler # None THEN Restore(delta, rest)
                ELSE IF NeedsGuard /\ delta # 0 THEN GuardTraversal(delta, rest)
                ELSE Follow(hist[to], rest)
    BY DEF Traverse
  <1> HIDE DEF to, rest, delta
  <1>3. CASE to \notin DOMAIN hist
    <2>1. travel' = rest /\ UNCHANGED <<hist, at, pos, expected, correcting, view, handler, ask, held, arriving>>
      BY <1>2, <1>3
    <2>2. ASSUME expected # NoPos
          PROVE  \E i \in 1..Len(rest) : rest[i] = expected - hist[at].tag
      <3>1. PICK i \in 1..Len(travel) : travel[i] = expected - hist[at].tag
        BY <2>2 DEF HistoryInv, Here
      <3>2. at + (expected - hist[at].tag) \in 1..Len(hist)
        BY <2>2, WayBack
      <3>3. i # 1
        <4>1. ASSUME i = 1 PROVE FALSE
          <5>1. to = at + (expected - hist[at].tag)
            BY <1>1, <3>1, <4>1 DEF to
          <5>2. QED
            BY <1>1, <1>3, <3>2, <5>1
        <4>2. QED
          BY <4>1
      <3>4. i - 1 \in 1..Len(rest) /\ rest[i - 1] = travel[i]
        <4>1. PICK k \in Int : k = i - 1
          BY <3>1
        <4>2. k \in 1..Len(rest) /\ k + 1 = i
          BY <1>1, <3>1, <3>3, <4>1
        <4>3. QED
          BY <1>1, <4>1, <4>2
      <3>5. QED
        BY <3>1, <3>4
    <2>3. Here'
      BY <2>1, <2>2 DEF HistoryInv, Here
    <2>4. BoardTypes' /\ Requests' /\ Ordered(hist)' /\ Waiting' /\ Holding'
      BY <1>1, <2>1 DEF HistoryInv, BoardTypes, Requests, Waiting, Holding, net, LatestShown, IsCurrent
    <2>5. QED
      BY <2>1, <2>3, <2>4 DEF HistoryInv
  <1>4. CASE to \in DOMAIN hist
    <2>0. to \in 1..Len(hist) /\ at' = to /\ pos \in Nat
      BY <1>1, <1>2, <1>4 DEF HistoryInv, BoardTypes
    <2>1. to \in 1..Len(hist) /\ at' = to /\ hist[to] \in Entries /\ hist[to].tag \in Nat /\ pos \in Nat
      BY <2>0, EntryIs
    <2>2. CASE Expects /\ hist[to].tag = expected
      <3>1. Complete(rest)
        BY <1>2, <1>4, <2>2
      <3>2. view' = view
        BY <3>1 DEF Complete
      <3>3. QED
        BY <1>1, <2>1, <2>2, <3>1, <3>2, CompleteStep DEF Expects
    <2>3. CASE Expects /\ hist[to].tag # expected
      <3>1. Restore(expected - hist[to].tag, rest) /\ expected = pos
        BY <1>2, <1>4, <2>3 DEF Expects, HistoryInv, Here
      <3>2. /\ travel' = Append(rest, pos - hist[to].tag) /\ UNCHANGED <<expected, correcting>>
            /\ UNCHANGED <<hist, pos, view, handler, ask, held, arriving>>
        BY <2>1, <2>3, <3>1 DEF Restore
      <3>3. QED
        BY <1>1, <2>1, <3>1, <3>2, BackStep DEF HistoryInv, BoardTypes, Waiting
    <2>4. CASE ~Expects /\ handler # None /\ delta # 0
      <3>1. Restore(delta, rest) /\ expected = NoPos
        BY <1>2, <1>4, <2>4 DEF Expects
      <3>2. /\ travel' = Append(rest, pos - hist[to].tag) /\ expected' = pos /\ correcting' = TRUE
            /\ UNCHANGED <<hist, pos, view, handler, ask, held, arriving>>
        BY <2>4, <3>1 DEF Restore, delta
      <3>3. ask.kind = "go"
        BY <2>4, <3>1 DEF HistoryInv, Waiting
      <3>4. QED
        BY <1>1, <2>1, <3>1, <3>2, <3>3, BackStep DEF HistoryInv, BoardTypes
    <2>5. CASE ~Expects /\ handler # None /\ delta = 0
      <3>1. Restore(delta, rest) /\ expected = NoPos
        BY <1>2, <1>4, <2>5 DEF Expects
      <3>2. /\ travel' = rest /\ UNCHANGED <<expected, correcting>>
            /\ UNCHANGED <<hist, pos, view, handler, ask, held, arriving>>
        BY <2>5, <3>1 DEF Restore
      <3>3. hist[to] = Entry(view, pos)
        BY <2>1, <2>5, SameTag DEF delta
      <3>4. QED
        BY <1>1, <2>1, <3>1, <3>2, <3>3
           DEF HistoryInv, BoardTypes, Requests, Here, Waiting, Holding, net, LatestShown, IsCurrent
    <2>6. CASE ~Expects /\ handler = None /\ NeedsGuard /\ delta # 0
      <3>1. GuardTraversal(delta, rest) /\ expected = NoPos
        BY <1>2, <1>4, <2>6 DEF Expects
      <3>2. /\ travel' = Append(rest, pos - hist[to].tag) /\ expected' = pos /\ handler' = -delta
            /\ UNCHANGED <<hist, pos, view, correcting, ask, held, arriving>>
        BY <3>1 DEF GuardTraversal, delta
      <3>3. -delta \in Int /\ ~correcting
        BY <2>1, <3>1 DEF delta, HistoryInv, Waiting
      <3>4. QED
        BY <1>1, <2>1, <3>1, <3>2, <3>3, BackStep DEF HistoryInv, BoardTypes
    <2>7. CASE ~Expects /\ handler = None /\ ~(NeedsGuard /\ delta # 0)
      <3>1. /\ expected = NoPos
            /\ travel' = rest /\ pos' = hist[to].tag /\ view' = hist[to].view
            /\ arriving' \subseteq arriving \cup {"free"} /\ ("held" \in arriving' <=> "held" \in arriving)
            /\ UNCHANGED <<hist, expected, handler, correcting, ask, held>>
        BY <1>2, <1>4, <2>7 DEF Expects, Follow
      <3>2. hist[to] = Entry(view', pos') /\ view' \in Views
        BY <2>1, <3>1 DEF Entries, Entry
      <3>3. BoardTypes'
        BY <1>1, <2>1, <3>1, <3>2 DEF HistoryInv, BoardTypes
      <3>4. Requests' /\ Ordered(hist)' /\ Here' /\ Waiting' /\ Holding'
        BY <1>1, <2>1, <3>1, <3>2 DEF HistoryInv, Requests, Here, Waiting, Holding, net, LatestShown, IsCurrent
      <3>5. ASSUME view \in typed PROVE view' = view
        <4>1. delta = 0
          BY <2>7, <3>5 DEF NeedsGuard
        <4>2. hist[to] = Entry(view, pos)
          BY <2>1, <4>1, SameTag DEF delta
        <4>3. QED
          BY <3>1, <4>2 DEF Entry
      <3>6. QED
        BY <3>3, <3>4, <3>5 DEF HistoryInv
    <2>8. QED
      BY <2>2, <2>3, <2>4, <2>5, <2>6, <2>7
  <1>5. QED
    BY <1>3, <1>4

\* The person presses back or forward: one more traversal.
LEMMA PressStep ==
  ASSUME HistoryInv, NEW d \in {-1, 1}, Press(d)
  PROVE  HistoryInv'
  <1>1. /\ travel' = Append(travel, d)
        /\ UNCHANGED <<hist, at, pos, view, expected, handler, correcting, ask, held, arriving, net>>
    BY DEF Press
  <1>2. travel' \in Seq(Int) /\ \A i \in 1..Len(travel) : i \in 1..Len(travel') /\ travel'[i] = travel[i]
    BY <1>1 DEF HistoryInv, BoardTypes
  <1>3. BoardTypes' /\ Requests' /\ Ordered(hist)' /\ Waiting' /\ Holding'
    BY <1>1, <1>2 DEF HistoryInv, BoardTypes, Requests, Waiting, Holding, net, LatestShown, IsCurrent
  <1>4. Here'
    BY <1>1, <1>2 DEF HistoryInv, Here
  <1>5. QED
    BY <1>3, <1>4 DEF HistoryInv

\* The answer of a save draws what its view has asked for, or leaves it to the request under way.
LEMMA SavedStep ==
  ASSUME HistoryInv, NEW v \in Views, Saved(v)
  PROVE  HistoryInv'
  <1>1. /\ UNCHANGED <<nav, view, handler, ask, held, arriving, flights, current, seq>>
        /\ UNCHANGED <<rows, asked>> \/ \E f : Draw(v, f)
    BY DEF Saved
  <1>2. CASE UNCHANGED <<rows, asked>>
    BY <1>1, <1>2, NothingDone DEF net, nav
  <1>3. ASSUME NEW f, Draw(v, f) PROVE HistoryInv'
    <2>1. /\ rows' = [rows EXCEPT ![v] = f]
          /\ asked' = IF current[v] = None THEN [asked EXCEPT ![v] = f] ELSE asked
      BY <1>3 DEF Draw
    <2>2. /\ rows = [w \in Views |-> rows[w]] /\ asked = [w \in Views |-> asked[w]]
          /\ current \in [Views -> 0..seq] /\ seq \in Nat
      BY DEF HistoryInv, Requests
    <2>3. /\ DOMAIN rows' = Views /\ rows' = [w \in Views |-> rows'[w]] /\ rows'[v] = f
          /\ DOMAIN asked' = Views /\ asked' = [w \in Views |-> asked'[w]]
          /\ \A w \in Views : w # v => rows'[w] = rows[w] /\ asked'[w] = asked[w]
          /\ current[v] = None => asked'[v] = f
          /\ current[v] # None => asked'[v] = asked[v]
      BY <2>1, <2>2
    <2>4. ASSUME NEW r \in flights'
          PROVE  r.view \in Views /\ r.id \in 1..seq' /\ (current'[r.view] = r.id => asked'[r.view] = r.filter)
      <3>1. r.view \in Views /\ r.id \in 1..seq /\ (current[r.view] = r.id => asked[r.view] = r.filter)
        BY <1>1 DEF HistoryInv, Requests, IsCurrent
      <3>2. current[r.view] = r.id => current[r.view] # None
        BY <2>2, <3>1 DEF None
      <3>3. QED
        BY <1>1, <2>3, <3>1, <3>2
    <2>5. LatestShown'
      BY <1>1, <2>3 DEF HistoryInv, Requests, LatestShown
    <2>6. Requests'
      BY <1>1, <2>2, <2>3, <2>4, <2>5 DEF Requests, IsCurrent
    <2>7. Holding'
      BY <1>1 DEF HistoryInv, Holding
    <2>8. QED
      BY <1>1, <2>6, <2>7, StillHere DEF HistoryInv, BoardTypes, nav
  <1>4. QED
    BY <1>1, <1>2, <1>3

\* The page that is opened is the first of its history.
LEMMA BoardInit ==
  ASSUME Init PROVE HistoryInv
  <1>1. /\ hist = <<Entry(First, 0)>> /\ at = 1 /\ pos = 0 /\ view = First
        /\ travel = <<>> /\ expected = NoPos /\ handler = None /\ correcting = FALSE
        /\ ask = NoAsk /\ held = None /\ arriving = {"free"}
        /\ asked = [v \in Views |-> None] /\ flights = {} /\ current = [v \in Views |-> None]
        /\ rows = [v \in Views |-> None] /\ seq = 0
    BY DEF Init
  <1>2. Entry(First, 0) \in Entries /\ First \in Views
    BY BoardAssumption DEF Entry, Entries
  <1>3. hist \in Seq(Entries) /\ Len(hist) = 1 /\ hist[1] = Entry(First, 0) /\ travel \in Seq(Int)
    BY <1>1, <1>2
  <1>4. BoardTypes
    <2>1. at \in 1..Len(hist) /\ pos \in Nat /\ view \in Views /\ handler \in Int
      BY <1>1, <1>2, <1>3 DEF None
    <2>2. held \in Nat \cup {StaffList, Correction} /\ arriving \subseteq {"free", "held"}
      BY <1>1 DEF None
    <2>3. QED
      BY <1>1, <1>3, <2>1, <2>2 DEF BoardTypes
  <1>5. Requests
    BY <1>1 DEF Requests, LatestShown, None
  <1>6. Ordered(hist)
    <2>1. hist[1].tag = 0
      BY <1>3 DEF Entry
    <2>2. QED
      BY <1>3, <2>1 DEF Ordered
  <1>7. Here /\ Waiting /\ Holding
    BY <1>1, <1>3 DEF Here, Waiting, Holding, None, StaffList, Correction
  <1>8. QED
    BY <1>4, <1>5, <1>6, <1>7 DEF HistoryInv

\* Every step of the tab keeps the invariant.
LEMMA BoardStep ==
  ASSUME HistoryInv, [Next]_vars
  PROVE  HistoryInv'
  <1>1. CASE UNCHANGED vars
    BY <1>1, NothingDone DEF vars, nav, net
  <1>2. ASSUME Type \/ Save PROVE HistoryInv'
    BY <1>2, NothingDone DEF Type, Save
  <1>3. QED
    BY <1>1, <1>2, AnswerStep, ClickStep, HashStep, SavedStep, PickStep, PressStep, ArriveStep, StayStep, LeaveStep,
       TraverseStep DEF Next

\* The invariant holds throughout, whichever part moves.
LEMMA BoardHolds == BrowserSpec => []HistoryInv
  <1>1. BrowserInit => HistoryInv
    BY BoardInit DEF BrowserInit
  <1>2. HistoryInv /\ [BrowserNext]_<<part, vars, monitors>> => HistoryInv'
    BY BoardStep DEF BrowserNext
  <1>3. QED
    BY <1>1, <1>2, PTL DEF BrowserSpec

\* Once the browser has moved and no dialog is open, the address, the position the page keeps
\* and the view it shows agree, and no flag of the popstate handler (expectedHistoryPosition,
\* decisionPending) is left behind to swallow the next press.
THEOREM HistoryAlwaysAgrees == BrowserSpec => []HistoryAgrees
  <1>1. HistoryInv => HistoryAgrees
    <2> SUFFICES ASSUME HistoryInv, travel = <<>>, ask = NoAsk PROVE HistoryAgrees
      BY DEF HistoryAgrees
    <2>1. expected = NoPos /\ hist[at] = Entry(view, pos) /\ ~correcting
      BY SettledHere DEF Settled
    <2>2. handler = None
      BY <2>1 DEF HistoryInv, Waiting, NoAsk
    <2>3. held # None => (held = StaffList /\ "held" \in arriving) \/ \E v \in Views : current[v] = held
      BY <2>1 DEF HistoryInv, BoardTypes, Waiting, Holding
    <2>4. QED
      BY <2>1, <2>2, <2>3 DEF HistoryAgrees, Entry
  <1>2. QED
    BY <1>1, BoardHolds, PTL

\* A view without a request under way shows the rows it asked for last, in whatever order the
\* answers came (createLatestRequestScope).
THEOREM LatestIsShown == BrowserSpec => []LatestShown
  <1>1. HistoryInv => LatestShown
    BY DEF HistoryInv, Requests
  <1>2. QED
    BY <1>1, BoardHolds, PTL

\* A view with unsaved input is left only by somebody who was asked and said so, also when a
\* popstate arrives while another dialog or a save is pending (createUnsavedChangesGuard).
THEOREM LeavingIsAsked == BrowserSpec => AskedBeforeLeaving
  <1>1. ASSUME HistoryInv, Next, view' # view, view \in typed
        PROVE  ask.kind = "link" /\ ask' = NoAsk
    <2>1. ASSUME NEW v \in Views, Click(v) PROVE FALSE
      <3> DEFINE move == [kind |-> "link", view |-> v]
      <3>1. Guarded(move) /\ move.kind = "link"
        BY <2>1 DEF Click
      <3> HIDE DEF move
      <3>2. QED
        BY <1>1, <3>1 DEF Guarded
    <2>2. ASSUME NEW f \in Filters, Pick(f) PROVE FALSE
      <3> DEFINE move == [kind |-> "pick", filter |-> f]
      <3>1. Guarded(move) /\ move.kind = "pick"
        BY <2>2 DEF Pick
      <3> HIDE DEF move
      <3>2. QED
        BY <1>1, <3>1 DEF Guarded
    <2>3. ASSUME NEW v \in Views, HashLink(v) PROVE FALSE
      BY <1>1, <2>3 DEF HashLink, NeedsGuard
    <2>4. CASE Leave
      <3>1. ask # NoAsk /\ ask' = NoAsk /\ Go(ask, "held") /\ ask \in GuardedMoves
        BY <1>1, <2>4 DEF Leave, HistoryInv, BoardTypes
      <3>2. QED
        BY <1>1, <3>1 DEF Go, GuardedMoves, GoMoves
    <2>5. CASE Traverse
      BY <1>1, <2>5, TraverseStep
    <2>6. ASSUME \/ \E r \in flights : Answer(r) \/ Fail(r)
                 \/ \E v \in Views : Saved(v)
                 \/ \E d \in {-1, 1} : Press(d)
                 \/ \E how \in {"free", "held"} : Arrive(how)
                 \/ Stay \/ Type \/ Save
          PROVE  FALSE
      BY <1>1, <2>6 DEF Answer, Fail, Saved, Press, Arrive, Stay, Type, Save
    <2>7. QED
      BY <1>1, <2>1, <2>2, <2>3, <2>4, <2>5, <2>6 DEF Next
  <1>2. HistoryInv /\ [BrowserNext]_<<part, vars, monitors>>
          => [view' # view /\ view \in typed => ask.kind = "link" /\ ask' = NoAsk]_vars
    BY <1>1 DEF BrowserNext, vars
  <1>3. QED
    BY <1>2, BoardHolds, PTL DEF BrowserSpec, AskedBeforeLeaving

-----------------------------------------------------------------------------
(* The mailed links.  Nothing but row locks stands between two senders, so *)
(* the invariant is about who holds what: one transaction at a time holds  *)
(* the row of the account, it has claimed every live link once it has      *)
(* cleared the older ones, and no two have claimed the same link.          *)


RequestType == [kind : Kinds \cup {"none"}, step : Steps, email : Addresses \cup {NULL},
                link : Links \cup {NULL}, rows : SUBSET Links]

Cleared(p) == req[p].step \in {"cleared", "sent"}

\* What a request carries at which point.
RequestOK(q) ==
  /\ q \in RequestType
  /\ q.kind \in Mails /\ q.step \in {"cleared", "sent"} => q.link \in Links
  /\ q.kind \in Mails /\ q.step \in {"loaded", "stamped", "cleared", "sent"} => q.email \in Addresses
  /\ q.step = "sent" => q.kind \in Mails
  /\ q.kind = "email" => q.email \in Addresses
  /\ q.kind = "reset" => q.link \in Links /\ q.step \in {"opened", "spent", "stamped", "cleared"}
  /\ q.kind = "reset" /\ q.step # "opened" => q.link \in q.rows
  /\ q.step \in {"opened", "spent"} => q.kind = "reset"
  /\ q.rows # {} => q.step \in {"spent", "stamped", "cleared", "sent"}

TypeInv == TypeOK /\ \A p \in Procs : RequestOK(req[p])

\* One transaction at a time holds the row of the account ...
OneHolder == \A p \in Procs, q \in Procs : HoldsAccount(p) /\ HoldsAccount(q) => p = q

\* ... and no row of a link is held by two, or by one that found it used.
RowsApart ==
  /\ \A p \in Procs, q \in Procs : p # q => req[p].rows \cap req[q].rows = {}
  /\ \A p \in Procs : req[p].rows \subseteq Unused

\* Who has ended the older links holds every one that works.
LiveClaimed == \A p \in Procs : Cleared(p) => Live \subseteq req[p].rows

\* The link of a mail under way is new.
NewIsNew == \A p \in Procs : req[p].kind \in Mails /\ Cleared(p) => link[req[p].link] = "none"

\* A link with which a password was set is used, and was used for one.
SpentIsUsed == \A l \in Links : spends[l] = 0 \/ (spends[l] = 1 /\ link[l] = "used")

OneLive == \A k \in Live, l \in Live : k = l

IInv == OneHolder /\ RowsApart /\ LiveClaimed /\ NewIsNew /\ SpentIsUsed /\ OneLive

-----------------------------------------------------------------------------
(* Types.                                                                  *)

LEMMA IdleOK ==
  /\ RequestOK(Idle) /\ Idle.step = "idle" /\ Idle.rows = {} /\ Idle.kind = "none"
  /\ Idle.email = NULL /\ Idle.link = NULL
  BY DEF RequestOK, Idle, RequestType, Steps, Kinds, Mails

\* One request changes.
LEMMA RequestStep ==
  ASSUME TypeInv, NEW p \in Procs, \E q : req' = [req EXCEPT ![p] = q], RequestOK(req'[p])
  PROVE  /\ req' \in [Procs -> RequestType]
         /\ \A q \in Procs : RequestOK(req[q])'
         /\ \A q \in Procs \ {p} : req'[q] = req[q]
  <1>1. \A q \in Procs \ {p} : req'[q] = req[q]
    BY DEF TypeInv, TypeOK
  <1>2. \A q \in Procs : RequestOK(req[q])'
    BY <1>1 DEF TypeInv
  <1>3. QED
    BY <1>1, <1>2 DEF TypeInv, TypeOK, RequestOK

\* What Begin, Goto and the end of a request make of it.
LEMMA BeginStep ==
  ASSUME TypeInv, NEW p \in Procs, NEW kind \in Kinds, NEW step \in Steps,
         NEW e \in Addresses \cup {NULL}, NEW l \in Links \cup {NULL}, Begin(p, kind, step, e, l)
  PROVE  /\ req'[p].kind = kind /\ req'[p].step = step /\ req'[p].email = e
         /\ req'[p].link = l /\ req'[p].rows = {}
         /\ req'[p] \in RequestType
         /\ \E q : req' = [req EXCEPT ![p] = q]
  <1> DEFINE new == [kind |-> kind, step |-> step, email |-> e, link |-> l, rows |-> {}]
  <1>1. req' = [req EXCEPT ![p] = new]
    BY DEF Begin
  <1>2. req'[p] = new
    BY <1>1 DEF TypeInv, TypeOK
  <1>3. new \in RequestType
    BY DEF RequestType
  <1>4. new.kind = kind /\ new.step = step /\ new.email = e /\ new.link = l /\ new.rows = {}
    OBVIOUS
  <1> HIDE DEF new
  <1>5. QED
    BY <1>1, <1>2, <1>3, <1>4

LEMMA GotoStep ==
  ASSUME TypeInv, NEW p \in Procs, NEW step, Goto(p, step)
  PROVE  /\ req'[p].kind = req[p].kind /\ req'[p].step = step /\ req'[p].email = req[p].email
         /\ req'[p].link = req[p].link /\ req'[p].rows = req[p].rows
         /\ step \in Steps => req'[p] \in RequestType
         /\ \E q : req' = [req EXCEPT ![p] = q]
  <1>1. req[p] \in RequestType
    BY DEF TypeInv, RequestOK
  <1>2. \E q : req' = [req EXCEPT ![p] = q]
    BY DEF Goto
  <1>3. QED
    BY <1>1, <1>2 DEF Goto, TypeInv, TypeOK, RequestType

LEMMA EndedStep ==
  ASSUME NEW p \in Procs
  PROVE  /\ RequestOK(Ended(p)) /\ Ended(p).rows = {}
         /\ Ended(p).step \in {"idle", "done"}
  <1>1. CASE req[p].kind = "forgot"
    <2>1. PICK q \in RequestType : q = [Idle EXCEPT !.kind = "forgot", !.step = "done"]
      BY IdleOK DEF RequestOK, RequestType, Steps, Kinds, Mails
    <2>2. q.kind = "forgot" /\ q.step = "done" /\ q.rows = {}
      BY <2>1, IdleOK DEF RequestOK, RequestType
    <2>3. RequestOK(q)
      BY <2>2 DEF RequestOK
    <2>4. QED
      BY <1>1, <2>1, <2>2, <2>3 DEF Ended
  <1>2. CASE req[p].kind # "forgot"
    BY <1>2, IdleOK DEF Ended
  <1>3. QED
    BY <1>1, <1>2

LEMMA InitTypeInv == MailInit => TypeInv
  <1> SUFFICES ASSUME MailInit PROVE TypeInv
    OBVIOUS
  <1>1. \A p \in Procs : RequestOK(req[p])
    BY IdleOK DEF MailInit
  <1>2. req \in [Procs -> RequestType]
    BY IdleOK DEF MailInit, RequestOK
  <1>3. account \in [email : Addresses, active : BOOLEAN, cooling : BOOLEAN, password : Nat]
    <2>1. account \in [email : Addresses, active : {TRUE}, cooling : {FALSE}, password : {0}]
      BY DEF MailInit
    <2>2. {TRUE} \subseteq BOOLEAN /\ {FALSE} \subseteq BOOLEAN /\ {0} \subseteq Nat
      OBVIOUS
    <2>3. QED
      BY <2>1, <2>2, Zenon
  <1>4. spent \in [mails : 0 .. MaxLinks, edits : 0 .. MaxEdits, faults : 0 .. MaxFaults]
    <2>1. 0 \in 0 .. MaxLinks /\ 0 \in 0 .. MaxEdits /\ 0 \in 0 .. MaxFaults
      BY ConstantsAssumption DEF ConstantsAssumption
    <2>2. QED
      BY <2>1 DEF MailInit
  <1>5. QED
    BY <1>1, <1>2, <1>3, <1>4 DEF MailInit, TypeInv, TypeOK, RequestType

\* Types after a step that changes one request, and the rest as given.
LEMMA TypeStep ==
  ASSUME TypeInv, NEW p \in Procs, \E q : req' = [req EXCEPT ![p] = q], RequestOK(req'[p]),
         account' \in [email : Addresses, active : BOOLEAN, cooling : BOOLEAN, password : Nat],
         link' \in [Links -> {"none", "live", "used", "expired"}],
         mailed' \in [Links -> Addresses \cup {NULL}],
         guard' \in BOOLEAN,
         spends' \in [Links -> Nat],
         spent' \in [mails : 0 .. MaxLinks, edits : 0 .. MaxEdits, faults : 0 .. MaxFaults]
  PROVE  TypeInv'
  BY RequestStep DEF TypeInv, TypeOK, RequestType

LEMMA Parts ==
  ASSUME TypeInv
  PROVE  /\ account \in [email : Addresses, active : BOOLEAN, cooling : BOOLEAN, password : Nat]
         /\ link \in [Links -> {"none", "live", "used", "expired"}]
         /\ mailed \in [Links -> Addresses \cup {NULL}]
         /\ guard \in BOOLEAN
         /\ spends \in [Links -> Nat]
         /\ spent \in [mails : 0 .. MaxLinks, edits : 0 .. MaxEdits, faults : 0 .. MaxFaults]
         /\ \A p \in Procs : req[p] \in RequestType /\ RequestOK(req[p])
  BY DEF TypeInv, TypeOK, RequestOK

LEMMA Bounds ==
  ASSUME TypeInv
  PROVE  /\ MailBound => spent' \in [mails : 0 .. MaxLinks, edits : 0 .. MaxEdits, faults : 0 .. MaxFaults]
         /\ EditBound => spent' \in [mails : 0 .. MaxLinks, edits : 0 .. MaxEdits, faults : 0 .. MaxFaults]
         /\ spent.faults < MaxFaults /\ spent' = [spent EXCEPT !.faults = @ + 1] =>
              spent' \in [mails : 0 .. MaxLinks, edits : 0 .. MaxEdits, faults : 0 .. MaxFaults]
  BY ConstantsAssumption DEF ConstantsAssumption, MailBound, EditBound, TypeInv, TypeOK

LEMMA NextTypeInv == TypeInv /\ [MailNext]_mailvars => TypeInv'
  <1> SUFFICES ASSUME TypeInv, [MailNext]_mailvars PROVE TypeInv'
    OBVIOUS
  <1>1. CASE UNCHANGED mailvars
    BY <1>1 DEF mailvars, TypeInv, TypeOK, RequestOK
  <1>2. ASSUME NEW p \in Procs, Arrives(p) PROVE TypeInv'
    <2>0. {"forgot", "invite", "reset", "change", "email"} \subseteq Kinds
           /\ {"asking", "loaded", "opened"} \subseteq Steps /\ {"forgot", "invite"} = Mails
           /\ account.email \in Addresses
      BY Parts DEF Kinds, Mails, Steps
    <2>1. CASE ForgotRead(p)
      <3>0. Begin(p, "forgot", "asking", NULL, NULL)
        BY <2>1 DEF ForgotRead
      <3>1. /\ req'[p].kind = "forgot" /\ req'[p].step = "asking" /\ req'[p].rows = {}
            /\ req'[p] \in RequestType /\ \E q : req' = [req EXCEPT ![p] = q]
        BY <2>0, <3>0, BeginStep
      <3>2. RequestOK(req'[p])
        BY <3>1 DEF RequestOK
      <3>3. QED
        BY <2>1, <3>1, <3>2, TypeStep, Parts, Bounds DEF ForgotRead
    <2>2. CASE Distribute(p)
      <3>0. Begin(p, "invite", "loaded", account.email, NULL)
        BY <2>2 DEF Distribute
      <3>1. /\ req'[p].kind = "invite" /\ req'[p].step = "loaded" /\ req'[p].rows = {}
            /\ req'[p].email \in Addresses
            /\ req'[p] \in RequestType /\ \E q : req' = [req EXCEPT ![p] = q]
        BY <2>0, <3>0, BeginStep
      <3>2. RequestOK(req'[p])
        BY <3>1 DEF RequestOK
      <3>3. QED
        BY <2>2, <3>1, <3>2, TypeStep, Parts, Bounds DEF Distribute
    <2>3. CASE OpenLink(p)
      <3>0. PICK l \in Links : Begin(p, "reset", "opened", NULL, l)
        BY <2>3 DEF OpenLink
      <3>1. /\ req'[p].kind = "reset" /\ req'[p].step = "opened" /\ req'[p].rows = {}
            /\ req'[p].link \in Links
            /\ req'[p] \in RequestType /\ \E q : req' = [req EXCEPT ![p] = q]
        BY <2>0, <3>0, BeginStep
      <3>2. RequestOK(req'[p])
        BY <3>1 DEF RequestOK, Mails
      <3>3. QED
        BY <2>3, <3>1, <3>2, TypeStep, Parts, Bounds DEF OpenLink
    <2>4. CASE ChangePassword(p)
      <3>0. Begin(p, "change", "loaded", NULL, NULL)
        BY <2>4 DEF ChangePassword
      <3>1. /\ req'[p].kind = "change" /\ req'[p].step = "loaded" /\ req'[p].rows = {}
            /\ req'[p] \in RequestType /\ \E q : req' = [req EXCEPT ![p] = q]
        BY <2>0, <3>0, BeginStep
      <3>2. RequestOK(req'[p])
        BY <3>1 DEF RequestOK, Mails
      <3>3. QED
        BY <2>4, <3>1, <3>2, TypeStep, Parts, Bounds DEF ChangePassword
    <2>5. CASE ChangeEmail(p)
      <3>0. PICK a \in Addresses : Begin(p, "email", "loaded", a, NULL)
        BY <2>5 DEF ChangeEmail
      <3>1. /\ req'[p].kind = "email" /\ req'[p].step = "loaded" /\ req'[p].rows = {}
            /\ req'[p].email \in Addresses
            /\ req'[p] \in RequestType /\ \E q : req' = [req EXCEPT ![p] = q]
        BY <2>0, <3>0, BeginStep
      <3>2. RequestOK(req'[p])
        BY <3>1 DEF RequestOK, Mails
      <3>3. QED
        BY <2>5, <3>1, <3>2, TypeStep, Parts, Bounds DEF ChangeEmail
    <2>6. QED
      BY <1>2, <2>1, <2>2, <2>3, <2>4, <2>5 DEF Arrives
  <1>3. ASSUME NEW p \in Procs, ForgotQueue(p) PROVE TypeInv'
    <2>1. RequestOK(req[p]) /\ req[p].step = "asking" /\ "queued" \in Steps
      BY <1>3, Parts DEF ForgotQueue, Steps
    <2>2. CASE req' = [req EXCEPT ![p] = Idle]
      <3>1. req'[p] = Idle
        BY <2>2 DEF TypeInv, TypeOK
      <3>2. QED
        BY <1>3, <2>2, <3>1, IdleOK, TypeStep, Parts DEF ForgotQueue
    <2>3. CASE Goto(p, "queued")
      <3>1. RequestOK(req'[p]) /\ \E q : req' = [req EXCEPT ![p] = q]
        BY <2>1, <2>3, GotoStep DEF RequestOK
      <3>2. QED
        BY <1>3, <3>1, TypeStep, Parts DEF ForgotQueue
    <2>4. QED
      BY <1>3, <2>2, <2>3 DEF ForgotQueue
  <1>4. ASSUME NEW p \in Procs, LoadAccount(p) PROVE TypeInv'
    <2>1. /\ req'[p].kind = req[p].kind /\ req'[p].step = "loaded" /\ req'[p].email = account.email
          /\ req'[p].rows = req[p].rows /\ req'[p].link = req[p].link
          /\ req'[p] \in RequestType
          /\ req[p].step = "queued"
      BY <1>4 DEF LoadAccount, TypeInv, TypeOK, RequestType, Steps
    <2>2. account.email \in Addresses /\ RequestOK(req[p])
      BY Parts
    <2>3. RequestOK(req'[p])
      BY <2>1, <2>2 DEF RequestOK
    <2>4. \E q : req' = [req EXCEPT ![p] = q]
      BY <1>4 DEF LoadAccount
    <2>5. QED
      BY <1>4, <2>3, <2>4, TypeStep, Parts DEF LoadAccount
  <1>5. ASSUME NEW p \in Procs, Stamp(p) PROVE TypeInv'
    <2>1. RequestOK(req[p]) /\ req[p].step \in {"loaded", "spent"} /\ Goto(p, "stamped") /\ "stamped" \in Steps
      BY <1>5, Parts DEF Stamp, Steps
    <2>2. /\ req'[p].kind = req[p].kind /\ req'[p].step = "stamped" /\ req'[p].email = req[p].email
          /\ req'[p].link = req[p].link /\ req'[p].rows = req[p].rows
          /\ req'[p] \in RequestType /\ \E q : req' = [req EXCEPT ![p] = q]
      BY <2>1, GotoStep
    <2>3. RequestOK(req'[p])
      BY <2>1, <2>2 DEF RequestOK, Mails
    <2>4. QED
      BY <1>5, <2>2, <2>3, TypeStep, Parts DEF Stamp
  <1>6. ASSUME NEW p \in Procs, InvalidateTokens(p) PROVE TypeInv'
    <2>1. PICK l \in IF req[p].kind \in Mails THEN Links \ Drawn ELSE {req[p].link} :
            req' = [req EXCEPT ![p].step = "cleared", ![p].link = l, ![p].rows = @ \cup Unused]
      BY <1>6 DEF InvalidateTokens
    <2>2. RequestOK(req[p]) /\ req[p].step = "stamped" /\ Unused \subseteq Links
      BY <1>6, Parts DEF InvalidateTokens, Unused
    <2>3. l \in Links \cup {NULL} /\ (req[p].kind \in Mails => l \in Links)
           /\ (req[p].kind \notin Mails => l = req[p].link)
      BY <2>2 DEF RequestOK, RequestType
    <2>4. /\ req'[p].kind = req[p].kind /\ req'[p].step = "cleared" /\ req'[p].email = req[p].email
          /\ req'[p].link = l /\ req'[p].rows = req[p].rows \cup Unused
          /\ req'[p] \in RequestType
      <3>1. req \in [Procs -> RequestType] /\ req[p] \in RequestType
        BY DEF TypeInv, TypeOK, RequestType
      <3>2. req'[p] = [req[p] EXCEPT !.step = "cleared", !.link = l, !.rows = @ \cup Unused]
        BY <2>1, <3>1
      <3>3. "cleared" \in Steps /\ req[p].rows \cup Unused \in SUBSET Links
        BY <2>2, <3>1 DEF Steps, RequestType
      <3>4. QED
        BY <2>3, <3>1, <3>2, <3>3 DEF RequestType
    <2>5. RequestOK(req'[p])
      BY <2>2, <2>3, <2>4 DEF RequestOK, Mails
    <2>6. \E q : req' = [req EXCEPT ![p] = q]
      BY <2>1
    <2>7. QED
      BY <1>6, <2>5, <2>6, TypeStep, Parts DEF InvalidateTokens
  <1>7. ASSUME NEW p \in Procs, SendMail(p) PROVE TypeInv'
    <2>1. RequestOK(req[p]) /\ req[p].kind \in Mails /\ req[p].step = "cleared" /\ Goto(p, "sent") /\ "sent" \in Steps
      BY <1>7, Parts DEF SendMail, Steps
    <2>2. RequestOK(req'[p]) /\ \E q : req' = [req EXCEPT ![p] = q]
      BY <2>1, GotoStep DEF RequestOK, Mails
    <2>3. mailed' \in [Links -> Addresses \cup {NULL}]
      BY <1>7, <2>1, Parts DEF SendMail, RequestOK
    <2>4. QED
      BY <1>7, <2>2, <2>3, TypeStep, Parts DEF SendMail
  <1>8. ASSUME NEW p \in Procs, req' = [req EXCEPT ![p] = Ended(p)]
        PROVE  RequestOK(req'[p]) /\ \E q : req' = [req EXCEPT ![p] = q]
    BY <1>8, EndedStep DEF TypeInv, TypeOK
  <1>9. ASSUME NEW p \in Procs, req' = [req EXCEPT ![p] = Idle]
        PROVE  RequestOK(req'[p]) /\ \E q : req' = [req EXCEPT ![p] = q]
    BY <1>9, IdleOK DEF TypeInv, TypeOK
  <1>10. ASSUME NEW p \in Procs PROVE Closed(p) \in [Links -> {"none", "live", "used", "expired"}]
    BY Parts DEF Closed
  <1>11. ASSUME NEW p \in Procs, CommitMail(p) PROVE TypeInv'
    <2>1. link' \in [Links -> {"none", "live", "used", "expired"}]
      BY <1>10, <1>11 DEF CommitMail
    <2>2. account' \in [email : Addresses, active : BOOLEAN, cooling : BOOLEAN, password : Nat]
      BY <1>11, Parts DEF CommitMail
    <2>3. QED
      BY <1>8, <1>11, <2>1, <2>2, TypeStep, Parts DEF CommitMail
  <1>12. ASSUME NEW p \in Procs, LeaveGuard(p) PROVE TypeInv'
    BY <1>9, <1>12, TypeStep, Parts DEF LeaveGuard
  <1>13. ASSUME NEW p \in Procs, ConsumeEmailToken(p) PROVE TypeInv'
    <2>1. req[p].step = "opened" /\ RequestOK(req[p])
      BY <1>13, Parts DEF ConsumeEmailToken
    <2>2. CASE req' = [req EXCEPT ![p].step = "spent", ![p].rows = {req[p].link}]
      <3>1. /\ req'[p].kind = req[p].kind /\ req'[p].step = "spent" /\ req'[p].email = req[p].email
            /\ req'[p].link = req[p].link /\ req'[p].rows = {req[p].link}
            /\ req'[p] \in RequestType
        BY <2>1, <2>2 DEF TypeInv, TypeOK, RequestOK, RequestType, Steps
      <3>2. RequestOK(req'[p])
        BY <2>1, <3>1 DEF RequestOK, Mails
      <3>3. \E q : req' = [req EXCEPT ![p] = q]
        BY <2>2
      <3>4. QED
        BY <1>13, <3>2, <3>3, TypeStep, Parts DEF ConsumeEmailToken
    <2>3. CASE req' = [req EXCEPT ![p] = Idle]
      BY <1>9, <1>13, <2>3, TypeStep, Parts DEF ConsumeEmailToken
    <2>4. QED
      BY <1>13, <2>2, <2>3 DEF ConsumeEmailToken
  <1>14. ASSUME NEW p \in Procs, CommitEdit(p) PROVE TypeInv'
    <2>1. link' \in [Links -> {"none", "live", "used", "expired"}]
      BY <1>10, <1>14 DEF CommitEdit
    <2>2. account' \in [email : Addresses, active : BOOLEAN, cooling : BOOLEAN, password : Nat]
      <3>1. req[p].kind = "email" => req[p].email \in Addresses
        BY Parts DEF RequestOK
      <3>2. QED
        BY <1>14, <3>1, Parts DEF CommitEdit
    <2>3. spends' \in [Links -> Nat]
      <3>1. req[p].kind = "reset" => req[p].link \in Links
        BY Parts DEF RequestOK
      <3>2. QED
        BY <1>14, <3>1, Parts DEF CommitEdit
    <2>4. QED
      BY <1>9, <1>14, <2>1, <2>2, <2>3, TypeStep, Parts DEF CommitEdit
  <1>15. ASSUME NEW p \in Procs, DeadlockVictim(p) \/ Fails(p) PROVE TypeInv'
    BY <1>8, <1>15, TypeStep, Parts, Bounds DEF DeadlockVictim, Fails, RollBack
  <1>16. ASSUME NEW l \in Links, LinkExpires(l) PROVE TypeInv'
    BY <1>16 DEF LinkExpires, TypeInv, TypeOK, RequestOK
  <1>17. CASE SetActive
    BY <1>17, Bounds DEF SetActive, TypeInv, TypeOK, RequestOK
  <1>18. CASE GuardLapses \/ CoolDownEnds
    BY <1>18 DEF GuardLapses, CoolDownEnds, TypeInv, TypeOK, RequestOK
  <1>19. QED
    BY <1>1, <1>2, <1>3, <1>4, <1>5, <1>6, <1>7, <1>11, <1>12, <1>13, <1>14, <1>15, <1>16, <1>17, <1>18
       DEF MailNext, Proceeds

-----------------------------------------------------------------------------
(* One link works, and once.                                               *)

LEMMA InitIInv == MailInit => IInv
  <1> SUFFICES ASSUME MailInit PROVE IInv
    OBVIOUS
  <1>1. \A p \in Procs : req[p].step = "idle" /\ req[p].rows = {}
    BY IdleOK DEF MailInit
  <1>2. Live = {}
    BY DEF MailInit, Live
  <1>3. QED
    BY <1>1, <1>2 DEF IInv, OneHolder, RowsApart, LiveClaimed, NewIsNew, SpentIsUsed, OneLive,
                      HoldsAccount, Cleared, MailInit

\* Steps of p that take no row, and end no link: it goes on with what it holds,
\* or lets go of it.
Quiet(p) ==
  /\ link' = link /\ spends' = spends
  /\ \A q \in Procs \ {p} : req'[q] = req[q]
  /\ req'[p].rows \subseteq req[p].rows
  /\ req'[p].step \in {"stamped", "cleared", "sent"} =>
       /\ req[p].step \in {"stamped", "cleared", "sent"}
       /\ req'[p].step = "stamped" => req[p].step = "stamped"
       /\ req'[p].step # "stamped" => req[p].step # "stamped"
       /\ req'[p].rows = req[p].rows /\ req'[p].link = req[p].link /\ req'[p].kind = req[p].kind

LEMMA QuietKeeps ==
  ASSUME TypeInv, IInv, NEW p \in Procs, Quiet(p)
  PROVE  IInv'
  <1>1. \A q \in Procs : HoldsAccount(q)' => HoldsAccount(q)
    BY DEF Quiet, HoldsAccount
  <1>2. \A q \in Procs : req'[q].rows \subseteq req[q].rows
    BY DEF Quiet
  <1>3. \A q \in Procs : Cleared(q)' => /\ Cleared(q) /\ req'[q].rows = req[q].rows
                                        /\ req'[q].link = req[q].link /\ req'[q].kind = req[q].kind
    BY DEF Quiet, Cleared
  <1>4. Live' = Live /\ Unused' = Unused /\ link' = link /\ spends' = spends
    BY DEF Quiet, Live, Unused
  <1>5. OneHolder'
    BY <1>1 DEF IInv, OneHolder
  <1>6. RowsApart'
    BY <1>2, <1>4 DEF IInv, RowsApart
  <1>7. LiveClaimed' /\ NewIsNew'
    BY <1>3, <1>4 DEF IInv, LiveClaimed, NewIsNew
  <1>8. SpentIsUsed' /\ OneLive'
    BY <1>4 DEF IInv, SpentIsUsed, OneLive
  <1>9. QED
    BY <1>5, <1>6, <1>7, <1>8 DEF IInv

\* A new request of p holds nothing; neither does one that has ended.
LEMMA FreshIsQuiet ==
  ASSUME TypeInv, NEW p \in Procs, NEW x, req' = [req EXCEPT ![p] = x],
         x.rows = {}, x.step \notin {"stamped", "cleared", "sent"},
         link' = link, spends' = spends
  PROVE  Quiet(p)
  <1>1. req'[p] = x /\ \A q \in Procs \ {p} : req'[q] = req[q]
    BY DEF TypeInv, TypeOK
  <1>2. QED
    BY <1>1 DEF Quiet

LEMMA BeginIsQuiet ==
  ASSUME TypeInv, NEW p \in Procs, NEW kind, NEW step \in {"asking", "loaded", "opened"}, NEW e, NEW l,
         Begin(p, kind, step, e, l), link' = link, spends' = spends
  PROVE  Quiet(p)
  <1> DEFINE new == [kind |-> kind, step |-> step, email |-> e, link |-> l, rows |-> {}]
  <1>1. req' = [req EXCEPT ![p] = new] /\ new.rows = {} /\ new.step = step
    BY DEF Begin
  <1> HIDE DEF new
  <1>2. QED
    BY <1>1, FreshIsQuiet

LEMMA ArrivesKeeps ==
  ASSUME TypeInv, IInv, NEW p \in Procs, Arrives(p)
  PROVE  IInv'
  <1>1. Quiet(p)
    <2>1. CASE ForgotRead(p)
      BY <2>1, BeginIsQuiet DEF ForgotRead
    <2>2. CASE Distribute(p)
      BY <2>2, BeginIsQuiet DEF Distribute
    <2>3. CASE OpenLink(p)
      BY <2>3, BeginIsQuiet DEF OpenLink
    <2>4. CASE ChangePassword(p)
      BY <2>4, BeginIsQuiet DEF ChangePassword
    <2>5. CASE ChangeEmail(p)
      BY <2>5, BeginIsQuiet DEF ChangeEmail
    <2>6. QED
      BY <2>1, <2>2, <2>3, <2>4, <2>5 DEF Arrives
  <1>2. QED
    BY <1>1, QuietKeeps

LEMMA EndKeeps ==
  ASSUME TypeInv, IInv, NEW p \in Procs, link' = link, spends' = spends,
         req' = [req EXCEPT ![p] = Ended(p)] \/ req' = [req EXCEPT ![p] = Idle]
  PROVE  IInv'
  BY IdleOK, EndedStep, FreshIsQuiet, QuietKeeps

LEMMA GoesOnKeeps ==
  ASSUME TypeInv, IInv, NEW p \in Procs,
         ForgotQueue(p) \/ LoadAccount(p) \/ SendMail(p) \/ LeaveGuard(p) \/ DeadlockVictim(p) \/ Fails(p)
  PROVE  IInv'
  <1>1. CASE ForgotQueue(p)
    <2>1. CASE guard
      BY <1>1, <2>1, EndKeeps DEF ForgotQueue
    <2>2. CASE ~guard
      <3>1. /\ req'[p].step = "queued" /\ req'[p].rows = req[p].rows
            /\ link' = link /\ spends' = spends
            /\ \E x : req' = [req EXCEPT ![p] = x]
        BY <1>1, <2>2, GotoStep DEF ForgotQueue
      <3>2. \A q \in Procs \ {p} : req'[q] = req[q]
        BY <3>1 DEF TypeInv, TypeOK
      <3>3. Quiet(p)
        BY <3>1, <3>2 DEF Quiet
      <3>4. QED
        BY <3>3, QuietKeeps
    <2>3. QED
      BY <2>1, <2>2
  <1>2. CASE LoadAccount(p)
    <2>1. /\ req'[p].step = "loaded" /\ req'[p].rows = req[p].rows
          /\ \A q \in Procs \ {p} : req'[q] = req[q]
      BY <1>2 DEF LoadAccount, TypeInv, TypeOK
    <2>2. Quiet(p)
      BY <1>2, <2>1 DEF Quiet, LoadAccount
    <2>3. QED
      BY <2>2, QuietKeeps
  <1>3. CASE SendMail(p)
    <2>1. /\ req'[p].step = "sent" /\ req'[p].rows = req[p].rows /\ req[p].step = "cleared"
          /\ req'[p].kind = req[p].kind /\ req'[p].link = req[p].link
          /\ link' = link /\ spends' = spends
          /\ \E x : req' = [req EXCEPT ![p] = x]
      BY <1>3, GotoStep DEF SendMail
    <2>2. \A q \in Procs \ {p} : req'[q] = req[q]
      BY <2>1 DEF TypeInv, TypeOK
    <2>3. Quiet(p)
      BY <2>1, <2>2 DEF Quiet
    <2>4. QED
      BY <2>3, QuietKeeps
  <1>4. CASE LeaveGuard(p)
    BY <1>4, EndKeeps DEF LeaveGuard
  <1>5. CASE DeadlockVictim(p) \/ Fails(p)
    BY <1>5, EndKeeps DEF DeadlockVictim, Fails, RollBack
  <1>6. QED
    BY <1>1, <1>2, <1>3, <1>4, <1>5

\* The row of the account is taken while nobody has it.
LEMMA StampKeeps ==
  ASSUME TypeInv, IInv, NEW p \in Procs, Stamp(p)
  PROVE  IInv'
  <1>1. /\ req'[p].step = "stamped" /\ req'[p].rows = req[p].rows
        /\ link' = link /\ spends' = spends
        /\ \E x : req' = [req EXCEPT ![p] = x]
    BY GotoStep DEF Stamp
  <1>2. \A q \in Procs \ {p} : req'[q] = req[q]
    BY <1>1 DEF TypeInv, TypeOK
  <1>3. \A q \in Procs : req'[q].rows = req[q].rows
    BY <1>1, <1>2
  <1>4. \A q \in Procs : ~HoldsAccount(q)
    BY DEF Stamp, AccountFree
  <1>5. \A q \in Procs : (HoldsAccount(q)' => q = p) /\ ~Cleared(q)'
    BY <1>1, <1>2, <1>4 DEF HoldsAccount, Cleared
  <1>6. Live' = Live /\ Unused' = Unused
    BY <1>1 DEF Live, Unused
  <1>7. QED
    BY <1>1, <1>3, <1>5, <1>6 DEF IInv, OneHolder, RowsApart, LiveClaimed, NewIsNew, SpentIsUsed, OneLive

\* The older links are claimed, all of them, and a new one is drawn.
LEMMA InvalidateKeeps ==
  ASSUME TypeInv, IInv, NEW p \in Procs, InvalidateTokens(p)
  PROVE  IInv'
  <1>1. PICK l \in IF req[p].kind \in Mails THEN Links \ Drawn ELSE {req[p].link} :
          req' = [req EXCEPT ![p].step = "cleared", ![p].link = l, ![p].rows = @ \cup Unused]
    BY DEF InvalidateTokens
  <1>2. /\ req'[p].step = "cleared" /\ req'[p].link = l /\ req'[p].rows = req[p].rows \cup Unused
        /\ req'[p].kind = req[p].kind /\ \A q \in Procs \ {p} : req'[q] = req[q]
    <2>1. req \in [Procs -> RequestType] /\ req[p] \in RequestType
      BY DEF TypeInv, TypeOK, RequestType
    <2>2. req'[p] = [req[p] EXCEPT !.step = "cleared", !.link = l, !.rows = @ \cup Unused]
      BY <1>1, <2>1
    <2>3. \A q \in Procs \ {p} : req'[q] = req[q]
      BY <1>1, <2>1
    <2>4. QED
      BY <2>1, <2>2, <2>3 DEF RequestType
  <1>3. link' = link /\ spends' = spends /\ req[p].step = "stamped" /\ RowsFree(p, Unused)
    BY DEF InvalidateTokens
  <1>4. Live' = Live /\ Unused' = Unused /\ Live \subseteq Unused
    BY <1>3 DEF Live, Unused
  <1>5. \A q \in Procs : HoldsAccount(q)' => HoldsAccount(q)
    BY <1>2, <1>3 DEF HoldsAccount
  <1>6. OneHolder'
    BY <1>5 DEF IInv, OneHolder
  <1>7. \A q \in Procs : Cleared(q)' => q = p
    <2>1. HoldsAccount(p) /\ \A q \in Procs : Cleared(q) => HoldsAccount(q)
      BY <1>3 DEF HoldsAccount, Cleared
    <2>2. \A q \in Procs \ {p} : ~Cleared(q)
      BY <2>1 DEF IInv, OneHolder
    <2>3. QED
      BY <1>2, <2>2 DEF Cleared
  <1>8. RowsApart'
    <2>1. \A q \in Procs \ {p} : req'[q].rows = req[q].rows /\ req[q].rows \cap Unused = {}
      BY <1>2, <1>3 DEF RowsFree
    <2>2. \A q \in Procs : req[q].rows \subseteq Unused
      BY DEF IInv, RowsApart
    <2>3. req'[p].rows = Unused
      BY <1>2, <2>2
    <2>4. QED
      BY <1>4, <2>1, <2>2, <2>3 DEF IInv, RowsApart
  <1>9. LiveClaimed'
    BY <1>2, <1>4, <1>7 DEF LiveClaimed
  <1>10. NewIsNew'
    <2>1. req[p].kind \in Mails => link[l] = "none"
      BY <1>1 DEF Drawn
    <2>2. QED
      BY <1>2, <1>3, <1>7, <2>1 DEF NewIsNew
  <1>11. SpentIsUsed' /\ OneLive'
    BY <1>3, <1>4 DEF IInv, SpentIsUsed, OneLive
  <1>12. QED
    BY <1>6, <1>8, <1>9, <1>10, <1>11 DEF IInv

\* A link is claimed by one that found it live and unclaimed.
LEMMA ConsumeKeeps ==
  ASSUME TypeInv, IInv, NEW p \in Procs, ConsumeEmailToken(p)
  PROVE  IInv'
  <1>1. CASE link[req[p].link] = "live" /\ account.active
    <2> DEFINE l == req[p].link
    <2>1. req' = [req EXCEPT ![p].step = "spent", ![p].rows = {l}] /\ req[p].step = "opened"
      BY <1>1 DEF ConsumeEmailToken
    <2>2. /\ req'[p].step = "spent" /\ req'[p].rows = {l}
          /\ \A q \in Procs \ {p} : req'[q] = req[q]
      BY <2>1 DEF TypeInv, TypeOK
    <2>3. link' = link /\ spends' = spends /\ RowsFree(p, {l})
      BY DEF ConsumeEmailToken
    <2>4. l \in Unused
      <3>1. RequestOK(req[p])
        BY Parts
      <3>2. l \in Links
        BY <2>1, <3>1 DEF RequestOK
      <3>3. QED
        BY <1>1, <3>2 DEF Unused
    <2>5. Live' = Live /\ Unused' = Unused
      BY <2>3 DEF Live, Unused
    <2> HIDE DEF l
    <2>6. \A q \in Procs : HoldsAccount(q)' => HoldsAccount(q)
      BY <2>2 DEF HoldsAccount
    <2>7. \A q \in Procs : Cleared(q)' => Cleared(q) /\ req'[q] = req[q]
      BY <2>2 DEF Cleared
    <2>8. OneHolder' /\ LiveClaimed' /\ NewIsNew'
      BY <2>3, <2>5, <2>6, <2>7 DEF IInv, OneHolder, LiveClaimed, NewIsNew
    <2>9. RowsApart'
      BY <2>2, <2>3, <2>4, <2>5 DEF IInv, RowsApart, RowsFree
    <2>10. SpentIsUsed' /\ OneLive'
      BY <2>3, <2>5 DEF IInv, SpentIsUsed, OneLive
    <2>11. QED
      BY <2>8, <2>9, <2>10 DEF IInv
  <1>2. CASE ~(link[req[p].link] = "live" /\ account.active)
    BY <1>2, EndKeeps DEF ConsumeEmailToken
  <1>3. QED
    BY <1>1, <1>2

\* What both commits have in common: p held the account, and every live link.
LEMMA Commits ==
  ASSUME TypeInv, IInv, NEW p \in Procs, Cleared(p),
         req' = [req EXCEPT ![p] = Ended(p)] \/ req' = [req EXCEPT ![p] = Idle]
  PROVE  /\ OneHolder'
         /\ \A q \in Procs : ~Cleared(q)'
         /\ req'[p].rows = {} /\ \A q \in Procs \ {p} : req'[q] = req[q]
         /\ Live \subseteq req[p].rows /\ req[p].rows \subseteq Unused
         /\ \A q \in Procs \ {p} : req[q].rows \subseteq Unused \ req[p].rows
  <1>1. req'[p].rows = {} /\ req'[p].step \in {"idle", "done"} /\ \A q \in Procs \ {p} : req'[q] = req[q]
    BY IdleOK, EndedStep DEF TypeInv, TypeOK
  <1>2. \A q \in Procs \ {p} : ~HoldsAccount(q)
    BY DEF IInv, OneHolder, Cleared, HoldsAccount
  <1>3. \A q \in Procs : ~HoldsAccount(q)' /\ ~Cleared(q)'
    BY <1>1, <1>2 DEF HoldsAccount, Cleared
  <1>4. QED
    BY <1>1, <1>3 DEF IInv, OneHolder, LiveClaimed, RowsApart

LEMMA CommitMailKeeps ==
  ASSUME TypeInv, IInv, NEW p \in Procs, CommitMail(p)
  PROVE  IInv'
  <1> DEFINE new == req[p].link
  <1>1. /\ req[p].step = "sent" /\ req' = [req EXCEPT ![p] = Ended(p)] /\ spends' = spends
        /\ link' = [Closed(p) EXCEPT ![new] = "live"]
    BY DEF CommitMail
  <1>2. RequestOK(req[p])
    BY Parts
  <1>3. new \in Links /\ link[new] = "none"
    BY <1>1, <1>2 DEF RequestOK, IInv, NewIsNew, Cleared
  <1>4. /\ OneHolder'
        /\ \A q \in Procs : ~Cleared(q)'
        /\ req'[p].rows = {} /\ \A q \in Procs \ {p} : req'[q] = req[q]
        /\ Live \subseteq req[p].rows /\ req[p].rows \subseteq Unused
        /\ \A q \in Procs \ {p} : req[q].rows \subseteq Unused \ req[p].rows
    BY <1>1, Commits DEF Cleared
  <1> HIDE DEF new
  <1>5. \A l \in Links : link'[l] = IF l = new THEN "live" ELSE IF l \in req[p].rows THEN "used" ELSE link[l]
    BY <1>1 DEF Closed
  <1>6. Live' = {new}
    BY <1>3, <1>4, <1>5 DEF Live
  <1>7. Unused \ req[p].rows \subseteq Unused'
    BY <1>5 DEF Unused
  <1>8. RowsApart'
    BY <1>4, <1>7 DEF RowsApart, IInv
  <1>9. SpentIsUsed'
    BY <1>1, <1>3, <1>4, <1>5 DEF IInv, SpentIsUsed, Unused
  <1>10. OneLive'
    BY <1>6 DEF OneLive
  <1>11. QED
    BY <1>4, <1>8, <1>9, <1>10 DEF IInv, LiveClaimed, NewIsNew

LEMMA CommitEditKeeps ==
  ASSUME TypeInv, IInv, NEW p \in Procs, CommitEdit(p)
  PROVE  IInv'
  <1>1. /\ req[p].step = "cleared" /\ req' = [req EXCEPT ![p] = Idle]
        /\ link' = Closed(p)
        /\ spends' = IF req[p].kind = "reset" THEN [spends EXCEPT ![req[p].link] = @ + 1] ELSE spends
    BY DEF CommitEdit
  <1>2. /\ OneHolder'
        /\ \A q \in Procs : ~Cleared(q)'
        /\ req'[p].rows = {} /\ \A q \in Procs \ {p} : req'[q] = req[q]
        /\ Live \subseteq req[p].rows /\ req[p].rows \subseteq Unused
        /\ \A q \in Procs \ {p} : req[q].rows \subseteq Unused \ req[p].rows
    BY <1>1, Commits DEF Cleared
  <1>3. \A l \in Links : link'[l] = IF l \in req[p].rows THEN "used" ELSE link[l]
    BY <1>1 DEF Closed
  <1>4. Live' = {} /\ Unused \ req[p].rows \subseteq Unused'
    BY <1>2, <1>3 DEF Live, Unused
  <1>5. RowsApart'
    BY <1>2, <1>4 DEF RowsApart, IInv
  <1>6. SpentIsUsed'
    <2>1. ASSUME NEW l \in Links PROVE spends'[l] = 0 \/ (spends'[l] = 1 /\ link'[l] = "used")
      <3>1. spends[l] = 0 \/ (spends[l] = 1 /\ link[l] = "used")
        BY DEF IInv, SpentIsUsed
      <3>2. CASE spends'[l] = spends[l]
        BY <1>2, <1>3, <3>1, <3>2 DEF Unused
      <3>3. CASE spends'[l] # spends[l]
        <4>1. req[p].kind = "reset" /\ l = req[p].link /\ spends'[l] = spends[l] + 1
          BY <1>1, <3>3, Parts
        <4>2. l \in req[p].rows
          BY <1>1, <4>1, Parts DEF RequestOK
        <4>3. link[l] # "used"
          BY <1>2, <4>2 DEF Unused
        <4>4. QED
          BY <1>3, <3>1, <4>1, <4>2, <4>3
      <3>4. QED
        BY <3>2, <3>3
    <2>2. QED
      BY <2>1 DEF SpentIsUsed
  <1>7. QED
    BY <1>2, <1>4, <1>5, <1>6 DEF IInv, LiveClaimed, NewIsNew, OneLive

\* Time takes a link, never gives one.
LEMMA ExpiresKeeps ==
  ASSUME TypeInv, IInv, NEW l \in Links, LinkExpires(l)
  PROVE  IInv'
  <1>1. /\ link[l] = "live" /\ req' = req /\ spends' = spends
        /\ \A k \in Links : link'[k] = IF k = l THEN "expired" ELSE link[k]
    BY Parts DEF LinkExpires
  <1>2. Live' \subseteq Live /\ Unused' = Unused
    BY <1>1 DEF Live, Unused
  <1>3. OneHolder' /\ RowsApart'
    BY <1>1, <1>2 DEF IInv, OneHolder, RowsApart, HoldsAccount
  <1>4. LiveClaimed' /\ OneLive'
    BY <1>1, <1>2 DEF IInv, LiveClaimed, OneLive, Cleared
  <1>5. NewIsNew'
    <2>1. ASSUME NEW p \in Procs, req[p].kind \in Mails, Cleared(p) PROVE link'[req[p].link] = "none"
      <3>1. req[p].link \in Links /\ link[req[p].link] = "none"
        BY <2>1, Parts DEF RequestOK, Cleared, IInv, NewIsNew
      <3>2. QED
        BY <1>1, <3>1
    <2>2. QED
      BY <1>1, <2>1 DEF NewIsNew, Cleared
  <1>6. SpentIsUsed'
    BY <1>1 DEF IInv, SpentIsUsed
  <1>7. QED
    BY <1>3, <1>4, <1>5, <1>6 DEF IInv

LEMMA NextIInv == TypeInv /\ IInv /\ [MailNext]_mailvars => IInv'
  <1> SUFFICES ASSUME TypeInv, IInv, [MailNext]_mailvars PROVE IInv'
    OBVIOUS
  <1>1. CASE link' = link /\ req' = req /\ spends' = spends
    BY <1>1 DEF IInv, OneHolder, RowsApart, LiveClaimed, NewIsNew, SpentIsUsed, OneLive,
                HoldsAccount, Cleared, Live, Unused
  <1>2. CASE UNCHANGED mailvars \/ GuardLapses \/ SetActive \/ CoolDownEnds
    BY <1>1, <1>2 DEF mailvars, GuardLapses, SetActive, CoolDownEnds
  <1>3. ASSUME NEW p \in Procs, Arrives(p) \/ Proceeds(p) \/ Fails(p) PROVE IInv'
    BY <1>3, ArrivesKeeps, GoesOnKeeps, StampKeeps, InvalidateKeeps, ConsumeKeeps, CommitMailKeeps,
       CommitEditKeeps DEF Proceeds
  <1>4. QED
    BY <1>2, <1>3, ExpiresKeeps DEF MailNext

-----------------------------------------------------------------------------

\* Every variable keeps its type, and every request carries what its next step
\* reads: a mail that goes out has a link and an address, a password is set by a
\* request that has claimed its link.
THEOREM MailTypesCorrect == MailSpec => []TypeInv
  <1>1. QED
    BY InitTypeInv, NextTypeInv, PTL DEF MailSpec

\* "Only the newest mail link stays valid": of all links mailed to the account at
\* most one works, and it sets one password, however many mails, password
\* changes, new addresses and openings overlap, time out or fail.
THEOREM LinkWorksOnce == MailSpec => []OneLinkWorksOnce
  <1>1. TypeInv /\ IInv => OneLinkWorksOnce
    <2> SUFFICES ASSUME TypeInv, IInv PROVE OneLinkWorksOnce
      OBVIOUS
    <2>1. \A l \in Links : spends[l] <= 1
      BY DEF IInv, SpentIsUsed
    <2>2. QED
      BY <2>1 DEF IInv, OneLive, OneLinkWorksOnce
  <1>2. MailSpec => [](TypeInv /\ IInv)
    BY InitTypeInv, NextTypeInv, InitIInv, NextIInv, PTL DEF MailSpec
  <1>3. QED
    BY <1>1, <1>2, PTL
=============================================================================
