----------------------------- MODULE Rebookings -----------------------------
(***************************************************************************)
(* Rebookings of one branch ("OPZ"): a client who was there books again on *)
(* the day of the visit or on the day after.  The code reads as little as  *)
(* it can (dashboard_service.py, _opz_events): a probe keeps bookings that *)
(* could have such a visit, and of the visits only those within reach of   *)
(* a booking that was kept.                                                *)
(*                                                                         *)
(* A moment is 2 * day (first half) or 2 * day + 1 (second half) in UTC;   *)
(* the branch's own clock is zone halves ahead.                            *)
(***************************************************************************)
EXTENDS Integers, FiniteSets, FiniteSetsExt

CONSTANTS
  Answers,         \* what YClients may answer for a visit: [id, client, at, made, done, barber, by]
  Placeholders,    \* staff rows of YClients itself
  SurvivorLimit,   \* OPZ_SURVIVOR_ID_LIMIT
  Days,            \* the calendar that is asked about
  MonthDays,       \* days of a month
  Readings,        \* <<offset of the branch, moment the page is read at>>
  MaxVisits        \* bound of the mirror

VARIABLES
  appts,           \* appointments of the branch
  zone,            \* companies.timezone
  opened,          \* companies.reporting_start_date
  now              \* factual_at

tables == <<appts, zone, opened, now>>

Null == 0

(* _local_event_moment, and the date of a visit *)
Local(moment) == moment + zone
DayOf(moment) == moment \div 2
LocalDay(moment) == DayOf(Local(moment))
Day(v) == LocalDay(v.at)

Month(d) == d \div MonthDays
FirstDay(m) == m * MonthDays
LastDay(m) == m * MonthDays + MonthDays - 1

Reported(v) == Day(v) >= opened
Happened(v) == v.at <= now
Business(v) == v.barber \notin Placeholders
Visited(b, v) == v.done /\ v.client = b.client

-----------------------------------------------------------------------------
(* Rows of the branch as the sync writes them. *)
Arrive(a) ==
  /\ Cardinality(appts) < MaxVisits /\ \A v \in appts : v.id # a.id
  /\ appts' = appts \cup {a}
  /\ UNCHANGED <<zone, opened, now>>

-----------------------------------------------------------------------------
(* _booked_within_anchor_reach: all days a local day around the booking can be. *)
WithinReach(v, b) == Day(v) \in DayOf(b.made) - 2 .. DayOf(b.made) + 1

(* The day before the period is read for the visits it already rebooked. *)
Reach(from) == from - 1

(* A mutant: the period alone is read. *)
BadCandidates(from, to) ==
  {b \in appts : /\ b.client # Null /\ LocalDay(b.made) \in from..to /\ b.made <= now
                 /\ \E v \in appts : Visited(b, v) /\ Day(v) < Day(b) /\ WithinReach(v, b)}

Candidates(from, to) ==
  {b \in appts : /\ b.client # Null /\ LocalDay(b.made) \in Reach(from)..to /\ b.made <= now
                 /\ \E v \in appts : /\ Visited(b, v) /\ Day(v) < Day(b) /\ WithinReach(v, b)
                                     /\ Day(v) \in Reach(from) - 1 .. to}

Visits(from, to, candidates) ==
  {v \in appts : /\ v.done /\ Day(v) \in Reach(from) - 1 .. to /\ Reported(v) /\ Happened(v)
                 /\ \/ Cardinality(candidates) > SurvivorLimit
                    \/ \E b \in candidates : v.client = b.client /\ WithinReach(v, b)}

(* _visit_order_key *)
Later(v, u) == v.at > u.at \/ (v.at = u.at /\ v.id >= u.id)
Earlier(b, c) == b.made < c.made \/ (b.made = c.made /\ b.id <= c.id)

(* The last visit of the client up to the day of the booking, where it rebooks that visit. *)
Anchors(b, vs) ==
  LET day == LocalDay(b.made)
      before == {v \in vs : v.client = b.client /\ Day(v) <= day}
  IN  {v \in before : /\ \A u \in before : Later(v, u)
                      /\ Day(b) > Day(v) /\ day \in {Day(v), Day(v) + 1}}

(* _first_visit_days: no visit of the history read up to the end is older. *)
First(v, to) ==
  \A u \in appts : u.client = v.client /\ u.done /\ Business(u) /\ Reported(u) /\ Day(u) <= to
                     => Day(v) <= Day(u)

Event(b, v, first) ==
  [id |-> b.id, day |-> LocalDay(b.made), moment |-> b.made, visit |-> v.id, barber |-> v.barber,
   by |-> b.by, first |-> first]

(* _opz_events: one event per visit, its first booking. *)
Opz(from, to) ==
  LET cs == Candidates(from, to)
      vs == Visits(from, to, cs)
      rebooks == {c \in cs \X vs : c[2] \in Anchors(c[1], vs)}
  IN  {Event(c[1], c[2], First(c[2], to)) :
         c \in {x \in rebooks : /\ LocalDay(x[1].made) >= from
                                /\ \A y \in rebooks : y[2] = x[2] => Earlier(x[1], y[1])}}

(* _opz_split_scope *)
Split(events) == <<Cardinality({e \in events : e.first}), Cardinality({e \in events : ~e.first})>>

(* _appt_revenue_filters: the visits a share of rebookings is taken of. *)
CompletedVisits(from, to) ==
  {v \in appts : v.done /\ Business(v) /\ Reported(v) /\ Happened(v) /\ Day(v) \in from..to}

(* _first_visit_join: those of them that fell on the client's first day. *)
FirstVisits(vs, to) == {v \in vs : v.client # Null /\ First(v, to)}

-----------------------------------------------------------------------------
Periods == {p \in Days \X Days : p[1] <= p[2]}

(* What is meant, over all the rows there are. *)
Rebooked ==
  LET vs == {v \in appts : v.done /\ Reported(v) /\ Happened(v)}
      pairs == {c \in appts \X vs : c[1].client # Null /\ c[1].made <= now /\ c[2] \in Anchors(c[1], vs)}
      older(v) == \E u \in appts : Visited(v, u) /\ Business(u) /\ Reported(u) /\ Day(u) < Day(v)
  IN  {Event(c[1], c[2], ~older(c[2])) :
         c \in {x \in pairs : \A y \in pairs : y[2] = x[2] => Earlier(x[1], y[1])}}

(* A period's events are those of its days among all there ever were, whatever the code did   *)
(* not read: the count of a window is the sum of the counts of its parts, a booking on the     *)
(* eve takes its visit with it, and a visit is its client's first on every page.               *)
OpzIsTheRule ==
  LET all == Rebooked
  IN  \A p \in Periods : Opz(p[1], p[2]) = {e \in all : e.day \in p[1]..p[2]}
=============================================================================
