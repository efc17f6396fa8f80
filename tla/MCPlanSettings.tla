--------------------------- MODULE MCPlanSettings ---------------------------
(* Two parts that share no state: the plan of a month being edited, and the *)
(* rows of Plan/fact read from a branch's visits, shifts and roles.         *)
(*                                                                          *)
(* The owner edits both branches, an administrator the first; person 11 has *)
(* an imported plan, branch 1 an imported total, and the imported plan of   *)
(* person 21 is one no page shows exactly.                                  *)
EXTENDS PlanSettings, FiniteSets, TLC

Accounts == 1 :> {1, 2} @@ 2 :> {1}
Staff == 11 :> 1 @@ 12 :> 1 @@ 21 :> 2
Elsewhere == {[co |-> 1, who |-> 11, code |-> "clients", value |-> 4, own |-> FALSE],
              [co |-> 1, who |-> Whole, code |-> "opz", value |-> 18, own |-> FALSE],
              [co |-> 2, who |-> 21, code |-> "clients", value |-> 3, own |-> FALSE]}
LastMonth == 11 :> 4 @@ 12 :> 0 @@ 21 :> 3
LastShares == 1 :> 3 @@ 2 :> 2

CONSTANTS Answers, Placeholders, SurvivorLimit, Days, MonthDays, Readings, MaxVisits,
          Team, Plans, Slots, TopUps, Asked, HomeZone, MaxChanges

(* A branch's clock is less than a day off; moments and days are numbers, and *)
(* shifts begin and end in the first or second half of a day.                 *)
ASSUME FactsAssumption ==
  /\ Days \subseteq Int /\ Readings \subseteq (-2 .. 2) \X Int
  /\ \A a \in Answers : {a.id, a.at, a.made} \subseteq Int
  /\ \A s \in Slots : s.day \in Int /\ {s.from, s.to} \subseteq 0 .. 1

(* Months are of one length, and a page asks about days of the calendar. *)
ASSUME CalendarAssumption ==
  /\ MonthDays \in Nat \ {0}
  /\ \E first, last \in Days : Days = first .. last
  /\ Asked \subseteq {w \in Days \X Days : w[1] <= w[2]}

(* Ids are positive.  A plan knows two roles (STAFF_CATEGORY_METRIC_CODES), and a position that  *)
(* names neither is read as a barber's (_resolve_staff_role_periods).                              *)
KnownRoles == {"barber", "administrator"}
ASSUME TeamAssumption ==
  /\ IsFiniteSet(DOMAIN Team) /\ DOMAIN Team \subseteq Nat \ {0}
  /\ \A p \in DOMAIN Team : Team[p].role \in KnownRoles
  /\ \A r \in Plans : r.role \in KnownRoles
  /\ IsFiniteSet(DOMAIN TopUps) /\ DOMAIN TopUps \subseteq Nat \X Int /\ \A k \in DOMAIN TopUps : TopUps[k] \in Nat

VARIABLES part, appts, zone, opened, now, plans, shifts, gone, changed

facts == <<appts, zone, opened, now, plans, shifts, gone, changed>>

Adm == INSTANCE Administrators

PlansInit ==
  /\ Init /\ Adm!AdminInit
  /\ part \in {"plan", "facts"} /\ (part = "plan" => zone = 1 /\ shifts = {})
PlansNext ==
  \/ part = "plan" /\ Next /\ UNCHANGED <<part, facts>>
  \/ part = "facts" /\ Adm!AdminNext /\ UNCHANGED <<part, vars>>

PlansSpec == PlansInit /\ [][PlansNext]_<<part, vars, facts>>

OpzIsTheRule == part = "facts" => Adm!OpzIsTheRule
RowsAddUp == part = "facts" => Adm!RowsAddUp
ScreensAgree == part = "facts" => Adm!ScreensAgree

-----------------------------------------------------------------------------
(* Client 1 comes up to three times and books up to six; the second is seen by nobody's barber. *)
Visit(id, client, at, made, barber, by) ==
  [id |-> id, client |-> client, at |-> at, made |-> made, done |-> TRUE, barber |-> barber, by |-> by]
Booking(id, client, at, made, barber, by) == [Visit(id, client, at, made, barber, by) EXCEPT !.done = FALSE]

SomeVisits ==
  {Visit(1, 1, 8, 1, 11, 0), Visit(2, 1, 10, 8, 11, 1), Visit(6, 1, 13, 10, 14, 2), Visit(8, 1, 6, 0, 11, 1),
   Visit(10, 2, 11, 3, 19, 2), Booking(3, 1, 14, 9, 11, 2), Booking(4, 1, 15, 10, 14, 1), Booking(5, 1, 14, 11, 11, 0),
   Booking(7, 1, 17, 13, 11, 1), Booking(9, 1, 14, 7, 14, 2), Booking(11, 2, 16, 11, 11, 2)}

Clocks == {<<-1, 16>>, <<1, 12>>}
Everybody ==
  11 :> [role |-> "barber", user |-> 0] @@ 12 :> [role |-> "administrator", user |-> 1] @@
  13 :> [role |-> "administrator", user |-> 2] @@ 14 :> [role |-> "barber", user |-> 0]
Roles == {[who |-> 13, month |-> 2, metric |-> FALSE, role |-> "barber"],
          [who |-> 14, month |-> 3, metric |-> TRUE, role |-> "administrator"]}
SomeShifts == {[who |-> 12, day |-> 4, from |-> 0, to |-> 1], [who |-> 13, day |-> 4, from |-> 1, to |-> 1],
               [who |-> 12, day |-> 6, from |-> 1, to |-> 0]}
Typings == <<12, 2>> :> 1 @@ <<13, 2>> :> 2 @@ <<14, 3>> :> 1
AskedPeriods == {<<4, 5>>, <<5, 6>>, <<4, 7>>, <<6, 6>>}
=============================================================================
