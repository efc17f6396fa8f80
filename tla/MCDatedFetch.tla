---------------------------- MODULE MCDatedFetch ----------------------------
(* Two ways rows come from YClients that share no state: a behaviour is one  *)
(* of a dated window, or one of the shifts.  Of the rows there are four on   *)
(* three days, in a crowd on one day, spread, or with one still to come, and *)
(* the endpoint honours everything or leaves something out.                  *)
EXTENDS DatedFetch

CONSTANTS LastDate, DaysAhead, MaxEdits

ASSUME RotaAssumption == {LastDate, DaysAhead, MaxEdits} \subseteq Nat

VARIABLES part, server, branch, rota, shifts, rotaRun, done, edits

rotaVars == <<server, branch, rota, shifts, rotaRun, done, edits>>

Crowds == {<<2, 2, 2, 3>>, <<1, 1, 2, 3>>, <<2, 2, 2, 0>>}
Spans == {<<1, 3>>, <<2, 3>>}
Honoured == {{"dates", "pages", "counts"}, {"dates", "pages"}, {"pages", "counts"}, {"dates"}, {}}
Honest == {[dates |-> "dates" \in h, pages |-> "pages" \in h, counts |-> "counts" \in h] : h \in Honoured}

Rota == INSTANCE Shifts WITH LastDay <- LastDate, Horizon <- DaysAhead, run <- rotaRun

(* The part that does not move starts in one of its initial states. *)
Still == server = 1 /\ branch = 1 /\ rota = {} /\ rotaRun = 0
StillRows == source = <<2, 2, 2, 3>> /\ stored = Nothing /\ endpoint = [dates |-> TRUE, pages |-> TRUE, counts |-> TRUE]

PullInit ==
  /\ part \in {"window", "shifts"} /\ FetchInit /\ Rota!Init
  /\ IF part = "window" THEN Still ELSE StillRows
PullNext ==
  \/ part = "window" /\ FetchNext /\ UNCHANGED <<part, rotaVars>>
  \/ part = "shifts" /\ Rota!Next /\ UNCHANGED <<part, fetchVars>>

PullSpec == PullInit /\ [][PullNext]_<<part, fetchVars, rotaVars>> /\ WF_fetchVars(Advance)

PastShiftsKept == Rota!PastShiftsKept
=============================================================================
