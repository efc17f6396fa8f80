------------------------------ MODULE IdleTabs ------------------------------
(***************************************************************************)
(* The idle monitor of every tab of one browser: each keeps the time of    *)
(* its own last activity and shares it, now and then, with the others      *)
(* (idleSession.js).  A tab in the background may tick late.               *)
(***************************************************************************)
EXTENDS Integers

CONSTANTS
  Tabs,
  PromptAfter, LogoutAfter, NoteEvery, WriteEvery,   \* thresholds and throttles
  MaxTime                                            \* bound of the clock

VARIABLES
  now,
  shared,      \* portal_last_activity
  own,         \* lastLocal
  noted,       \* lastNote
  written,     \* lastWrite
  phase,       \* "closed", "active", "prompt" or "expired"
  away         \* how long nobody has been there

vars == <<now, shared, own, noted, written, phase, away>>

Later(a, b) == IF a > b THEN a ELSE b
Sooner(a, b) == IF a < b THEN a ELSE b

Init ==
  /\ now = WriteEvery /\ shared = 0 /\ away = 0
  /\ own = [t \in Tabs |-> 0] /\ noted = [t \in Tabs |-> 0] /\ written = [t \in Tabs |-> 0]
  /\ phase = [t \in Tabs |-> "closed"]

(* lastActivity, idleFor *)
Idle(t) == now - Sooner(now, Later(own[t], shared))

Clock ==
  /\ now < MaxTime
  /\ now' = now + 1 /\ away' = away + 1
  /\ UNCHANGED <<shared, own, noted, written, phase>>

Mark(t) ==
  /\ own' = [own EXCEPT ![t] = now] /\ written' = [written EXCEPT ![t] = now] /\ shared' = now

(* Opening or reloading a page is somebody acting. *)
Open(t) ==
  /\ phase[t] \in {"closed", "active"}
  /\ Mark(t)
  /\ phase' = [phase EXCEPT ![t] = "active"] /\ noted' = [noted EXCEPT ![t] = 0] /\ away' = 0
  /\ UNCHANGED now

Phase(t) ==
  IF Idle(t) >= LogoutAfter THEN "expired" ELSE IF Idle(t) >= PromptAfter THEN "prompt" ELSE "active"

Tick(t) ==
  /\ phase[t] \in {"active", "prompt"}
  /\ phase' = [phase EXCEPT ![t] = Phase(t)]
  /\ UNCHANGED <<now, shared, own, noted, written, away>>

(* A mutant: nothing is shared between the tabs. *)
BadNoted(t) ==
  /\ own' = [own EXCEPT ![t] = now]
  /\ UNCHANGED <<written, shared>>

(* The own clock at once, the shared one at most every WriteEvery. *)
Noted(t) ==
  /\ own' = [own EXCEPT ![t] = now]
  /\ IF now - written[t] >= WriteEvery
     THEN written' = [written EXCEPT ![t] = now] /\ shared' = now
     ELSE UNCHANGED <<written, shared>>

(* Only the dialog can tell somebody who comes back from a passer-by. *)
AtWork(t) == phase[t] = "active" /\ Idle(t) < PromptAfter

(* noteActivity *)
Input(t) ==
  /\ phase[t] \in {"active", "prompt"}
  /\ away' = IF AtWork(t) THEN 0 ELSE away
  /\ IF phase[t] # "active" \/ now - noted[t] < NoteEvery
     THEN UNCHANGED <<shared, own, noted, written, phase>>
     ELSE /\ noted' = [noted EXCEPT ![t] = now]
          /\ IF Idle(t) >= PromptAfter
             THEN phase' = [phase EXCEPT ![t] = Phase(t)] /\ UNCHANGED <<shared, own, written>>
             ELSE Noted(t) /\ UNCHANGED phase
  /\ UNCHANGED now

(* The button of the dialog; too late, it ends the session. *)
Confirm(t) ==
  /\ phase[t] = "prompt"
  /\ IF Idle(t) >= LogoutAfter
     THEN phase' = [phase EXCEPT ![t] = "expired"] /\ UNCHANGED <<shared, own, written, away>>
     ELSE Mark(t) /\ away' = 0 /\ phase' = [phase EXCEPT ![t] = "active"]
  /\ UNCHANGED <<now, noted>>

Next == Clock \/ \E t \in Tabs : Open(t) \/ Tick(t) \/ Input(t) \/ Confirm(t)

Spec == Init /\ [][Next]_vars

-----------------------------------------------------------------------------
(* What an open tab measures is how long nobody has been there, in any tab: never less, so that   *)
(* nothing a passer-by does rescues a session, and more by the throttles at most.                 *)
IdleIsMeasured ==
  \A t \in Tabs : phase[t] \in {"active", "prompt"} =>
    Idle(t) >= away /\ Idle(t) <= away + (NoteEvery - 1) + (WriteEvery - 1)
=============================================================================
