------------------------------- MODULE Shifts -------------------------------
(***************************************************************************)
(* The working shifts of one employee: every run reads them from the day   *)
(* its server calls today and replaces what is mirrored of that window.    *)
(* The branch lives in a zone of its own, so its date may be the server's, *)
(* the day before or the day after, and either may change during a run.    *)
(***************************************************************************)
EXTENDS Integers, FiniteSets

CONSTANTS
  LastDay,         \* bound: the last date of a clock
  Horizon,         \* SCHEDULE_DAYS
  MaxEdits         \* bound: changes of the rota

VARIABLES
  server, branch,  \* today's date on the server and at the branch
  rota,            \* the days worked, as YClients has them
  shifts,          \* the number of staff_schedules rows of each day
  run,             \* 0, or the date execute_sync began the run on
  done,            \* history: the shifts mirrored when their day was over, less those
                   \* an answer with entries has denied since
  edits

vars == <<server, branch, rota, shifts, run, done, edits>>

Days == 0 .. LastDay + Horizon

Init ==
  /\ server = 1 /\ branch \in 0 .. 2
  /\ rota \in SUBSET Days
  /\ shifts = [d \in Days |-> IF d \in rota THEN 1 ELSE 0]
  /\ done = {d \in rota : d < branch}
  /\ run = 0 /\ edits = 0

ServerMidnight ==
  /\ server < LastDay /\ server <= branch
  /\ server' = server + 1
  /\ UNCHANGED <<branch, rota, shifts, run, done, edits>>

BranchMidnight ==
  /\ branch < LastDay /\ branch <= server
  /\ branch' = branch + 1
  /\ done' = IF shifts[branch] > 0 THEN done \cup {branch} ELSE done
  /\ UNCHANGED <<server, rota, shifts, run, edits>>

(* A manager adds or removes a day, which may be over. *)
Edit(d) ==
  /\ edits < MaxEdits
  /\ rota' = IF d \in rota THEN rota \ {d} ELSE rota \cup {d}
  /\ edits' = edits + 1
  /\ UNCHANGED <<server, branch, shifts, run, done>>

Begin ==
  /\ run = 0 /\ run' = server
  /\ UNCHANGED <<server, branch, rota, shifts, done, edits>>

Window == run .. run + Horizon

(* The days of an answer with entries: the window, and from the evening on *)
(* the day before it.                                                      *)
Told == {rota \cap Window, rota \cap (run - 1 .. run + Horizon)}

Kept(worked) == worked \ {run - 1}

(* A mutant: an empty answer is believed for the whole window. *)
BadDeleteFrom(empty) == run

(* An empty answer may be a mistake: it clears no day that is over. *)
DeleteFrom(empty) == IF empty /\ branch > run THEN branch ELSE run
Replaced(empty) == {d \in Window : d >= DeleteFrom(empty)}

Store(empty, worked) ==
  /\ shifts' = [d \in Days |->
       (IF d \in Replaced(empty) THEN 0 ELSE shifts[d]) + (IF d \in Kept(worked) THEN 1 ELSE 0)]
  /\ run' = 0
  /\ UNCHANGED <<server, branch, rota, edits>>

SyncStaffSchedules ==
  /\ run # 0
  /\ \E worked \in Told :
       /\ Store(FALSE, worked)
       /\ done' = (done \ Window) \cup {d \in rota \cap Window : d < branch}

(* YClients answers without an entry, whatever the rota. *)
EmptyAnswer == run # 0 /\ Store(TRUE, {}) /\ UNCHANGED done

(* No answer, one that cannot be mapped or reaches outside of the window. *)
Fail ==
  /\ run # 0 /\ run' = 0
  /\ UNCHANGED <<server, branch, rota, shifts, done, edits>>

Next ==
  \/ ServerMidnight \/ BranchMidnight
  \/ \E d \in Days : Edit(d)
  \/ Begin \/ SyncStaffSchedules \/ EmptyAnswer \/ Fail

Spec == Init /\ [][Next]_vars
-----------------------------------------------------------------------------
(* A shift that was mirrored when its day ended at the branch stays until   *)
(* an answer with entries denies it: past shifts feed the figures of the    *)
(* administrators and cannot be read again (sync_staff_schedules).          *)
PastShiftsKept == \A d \in done : shifts[d] > 0
=============================================================================
