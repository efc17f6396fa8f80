----------------------------- MODULE MCBrowser ------------------------------
(* Two parts of the frontend that share no state: a behaviour is one of the *)
(* dashboard in one tab, or one of the idle monitors of two tabs.           *)
EXTENDS Board

CONSTANTS Tabs, PromptAfter, LogoutAfter, NoteEvery, WriteEvery, MaxTime

ASSUME IdleAssumption ==
  /\ {PromptAfter, LogoutAfter, NoteEvery, WriteEvery} \subseteq Nat
  /\ 0 < NoteEvery /\ NoteEvery <= WriteEvery /\ WriteEvery < PromptAfter /\ PromptAfter < LogoutAfter

VARIABLES part, now, shared, own, noted, written, phase, away

monitors == <<now, shared, own, noted, written, phase, away>>

Monitors == INSTANCE IdleTabs

BrowserInit == part \in {"board", "monitors"} /\ Init /\ Monitors!Init
BrowserNext ==
  \/ part = "board" /\ Next /\ UNCHANGED <<part, monitors>>
  \/ part = "monitors" /\ Monitors!Next /\ UNCHANGED <<part, vars>>

BrowserSpec == BrowserInit /\ [][BrowserNext]_<<part, vars, monitors>>

IdleIsMeasured == Monitors!IdleIsMeasured
=============================================================================
