---------------------------- MODULE MCManualFacts ----------------------------
(* ManualFacts for TLC: tabs, slots and values are interchangeable.        *)
EXTENDS ManualFacts, TLC

\* Many edits without trouble (two saves of two rows), or few edits with trouble.
SplitBounds == {[posts |-> 0, edits |-> 2, trouble |-> 0],
                [posts |-> 0, edits |-> 0, trouble |-> 3]}

Symmetry == Permutations(Editors) \cup Permutations(Saves) \cup Permutations(Values)
=============================================================================
