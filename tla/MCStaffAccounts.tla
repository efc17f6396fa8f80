--------------------------- MODULE MCStaffAccounts ---------------------------
(* StaffAccounts for TLC: two rows of YClients in one branch, none in    *)
(* the other; requests are interchangeable.                                *)
EXTENDS StaffAccounts, TLC

Homes == [r \in Crm |-> 1001]

Symmetry == Permutations(Procs)
=============================================================================
