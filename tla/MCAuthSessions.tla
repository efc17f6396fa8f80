---------------------------- MODULE MCAuthSessions ----------------------------
(* AuthSessions for TLC: browsers and request slots are interchangeable.    *)
EXTENDS AuthSessions, TLC

Interchangeable == Permutations(Browsers) \cup Permutations(Requests)
=============================================================================
