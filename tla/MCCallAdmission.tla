--------------------------- MODULE MCCallAdmission ---------------------------
(* A small instance of CallAdmission and its symmetries.                     *)
EXTENDS CallAdmission, TLC

CONSTANTS c1, c2, p1, p2, r1, r2

MCCalls    == {c1, c2}
MCPlans    == {p1, p2}
MCRequests == {r1, r2}

MCSymmetry == Permutations(MCCalls) \cup Permutations(MCPlans) \cup Permutations(MCRequests)
=============================================================================
