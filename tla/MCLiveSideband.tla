--------------------------- MODULE MCLiveSideband ---------------------------
(* A small instance of LiveSideband: a response with a call its handler      *)
(* answers and one a task of its own answers, and a response with one call.  *)
EXTENDS LiveSideband

CONSTANTS r1, r2, t1, t2, t3

MCResponseOf == [t \in Tools |-> IF t = t3 THEN r2 ELSE r1]
=============================================================================
