--------------------------- MODULE MCSupervision ---------------------------
(* A small instance of Supervision: one reply window, used again and again.  *)
EXTENDS Supervision

CONSTANT w1
=============================================================================
