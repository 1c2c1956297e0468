----------------------------- MODULE MCCallSetup -----------------------------
(* A small instance of CallSetup: one callback that tells of the answer, the *)
(* deadline's reason and the others'.                                        *)
EXTENDS CallSetup

CONSTANT status

MCAnswers == {status}
MCReasons == {"setup_deadline", "setup_failed"}
=============================================================================
