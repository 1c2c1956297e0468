------------------------------ MODULE MCCallRow ------------------------------
(* CallRow with one reason of each terminal state a caller can ask for.      *)
EXTENDS CallRow

MCReasons == {"owner_request", "setup_deadline", "live_activation_failed"}
=============================================================================
