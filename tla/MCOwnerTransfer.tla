--------------------------- MODULE MCOwnerTransfer ---------------------------
(* A small instance of OwnerTransfer: the reasons its terminators pass.      *)
EXTENDS OwnerTransfer

MCReasons == {"owner_request", "transfer_cleanup_failed", "service_shutdown"}
=============================================================================
