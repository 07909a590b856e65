----------------------------- MODULE MCRecovery -----------------------------
(* Bounds for model checking the boot and recovery of one phone.           *)
EXTENDS Recovery
=============================================================================
