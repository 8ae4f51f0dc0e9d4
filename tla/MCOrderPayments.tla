--------------------------- MODULE MCOrderPayments ---------------------------
(* Instances of OrderPayments for TLC. *)
EXTENDS OrderPayments, TLC

Interchangeable == Permutations(Procs)
OneAtATime == ServiceOps \ {"modifyOrder"}
=============================================================================
