------------------------------ MODULE MCAIQueue ------------------------------
(* Instances of AIQueue for TLC. *)
EXTENDS AIQueue
=============================================================================
