------------------------- MODULE MCTenantSupervision -------------------------
(* Instances of TenantSupervision for TLC. *)
EXTENDS TenantSupervision
=============================================================================
