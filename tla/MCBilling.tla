------------------------------ MODULE MCBilling ------------------------------
(* An instance of PaymentIntents for TLC, in two slices: behaviours without *)
(* payment links, and behaviours without notifications and customers.       *)
EXTENDS PaymentIntents

CONSTANTS basic
VARIABLE slice

Prices == [plan \in Plans |-> IF plan = basic THEN 2 ELSE 1]

MCInit == IntentsInit /\ slice \in {"notifications", "links"}

MCNext ==
  /\ IntentsNext /\ UNCHANGED slice
  /\ slice = "notifications" => UNCHANGED intentVars
  /\ slice = "links" => UNCHANGED <<payments, notes>> /\ \A p \in Procs : ctx'[p].plan \notin CreatorPlans

MCSpec == MCInit /\ [][MCNext]_<<allVars, slice>> /\ Fairness
=============================================================================
