------------------------------ MODULE MCWhatsApp ------------------------------
(* An instance of WhatsApp for TLC, in two slices: behaviours without      *)
(* messages, and behaviours in which one connect is under way at a time.   *)
EXTENDS WhatsApp

VARIABLE slice

MCInit ==
  /\ Init /\ slice \in {"links", "messages"}
  /\ slice = "links" => \A u \in Users : step[u] = Questions

MCNext ==
  /\ Next /\ UNCHANGED slice
  /\ slice = "links" => UNCHANGED msg
  /\ slice = "messages" => timers' < 2 /\ (Connecting => \A u \in Users : pending'[u] <= pending[u])

MCSpec == MCInit /\ [][MCNext]_<<vars, slice>> /\ Fairness
=============================================================================
