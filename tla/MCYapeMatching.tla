--------------------------- MODULE MCYapeMatching ---------------------------
(* Instances of YapeMatching for TLC. *)
EXTENDS YapeMatching, TLC

Buying == {"requestPayment", "cancelOrder"}
Interchangeable ==
  Permutations(Procs) \cup Permutations(OrderIds)
SyncAndAgent == {"sync", "agent"}
=============================================================================
