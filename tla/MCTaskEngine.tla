----------------------------- MODULE MCTaskEngine -----------------------------
(* The instance of TaskEngine for TLC: its constants need no definitions. *)
EXTENDS TaskEngine
=============================================================================
