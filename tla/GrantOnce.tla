------------------------------ MODULE GrantOnce ------------------------------
(***************************************************************************)
(* What handleEvent of yayapay-service.ts promises ("Idempotent: a         *)
(* duplicate event id is a no-op"): a claim that was paid is granted once, *)
(* however often its event is delivered.                                   *)
(***************************************************************************)
EXTENDS Naturals

CONSTANT Claims
VARIABLES paid, granted

TypeOK == paid \subseteq Claims /\ granted \in [Claims -> 0..1]

Init == paid = {} /\ granted = [c \in Claims |-> 0]

Pay(c) == c \notin paid /\ paid' = paid \cup {c} /\ UNCHANGED granted

Grant(c) ==
  /\ c \in paid /\ granted[c] = 0
  /\ granted' = [granted EXCEPT ![c] = 1]
  /\ UNCHANGED paid

Next == \E c \in Claims : Pay(c) \/ Grant(c)

Spec == Init /\ [][Next]_<<paid, granted>>
=============================================================================
