--------------------------- MODULE OrderLifecycle ---------------------------
(***************************************************************************)
(* What the order service promises, and docs/ARCHITECTURE.md section 4.2   *)
(* draws: an order is created pending and every later change of its status *)
(* is an edge of the transition table.                                     *)
(***************************************************************************)
EXTENDS OrderTable

CONSTANT OrderIds
VARIABLE status

TypeOK == status \in [OrderIds -> Statuses \cup {"absent"}]

Init == status = [o \in OrderIds |-> "absent"]

Create(o) == /\ status[o] = "absent"
             /\ status' = [status EXCEPT ![o] = "pending"]

Move(o, t) == /\ Allowed(status[o], t)
              /\ status' = [status EXCEPT ![o] = t]

Next == \E o \in OrderIds : Create(o) \/ \E t \in Statuses : Move(o, t)

Spec == Init /\ [][Next]_status
=============================================================================
