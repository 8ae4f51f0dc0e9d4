----------------------------- MODULE OrderTable -----------------------------
(***************************************************************************)
(* The vocabulary of an order's life: the statuses an order row can hold   *)
(* and the transition table of order-service.ts.  "absent" stands for an   *)
(* id that no row has yet.                                                 *)
(***************************************************************************)

Statuses == {"pending", "confirmed", "payment_requested", "paid", "preparing",
             "ready", "shipped", "delivered", "cancelled", "refunded"}

Transitions ==
  [pending           |-> {"confirmed", "payment_requested", "cancelled"},
   confirmed         |-> {"payment_requested", "cancelled"},
   payment_requested |-> {"paid", "cancelled"},
   paid              |-> {"preparing", "refunded"},
   preparing         |-> {"ready", "refunded"},
   ready             |-> {"shipped", "delivered"},
   shipped           |-> {"delivered"},
   delivered         |-> {},
   cancelled         |-> {},
   refunded          |-> {}]

\* assertTransition: no row, or a status with no such successor, throws.
Allowed(current, target) == current \in Statuses /\ target \in Transitions[current]

\* The statuses in which the merchant holds, or has held, the customer's money.
PaidOnwards == {"paid", "preparing", "ready", "shipped", "delivered", "refunded"}

Open == {"pending", "confirmed", "payment_requested"}
=============================================================================
