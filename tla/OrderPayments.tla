---------------------------- MODULE OrderPayments ----------------------------
(***************************************************************************)
(* Orders, their payments and their refunds, as order-service.ts, the      *)
(* dashboard routes, the admin route and the payment-expiration worker     *)
(* write them.  A handler is asynchronous: between two of its awaits any   *)
(* other handler may run, so each SQL statement is an action of its own    *)
(* and what the handler read lives on in its context ctx[p].               *)
(***************************************************************************)
EXTENDS OrderTable, Naturals, FiniteSets

CONSTANTS OrderIds,     \* ids the orders sequence hands out
          NoOrder,      \* no order
          MaxPayments,  \* payment rows that may be inserted (bound)
          MaxRefunds,   \* refund rows per payment (bound)
          Amounts,      \* order totals
          MaxAttempts,  \* QUEUE_MAX_RETRIES
          Procs,        \* requests that can be in flight at once
          Ops,          \* the operations this instance exercises
          Aborts        \* TRUE: an await may reject, or the process restart

SimpleOps == {"confirmOrder", "cancelOrder", "startPreparing", "markReady",
              "markShipped", "markDelivered"}
ServiceOps == SimpleOps \cup {"requestPayment", "markPaid", "refundOrder", "modifyOrder"}
AllOps == ServiceOps \cup {"updateStatus", "adminExpire", "expirationJob"}

ASSUME ConstantsAssumption ==
  /\ NoOrder \notin OrderIds
  /\ MaxPayments \in Nat
  /\ MaxRefunds \in Nat
  /\ MaxAttempts \in Nat \ {0}
  /\ Ops \subseteq AllOps
  /\ Aborts \in BOOLEAN

PaymentIds == 1..MaxPayments    \* SERIAL: a later row has a larger id
NoPayment == 0

VARIABLES status,     \* orders.status, "absent" before the insert
          total,      \* orders.total
          payments,   \* the payments table
          refunds,    \* refund rows of each payment
          byHand,     \* orders whose status the dashboard has written (history)
          job,        \* the expiration-<orderId> job of each order
          pc, ctx     \* where each request stands and what it holds

vars == <<status, total, payments, refunds, byHand, job, pc, ctx>>
tables == <<status, total, payments, refunds, byHand>>

PaymentStatuses == {"none", "pending", "confirmed", "expired"}
Payment == [status : PaymentStatuses, order : OrderIds \cup {NoOrder},
            amount : Amounts \cup {0}]
JobSteps == {"cancel", "restock", "expirePayments", "notify"}
Job == [state : {"none", "waiting", "completed", "failed"} \cup JobSteps,
        attempts : 0..MaxAttempts]
Labels == {"idle", "findPending", "createPayment", "confirmPayment",
           "findConfirmed", "createRefund", "writeStatus", "markMatched"}
Context == [order : OrderIds \cup {NoOrder}, target : Statuses \cup {"none"},
            payment : PaymentIds \cup {NoPayment}, amount : Amounts \cup {0},
            then : {"idle", "markMatched"}]
NoContext == [order |-> NoOrder, target |-> "none", payment |-> NoPayment,
              amount |-> 0, then |-> "idle"]

TypeOK ==
  /\ status \in [OrderIds -> Statuses \cup {"absent"}]
  /\ total \in [OrderIds -> Amounts \cup {0}]
  /\ payments \in [PaymentIds -> Payment]
  /\ refunds \in [PaymentIds -> Nat]
  /\ byHand \subseteq OrderIds
  /\ job \in [OrderIds -> Job]
  /\ pc \in [Procs -> Labels]
  /\ ctx \in [Procs -> Context]

Init ==
  /\ status = [o \in OrderIds |-> "absent"]
  /\ total = [o \in OrderIds |-> 0]
  /\ payments = [q \in PaymentIds |-> [status |-> "none", order |-> NoOrder, amount |-> 0]]
  /\ refunds = [q \in PaymentIds |-> 0]
  /\ byHand = {}
  /\ job = [o \in OrderIds |-> [state |-> "none", attempts |-> 0]]
  /\ pc = [p \in Procs |-> "idle"]
  /\ ctx = [p \in Procs |-> NoContext]

-----------------------------------------------------------------------------
(* Helpers of the handlers *)

PaymentsOf(o, st) == {q \in PaymentIds : payments[q].order = o /\ payments[q].status = st}

\* getPaymentsByOrder sorts newest first, so find() returns the largest id.
IsNewest(q, S) == q \in S /\ \A r \in S : r <= q

IsNextId(q) == /\ payments[q].status = "none"
               /\ \A r \in PaymentIds : r < q => payments[r].status # "none"

\* A request whose handler has returned or thrown.
Return(p) == /\ pc' = [pc EXCEPT ![p] = "idle"]
             /\ ctx' = [ctx EXCEPT ![p] = NoContext]

\* Mutant: assertTransition is forgotten.
BeginUnchecked(p, op, o, target, label) ==
  /\ op \in Ops
  /\ pc[p] = "idle"
  /\ status[o] \in Statuses
  /\ pc' = [pc EXCEPT ![p] = label]
  /\ UNCHANGED <<tables, job>>

\* getOrderOrThrow + assertTransition: an idle request reads the order and
\* goes on only when the table allows the move (otherwise it throws).
Begin(p, op, o, target, label) ==
  /\ op \in Ops
  /\ pc[p] = "idle"
  /\ Allowed(status[o], target)
  /\ pc' = [pc EXCEPT ![p] = label]
  /\ UNCHANGED <<tables, job>>

-----------------------------------------------------------------------------
(* order-service.ts *)

\* createOrder is one transaction; its effect on stock is in StockLedger.
CreateOrder(o, amount) ==
  /\ status[o] = "absent"
  /\ status' = [status EXCEPT ![o] = "pending"]
  /\ total' = [total EXCEPT ![o] = amount]
  /\ UNCHANGED <<payments, refunds, byHand, job, pc, ctx>>

TargetOf ==
  [confirmOrder |-> "confirmed", cancelOrder |-> "cancelled",
   startPreparing |-> "preparing", markReady |-> "ready",
   markShipped |-> "shipped", markDelivered |-> "delivered"]

BeginSimple(p, op, o) ==
  /\ Begin(p, op, o, TargetOf[op], "writeStatus")
  /\ ctx' = [ctx EXCEPT ![p] = [NoContext EXCEPT !.order = o, !.target = TargetOf[op]]]

\* updateOrderStatus: the UPDATE has no condition on the current status.
WriteStatus(p) ==
  /\ pc[p] = "writeStatus"
  /\ status' = [status EXCEPT ![ctx[p].order] = ctx[p].target]
  /\ pc' = [pc EXCEPT ![p] = ctx[p].then]
  /\ ctx' = [ctx EXCEPT ![p] = IF @.then = "idle" THEN NoContext ELSE @]
  /\ UNCHANGED <<total, payments, refunds, byHand, job>>

BeginRequestPayment(p, o) ==
  /\ Begin(p, "requestPayment", o, "payment_requested", "findPending")
  /\ ctx' = [ctx EXCEPT ![p] = [NoContext EXCEPT
                !.order = o, !.target = "payment_requested", !.amount = total[o]]]

FindPending(p) ==
  /\ pc[p] = "findPending"
  /\ IF PaymentsOf(ctx[p].order, "pending") # {}
       THEN Return(p)
       ELSE /\ pc' = [pc EXCEPT ![p] = "createPayment"]
            /\ UNCHANGED ctx
  /\ UNCHANGED <<tables, job>>

CreatePayment(p) ==
  /\ pc[p] = "createPayment"
  /\ \E q \in PaymentIds :
       /\ IsNextId(q)
       /\ payments' = [payments EXCEPT ![q] =
             [status |-> "pending", order |-> ctx[p].order, amount |-> ctx[p].amount]]
  /\ pc' = [pc EXCEPT ![p] = "writeStatus"]
  /\ UNCHANGED <<status, total, refunds, byHand, job, ctx>>

\* Mutant: the caller's order id is trusted instead of the payment's.
BeginMarkPaidAnyOrder(p, q) ==
  \E o \in OrderIds :
    /\ payments[q].status # "none"
    /\ Begin(p, "markPaid", o, "paid", "confirmPayment")
    /\ ctx' = [ctx EXCEPT ![p] = [NoContext EXCEPT
                  !.order = o, !.target = "paid", !.payment = q]]

\* handleConfirmPayment reads the payment, whatever its status, then markPaid
\* reads the order the payment belongs to (payments.order_id never changes).
BeginMarkPaid(p, q) ==
  /\ payments[q].status # "none"
  /\ Begin(p, "markPaid", payments[q].order, "paid", "confirmPayment")
  /\ ctx' = [ctx EXCEPT ![p] = [NoContext EXCEPT
                !.order = payments[q].order, !.target = "paid", !.payment = q]]

\* Mutant: UPDATE ... AND status = 'pending', its row count not looked at.
ConfirmPaymentIfPending(p) ==
  /\ pc[p] = "confirmPayment"
  /\ payments' = [payments EXCEPT ![ctx[p].payment].status =
                     IF @ = "pending" THEN "confirmed" ELSE @]
  /\ pc' = [pc EXCEPT ![p] = "writeStatus"]
  /\ UNCHANGED <<status, total, refunds, byHand, job, ctx>>

\* confirmPayment: an UPDATE by id, with no condition on the payment's status.
ConfirmPayment(p) ==
  /\ pc[p] = "confirmPayment"
  /\ payments' = [payments EXCEPT ![ctx[p].payment].status = "confirmed"]
  /\ pc' = [pc EXCEPT ![p] = "writeStatus"]
  /\ UNCHANGED <<status, total, refunds, byHand, job, ctx>>

BeginRefund(p, o) ==
  /\ Begin(p, "refundOrder", o, "refunded", "findConfirmed")
  /\ ctx' = [ctx EXCEPT ![p] = [NoContext EXCEPT !.order = o, !.target = "refunded"]]

\* Mutant: the newest payment is refunded, confirmed or not.
FindAnyPayment(p) ==
  /\ pc[p] = "findConfirmed"
  /\ LET ofOrder == {q \in PaymentIds : payments[q].order = ctx[p].order}
     IN  \E q \in ofOrder :
           /\ IsNewest(q, ofOrder)
           /\ pc' = [pc EXCEPT ![p] = "createRefund"]
           /\ ctx' = [ctx EXCEPT ![p].payment = q]
  /\ UNCHANGED <<tables, job>>

FindConfirmed(p) ==
  /\ pc[p] = "findConfirmed"
  /\ LET confirmed == PaymentsOf(ctx[p].order, "confirmed")
     IN  \/ /\ confirmed = {}
            /\ Return(p)
         \/ \E q \in confirmed :
              /\ IsNewest(q, confirmed)
              /\ pc' = [pc EXCEPT ![p] = "createRefund"]
              /\ ctx' = [ctx EXCEPT ![p].payment = q]
  /\ UNCHANGED <<tables, job>>

CreateRefund(p) ==
  /\ pc[p] = "createRefund"
  /\ refunds[ctx[p].payment] < MaxRefunds
  /\ refunds' = [refunds EXCEPT ![ctx[p].payment] = @ + 1]
  /\ pc' = [pc EXCEPT ![p] = "writeStatus"]
  /\ UNCHANGED <<status, total, payments, byHand, job, ctx>>

\* modifyOrder: one transaction that locks the order row and checks its status.
ModifyOrder(o, amount) ==
  /\ "modifyOrder" \in Ops
  /\ status[o] \in Open
  /\ total' = [total EXCEPT ![o] = amount]
  /\ UNCHANGED <<status, payments, refunds, byHand, job, pc, ctx>>

\* An await of the handler rejects (lost connection, statement timeout), or
\* the process stops: the statements already sent stay, the rest never runs.
Abort(p) ==
  /\ Aborts
  /\ pc[p] # "idle"
  /\ Return(p)
  /\ UNCHANGED <<tables, job>>

-----------------------------------------------------------------------------
(* Writers that bypass the service *)

\* PUT /orders/:id/status; the zod enum of the route has no "ready".
UpdateStatus(o, s) ==
  /\ "updateStatus" \in Ops
  /\ status[o] # "absent"
  /\ status' = [status EXCEPT ![o] = s]
  /\ byHand' = byHand \cup {o}
  /\ UNCHANGED <<total, payments, refunds, job, pc, ctx>>

\* Mutant: AND status = 'pending' is missing from the UPDATE.
ExpireAll(o) ==
  payments' = [q \in PaymentIds |->
                 IF payments[q].order = o
                   THEN [payments[q] EXCEPT !.status = "expired"] ELSE payments[q]]

ExpirePending(o) ==
  payments' = [q \in PaymentIds |->
                 IF q \in PaymentsOf(o, "pending")
                   THEN [payments[q] EXCEPT !.status = "expired"] ELSE payments[q]]

\* POST /admin/orders/:id/expire: one transaction under the order's row lock.
AdminExpire(o) ==
  /\ "adminExpire" \in Ops
  /\ status[o] = "payment_requested"
  /\ status' = [status EXCEPT ![o] = "cancelled"]
  /\ ExpirePending(o)
  /\ UNCHANGED <<total, refunds, byHand, job, pc, ctx>>

-----------------------------------------------------------------------------
(* payment-expiration-scheduler.ts on a BullMQ queue *)

\* The scan adds a job per stale order; a job id that Redis still holds
\* (waiting, active, completed or failed) is not added again.
Scan(o) ==
  /\ "expirationJob" \in Ops
  /\ status[o] = "payment_requested"
  /\ job[o].state = "none"
  /\ job' = [job EXCEPT ![o].state = "waiting"]
  /\ UNCHANGED <<tables, pc, ctx>>

StartJob(o) ==
  /\ job[o].state = "waiting"
  /\ job' = [job EXCEPT ![o].state = "cancel"]
  /\ UNCHANGED <<tables, pc, ctx>>

JobCancel(o) ==
  /\ job[o].state = "cancel"
  /\ status' = [status EXCEPT ![o] = "cancelled"]
  /\ job' = [job EXCEPT ![o].state = "restock"]
  /\ UNCHANGED <<total, payments, refunds, byHand, pc, ctx>>

\* The products' stock goes up; StockLedger has the quantities.
JobRestock(o) ==
  /\ job[o].state = "restock"
  /\ job' = [job EXCEPT ![o].state = "expirePayments"]
  /\ UNCHANGED <<tables, pc, ctx>>

JobExpirePayments(o) ==
  /\ job[o].state = "expirePayments"
  /\ ExpirePending(o)
  /\ job' = [job EXCEPT ![o].state = "notify"]
  /\ UNCHANGED <<status, total, refunds, byHand, pc, ctx>>

\* sendMessage returns: the job completes.
JobNotify(o) ==
  /\ job[o].state = "notify"
  /\ job' = [job EXCEPT ![o].state = "completed"]
  /\ UNCHANGED <<tables, pc, ctx>>

\* Mutant: one attempt too many.
JobFailsOnceMore(o) ==
  /\ job[o].state = "notify" \/ (Aborts /\ job[o].state \in JobSteps)
  /\ LET n == job[o].attempts + 1
     IN  job' = [job EXCEPT ![o] =
           [state |-> IF n <= MaxAttempts THEN "waiting" ELSE "failed", attempts |-> n]]
  /\ UNCHANGED <<tables, pc, ctx>>

\* A step throws: sendMessage does whenever the tenant's worker is not
\* running, the SQL steps when Aborts.  BullMQ runs the job again from the
\* top until the attempts are used up.
JobFails(o) ==
  /\ job[o].state = "notify" \/ (Aborts /\ job[o].state \in JobSteps)
  /\ LET n == job[o].attempts + 1
     IN  job' = [job EXCEPT ![o] =
           [state |-> IF n < MaxAttempts THEN "waiting" ELSE "failed", attempts |-> n]]
  /\ UNCHANGED <<tables, pc, ctx>>

-----------------------------------------------------------------------------

Handler(p) ==
  \/ \E o \in OrderIds :
       \/ \E op \in SimpleOps : BeginSimple(p, op, o)
       \/ BeginRequestPayment(p, o)
       \/ BeginRefund(p, o)
  \/ \E q \in PaymentIds : BeginMarkPaid(p, q)
  \/ FindPending(p) \/ CreatePayment(p) \/ ConfirmPayment(p)
  \/ FindConfirmed(p) \/ CreateRefund(p) \/ WriteStatus(p)
  \/ Abort(p)

ExpirationJob(o) ==
  \/ StartJob(o) \/ JobCancel(o) \/ JobRestock(o)
  \/ JobExpirePayments(o) \/ JobNotify(o) \/ JobFails(o)

OneStatement(o) ==
  \/ \E a \in Amounts : CreateOrder(o, a) \/ ModifyOrder(o, a)
  \/ \E s \in Statuses \ {"ready"} : UpdateStatus(o, s)
  \/ AdminExpire(o)
  \/ Scan(o)

Next == \/ \E p \in Procs : Handler(p)
        \/ \E o \in OrderIds : OneStatement(o) \/ ExpirationJob(o)

Spec == Init /\ [][Next]_vars

-----------------------------------------------------------------------------
(* Properties *)

Backed(o) == PaymentsOf(o, "confirmed") # {}
Entitled(o) == Backed(o) \/ o \in byHand

\* An order that is paid, or past it, has a confirmed payment of its own,
\* unless the dashboard wrote its status, whatever requests, jobs, retries
\* and lost awaits interleave: markPaid confirms the payment before it writes
\* the status, and no statement of the program takes a confirmation back.
PaidBacked ==
  \A o \in OrderIds : status[o] \in PaidOnwards => Entitled(o)

\* Money goes back only for a payment that came in, even when the dashboard
\* has written the order's status by hand.
RefundBacked == \A q \in PaymentIds : refunds[q] > 0 => payments[q].status = "confirmed"

\* A confirmed payment stays confirmed: no expiration, by job or by admin,
\* that lost the race against the confirmation may undo it.
ConfirmedStays ==
  [][\A q \in PaymentIds :
       payments[q].status = "confirmed" => payments'[q].status = "confirmed"]_vars

\* Without modifyOrder a paid order holds a confirmed payment of exactly its
\* total (modifyOrder changes the total and leaves the payment alone).
PaidInFull ==
  \A o \in OrderIds : status[o] \in PaidOnwards =>
    \E q \in PaymentsOf(o, "confirmed") : payments[q].amount = total[o]

\* The abstract order: every handler moves it along the table, or not at all.
Lifecycle == INSTANCE OrderLifecycle WITH OrderIds <- OrderIds, status <- status
ImplementsLifecycle == Lifecycle!Spec
=============================================================================
