------------------------- MODULE OrderPaymentsProofs -------------------------
(***************************************************************************)
(* Theorems about OrderPayments and YapeMatching, for every number of      *)
(* orders, payments, notifications, requests in flight and attempts.  In   *)
(* OrderPayments Requests is inductive, and Money is inductive relative to *)
(* it.  In YapeMatching Working, which includes Requests, is inductive;    *)
(* Used, Money and SoleWriter are so relative to it.                       *)
(***************************************************************************)
EXTENDS YapeMatching, TLAPS

\* A request that has begun holds an order of the table and a legal target.
Holding == \A p \in Procs : pc[p] # "idle" =>
              ctx[p].order \in OrderIds /\ ctx[p].target \in Statuses

\* A job that can still run has an attempt left.
AttemptLeft == \A o \in OrderIds :
  job[o].state \notin {"completed", "failed"} => job[o].attempts < MaxAttempts

\* A refund about to be written is of a confirmed payment of its order.
RefundReady == \A p \in Procs : pc[p] = "createRefund" =>
  ctx[p].payment \in PaymentsOf(ctx[p].order, "confirmed")

\* A payment that exists belongs to an order.
Owned == \A q \in PaymentIds : payments[q].status # "none" => payments[q].order \in OrderIds

\* A payment about to be confirmed exists and is of the order to be paid.
ConfirmReady == \A p \in Procs : pc[p] = "confirmPayment" =>
  /\ ctx[p].payment \in PaymentIds
  /\ payments[ctx[p].payment].status # "none"
  /\ payments[ctx[p].payment].order = ctx[p].order

Requests == /\ TypeOK /\ Holding /\ Owned /\ AttemptLeft
            /\ RefundReady /\ RefundBacked /\ ConfirmReady

\* requestPayment writes nothing but payment_requested.
RequestTarget == \A p \in Procs :
  pc[p] \in {"findPending", "createPayment"} => ctx[p].target = "payment_requested"

\* Whoever is about to write a paid status has the money already, or follows
\* the dashboard's hand.
WriteReady == \A p \in Procs :
  (pc[p] = "writeStatus" /\ ctx[p].target \in PaidOnwards) => Entitled(ctx[p].order)

Money == PaidBacked /\ RequestTarget /\ WriteReady

-----------------------------------------------------------------------------

\* Every entry to a paid status other than "paid" itself is from a paid status.
LEMMA TableKeepsPaid ==
  ASSUME NEW s, NEW t \in PaidOnwards \ {"paid"}, Allowed(s, t)
  PROVE  s \in PaidOnwards
BY DEF Allowed, Transitions, Statuses, PaidOnwards

\* An UPDATE of pending payments leaves the others, and every owner, alone.
LEMMA ExpireTouchesPending ==
  ASSUME TypeOK, NEW o \in OrderIds, ExpirePending(o)
  PROVE  /\ payments' \in [PaymentIds -> Payment]
         /\ \A q \in PaymentIds : /\ payments'[q].order = payments[q].order
                                  /\ payments[q].status # "pending" => payments'[q] = payments[q]
BY DEF TypeOK, ExpirePending, PaymentsOf, Payment, PaymentStatuses

\* The steps that write the payments table.
LEMMA PaymentSteps ==
  ASSUME [Next]_vars
  PROVE  \/ payments' = payments
         \/ \E p \in Procs : CreatePayment(p) \/ ConfirmPayment(p)
         \/ \E o \in OrderIds : ExpirePending(o)
BY DEF Next, Handler, ExpirationJob, OneStatement, vars, tables, BeginSimple, Begin,
       BeginRequestPayment, BeginRefund, BeginMarkPaid, FindPending, FindConfirmed,
       CreateRefund, WriteStatus, Abort, StartJob, JobCancel, JobRestock,
       JobExpirePayments, JobNotify, JobFails, CreateOrder, ModifyOrder, UpdateStatus,
       AdminExpire, Scan

\* No step of the program takes a confirmation back or moves a payment to
\* another order.
LEMMA StepKeepsConfirmed ==
  ASSUME Requests, [Next]_vars
  PROVE  \A q \in PaymentIds : payments[q].status = "confirmed" =>
            payments'[q].status = "confirmed" /\ payments'[q].order = payments[q].order
<1>. SUFFICES ASSUME NEW q \in PaymentIds, payments[q].status = "confirmed"
              PROVE  payments'[q].status = "confirmed" /\ payments'[q].order = payments[q].order
  OBVIOUS
<1>. USE DEF Requests
<1>1. CASE payments' = payments
  BY <1>1
<1>2. CASE \E p \in Procs : CreatePayment(p)
  <2>1. PICK p \in Procs : CreatePayment(p)
    BY <1>2
  <2>2. PICK r \in PaymentIds :
          /\ IsNextId(r)
          /\ payments' = [payments EXCEPT ![r] =
                [status |-> "pending", order |-> ctx[p].order, amount |-> ctx[p].amount]]
    BY <2>1 DEF CreatePayment
  <2>3. q # r
    BY <2>2 DEF IsNextId
  <2>. QED BY <2>2, <2>3 DEF TypeOK
<1>3. CASE \E p \in Procs : ConfirmPayment(p)
  <2>1. PICK p \in Procs : ConfirmPayment(p)
    BY <1>3
  <2>. QED BY <2>1 DEF ConfirmPayment, TypeOK, Payment
<1>4. CASE \E o \in OrderIds : ExpirePending(o)
  BY <1>4, ExpireTouchesPending
<1>. QED BY <1>1, <1>2, <1>3, <1>4, PaymentSteps

\* So an order that has its money, or was written by hand, stays so.
LEMMA StepKeepsEntitled ==
  ASSUME Requests, [Next]_vars, NEW o, Entitled(o)
  PROVE  Entitled(o)'
<1>1. Backed(o) => Backed(o)'
  BY StepKeepsConfirmed DEF Backed, PaymentsOf
<1>2. byHand \subseteq byHand'
  BY DEF Next, Handler, ExpirationJob, OneStatement, vars, tables, BeginSimple, Begin,
         BeginRequestPayment, BeginRefund, BeginMarkPaid, FindPending, CreatePayment,
         ConfirmPayment, FindConfirmed, CreateRefund, WriteStatus, Abort, StartJob, JobCancel,
         JobRestock, JobExpirePayments, JobNotify, JobFails, CreateOrder, ModifyOrder,
         UpdateStatus, AdminExpire, Scan
<1>. QED BY <1>1, <1>2 DEF Entitled

-----------------------------------------------------------------------------
(* Requests is inductive. *)

LEMMA InitRequests == Init => Requests
BY ConstantsAssumption
   DEF Init, Requests, TypeOK, Holding, Owned, AttemptLeft, ConfirmReady, RefundReady, RefundBacked, PaymentsOf,
       Payment, PaymentStatuses, Job, JobSteps, Labels, Context, NoContext

\* A request begins with a context of its own and touches no table.
LEMMA BeginKeepsRequests ==
  ASSUME Requests, NEW p \in Procs, NEW c \in Context, NEW l \in Labels \ {"createRefund"},
         c.order \in OrderIds, c.target \in Statuses,
         l = "confirmPayment" => /\ c.payment \in PaymentIds
                                 /\ payments[c.payment].status # "none"
                                 /\ payments[c.payment].order = c.order,
         pc' = [pc EXCEPT ![p] = l], ctx' = [ctx EXCEPT ![p] = c], UNCHANGED <<tables, job>>
  PROVE  Requests'
BY DEF Requests, TypeOK, Holding, Owned, AttemptLeft, ConfirmReady, RefundReady, RefundBacked, PaymentsOf, tables

\* A request returns or throws and touches no table.
LEMMA ReturnKeepsRequests ==
  ASSUME Requests, NEW p \in Procs, Return(p), UNCHANGED <<tables, job>>
  PROVE  Requests'
<1>1. NoContext \in Context /\ "idle" \in Labels
  BY DEF NoContext, Context, Labels
<1>. QED
  BY <1>1 DEF Return, Requests, TypeOK, Holding, Owned, AttemptLeft, ConfirmReady, RefundReady, RefundBacked,
              PaymentsOf, tables

\* A job step touches neither the requests nor the refunds.
LEMMA JobKeepsRequests ==
  ASSUME Requests, NEW o \in OrderIds, NEW j \in Job,
         j.state \notin {"completed", "failed"} => j.attempts < MaxAttempts,
         job' = [job EXCEPT ![o] = j], UNCHANGED <<total, refunds, byHand, pc, ctx>>,
         status' = status \/ status' = [status EXCEPT ![o] = "cancelled"],
         UNCHANGED payments \/ ExpirePending(o)
  PROVE  Requests'
<1>1. TypeOK'
  BY ExpireTouchesPending DEF Requests, TypeOK, Statuses
<1>2. \A q \in PaymentIds : /\ payments'[q].order = payments[q].order
                            /\ payments[q].status # "pending" => payments'[q] = payments[q]
  BY ExpireTouchesPending DEF Requests
<1>3. \A q \in PaymentIds : payments[q].status = "none" <=> payments'[q].status = "none"
  <2>1. CASE UNCHANGED payments
    BY <2>1
  <2>2. CASE ExpirePending(o)
    BY <2>2 DEF ExpirePending, PaymentsOf, Requests, TypeOK, Payment
  <2>. QED BY <2>1, <2>2
<1>4. pc' = pc /\ ctx' = ctx /\ refunds' = refunds
  OBVIOUS
<1>5. Holding'
  BY <1>4 DEF Requests, Holding
<1>6. Owned'
  BY <1>2, <1>3 DEF Requests, Owned
<1>7. ConfirmReady'
  BY <1>2, <1>3, <1>4 DEF Requests, ConfirmReady
<1>8. AttemptLeft'
  BY DEF Requests, TypeOK, AttemptLeft
<1>9. RefundReady'
  <2>. SUFFICES ASSUME NEW p \in Procs, pc[p] = "createRefund"
                PROVE  ctx[p].payment \in PaymentsOf(ctx[p].order, "confirmed")'
    BY <1>4 DEF RefundReady
  <2>1. ctx[p].payment \in PaymentsOf(ctx[p].order, "confirmed")
    BY DEF Requests, RefundReady
  <2>. QED BY <1>2, <1>4, <2>1 DEF PaymentsOf
<1>10. RefundBacked'
  BY <1>2, <1>4 DEF Requests, RefundBacked
<1>. QED
  BY <1>1, <1>5, <1>6, <1>7, <1>8, <1>9, <1>10 DEF Requests

LEMMA HandlerKeepsRequests ==
  ASSUME Requests, NEW p \in Procs, Handler(p)
  PROVE  Requests'
<1>. USE DEF Requests
<1>1. ASSUME NEW o \in OrderIds, NEW op \in SimpleOps, BeginSimple(p, op, o)
      PROVE  Requests'
  <2>. DEFINE c == [NoContext EXCEPT !.order = o, !.target = TargetOf[op]]
  <2>1. c \in Context /\ c.order \in OrderIds /\ c.target \in Statuses
    <3>1. TargetOf[op] \in Statuses
      BY DEF SimpleOps, TargetOf, Statuses
    <3>. QED BY <3>1 DEF NoContext, Context, Labels
  <2>2. /\ pc' = [pc EXCEPT ![p] = "writeStatus"] /\ ctx' = [ctx EXCEPT ![p] = c]
        /\ UNCHANGED <<tables, job>>
    BY <1>1 DEF BeginSimple, Begin
  <2>. HIDE DEF c
  <2>. QED BY <2>1, <2>2, BeginKeepsRequests DEF Labels
<1>2. ASSUME NEW o \in OrderIds, BeginRequestPayment(p, o)
      PROVE  Requests'
  <2>. DEFINE c == [NoContext EXCEPT !.order = o, !.target = "payment_requested",
                                     !.amount = total[o]]
  <2>1. c \in Context /\ c.order \in OrderIds /\ c.target \in Statuses
    BY DEF NoContext, Context, Statuses, Labels, TypeOK
  <2>2. /\ pc' = [pc EXCEPT ![p] = "findPending"] /\ ctx' = [ctx EXCEPT ![p] = c]
        /\ UNCHANGED <<tables, job>>
    BY <1>2 DEF BeginRequestPayment, Begin
  <2>. HIDE DEF c
  <2>. QED BY <2>1, <2>2, BeginKeepsRequests DEF Labels
<1>3. ASSUME NEW o \in OrderIds, BeginRefund(p, o)
      PROVE  Requests'
  <2>. DEFINE c == [NoContext EXCEPT !.order = o, !.target = "refunded"]
  <2>1. c \in Context /\ c.order \in OrderIds /\ c.target \in Statuses
    BY DEF NoContext, Context, Statuses, Labels
  <2>2. /\ pc' = [pc EXCEPT ![p] = "findConfirmed"] /\ ctx' = [ctx EXCEPT ![p] = c]
        /\ UNCHANGED <<tables, job>>
    BY <1>3 DEF BeginRefund, Begin
  <2>. HIDE DEF c
  <2>. QED BY <2>1, <2>2, BeginKeepsRequests DEF Labels
<1>4. ASSUME NEW q \in PaymentIds, BeginMarkPaid(p, q)
      PROVE  Requests'
  <2>. DEFINE o == payments[q].order
              c == [NoContext EXCEPT !.order = o, !.target = "paid", !.payment = q]
  <2>1. o \in OrderIds
    BY <1>4 DEF BeginMarkPaid, Owned
  <2>2. c \in Context /\ c.order \in OrderIds /\ c.target \in Statuses
    BY <2>1 DEF NoContext, Context, Statuses, Labels
  <2>4. c.payment = q /\ c.order = payments[q].order /\ payments[q].status # "none"
    BY <1>4 DEF BeginMarkPaid, NoContext
  <2>3. /\ pc' = [pc EXCEPT ![p] = "confirmPayment"] /\ ctx' = [ctx EXCEPT ![p] = c]
        /\ UNCHANGED <<tables, job>>
    BY <1>4 DEF BeginMarkPaid, Begin
  <2>. HIDE DEF c
  <2>. QED BY <2>2, <2>3, <2>4, BeginKeepsRequests DEF Labels
<1>5. CASE FindPending(p)
  <2>1. CASE PaymentsOf(ctx[p].order, "pending") # {}
    BY <1>5, <2>1, ReturnKeepsRequests DEF FindPending
  <2>2. CASE PaymentsOf(ctx[p].order, "pending") = {}
    BY <1>5, <2>2 DEF FindPending, TypeOK, Holding, Owned, AttemptLeft, ConfirmReady, RefundReady, RefundBacked,
                      PaymentsOf, tables, Labels
  <2>. QED BY <2>1, <2>2
<1>6. CASE CreatePayment(p)
  <2>1. PICK r \in PaymentIds :
          /\ IsNextId(r)
          /\ payments' = [payments EXCEPT ![r] =
                [status |-> "pending", order |-> ctx[p].order, amount |-> ctx[p].amount]]
    BY <1>6 DEF CreatePayment
  <2>2. payments[r].status = "none"
    BY <2>1 DEF IsNextId
  <2>3. TypeOK'
    BY <1>6, <2>1 DEF CreatePayment, TypeOK, Payment, PaymentStatuses, Labels, Context
  <2>. QED
    BY <1>6, <2>1, <2>2, <2>3 DEF CreatePayment, TypeOK, Holding, Owned, AttemptLeft, ConfirmReady, RefundReady,
                                  RefundBacked, PaymentsOf
<1>7. CASE ConfirmPayment(p)
  <2>1. TypeOK'
    BY <1>7 DEF ConfirmPayment, TypeOK, Payment, PaymentStatuses, Labels
  <2>. QED
    BY <1>7, <2>1 DEF ConfirmPayment, TypeOK, Payment, Holding, Owned, AttemptLeft, ConfirmReady, RefundReady,
                      RefundBacked, PaymentsOf
<1>8. CASE FindConfirmed(p)
  <2>1. CASE Return(p)
    BY <1>8, <2>1, ReturnKeepsRequests DEF FindConfirmed
  <2>2. ASSUME NEW q \in PaymentsOf(ctx[p].order, "confirmed"),
               pc' = [pc EXCEPT ![p] = "createRefund"], ctx' = [ctx EXCEPT ![p].payment = q]
        PROVE  Requests'
    <3>1. TypeOK'
      <4>1. [ctx[p] EXCEPT !.payment = q] \in Context /\ "createRefund" \in Labels
        BY <2>2 DEF TypeOK, Context, PaymentsOf, Labels
      <4>. QED BY <1>8, <2>2, <4>1 DEF FindConfirmed, TypeOK, tables
    <3>. QED
      BY <1>8, <2>2, <3>1 DEF FindConfirmed, TypeOK, Holding, Owned, AttemptLeft, ConfirmReady, RefundReady,
                              RefundBacked, PaymentsOf, tables, Context
  <2>. QED BY <1>8, <2>1, <2>2 DEF FindConfirmed
<1>9. CASE CreateRefund(p)
  <2>1. ctx[p].payment \in PaymentIds /\ payments[ctx[p].payment].status = "confirmed"
    BY <1>9 DEF CreateRefund, RefundReady, PaymentsOf
  <2>. QED
    BY <1>9, <2>1 DEF CreateRefund, TypeOK, Labels, Holding, Owned, AttemptLeft, ConfirmReady, RefundReady,
                      RefundBacked, PaymentsOf
<1>10. CASE WriteStatus(p)
  <2>1. TypeOK'
    <3>1. NoContext \in Context /\ ctx[p].then \in Labels /\ ctx[p].target \in Statuses
      BY <1>10 DEF WriteStatus, TypeOK, Holding, NoContext, Context, Labels
    <3>. QED BY <1>10, <3>1 DEF WriteStatus, TypeOK
  <2>. QED
    BY <1>10, <2>1 DEF WriteStatus, TypeOK, Holding, Owned, AttemptLeft, ConfirmReady, RefundReady, RefundBacked,
                       PaymentsOf, Context, NoContext
<1>11. CASE Abort(p)
  BY <1>11, ReturnKeepsRequests DEF Abort
<1>. QED BY <1>1, <1>2, <1>3, <1>4, <1>5, <1>6, <1>7, <1>8, <1>9, <1>10, <1>11 DEF Handler

LEMMA JobStepKeepsRequests ==
  ASSUME Requests, NEW o \in OrderIds, ExpirationJob(o) \/ Scan(o)
  PROVE  Requests'
<1>. USE ConstantsAssumption DEF Requests
<1>1. \A s \in {"waiting", "completed"} \cup JobSteps :
         /\ [job[o] EXCEPT !.state = s] \in Job
         /\ job[o].state \notin {"completed", "failed"}
              => [job[o] EXCEPT !.state = s].attempts < MaxAttempts
  BY DEF TypeOK, AttemptLeft, Job
<1>2. ASSUME NEW s \in {"waiting", "completed"} \cup JobSteps,
             job[o].state \notin {"completed", "failed"},
             job' = [job EXCEPT ![o].state = s], UNCHANGED <<total, refunds, byHand, pc, ctx>>,
             status' = status \/ status' = [status EXCEPT ![o] = "cancelled"],
             UNCHANGED payments \/ ExpirePending(o)
      PROVE  Requests'
  <2>. DEFINE j == [job[o] EXCEPT !.state = s]
  <2>1. j \in Job /\ j.attempts < MaxAttempts
    BY <1>1, <1>2
  <2>2. job' = [job EXCEPT ![o] = j]
    BY <1>2
  <2>. HIDE DEF j
  <2>. QED BY <1>2, <2>1, <2>2, JobKeepsRequests
<1>3. CASE JobFails(o)
  <2>. DEFINE n == job[o].attempts + 1
              j == [state |-> IF n < MaxAttempts THEN "waiting" ELSE "failed", attempts |-> n]
  <2>1. job[o].attempts \in Nat /\ job[o].attempts < MaxAttempts
    BY <1>3 DEF JobFails, JobSteps, TypeOK, AttemptLeft, Job
  <2>2. j \in Job /\ (j.state \notin {"completed", "failed"} => j.attempts < MaxAttempts)
    BY <2>1 DEF Job
  <2>3. job' = [job EXCEPT ![o] = j] /\ UNCHANGED <<tables, pc, ctx>>
    BY <1>3 DEF JobFails
  <2>. HIDE DEF j
  <2>. QED BY <2>2, <2>3, JobKeepsRequests DEF tables
<1>4. CASE Scan(o)
  BY <1>4, <1>2 DEF Scan, tables
<1>5. CASE StartJob(o)
  BY <1>5, <1>2 DEF StartJob, tables, JobSteps
<1>6. CASE JobCancel(o)
  BY <1>6, <1>2 DEF JobCancel, JobSteps
<1>7. CASE JobRestock(o)
  BY <1>7, <1>2 DEF JobRestock, tables, JobSteps
<1>8. CASE JobExpirePayments(o)
  BY <1>8, <1>2 DEF JobExpirePayments, JobSteps
<1>9. CASE JobNotify(o)
  BY <1>9, <1>2 DEF JobNotify, tables
<1>. QED BY <1>3, <1>4, <1>5, <1>6, <1>7, <1>8, <1>9 DEF ExpirationJob

\* createOrder, modifyOrder, the dashboard and the admin touch no request.
LEMMA StatementKeepsRequests ==
  ASSUME Requests, NEW o \in OrderIds, OneStatement(o)
  PROVE  Requests'
<1>. USE DEF Requests
<1>1. ASSUME UNCHANGED <<payments, refunds, job, pc, ctx>>, TypeOK'
      PROVE  Requests'
  BY <1>1 DEF Holding, Owned, AttemptLeft, RefundReady, RefundBacked, ConfirmReady, PaymentsOf
<1>2. ASSUME NEW a \in Amounts, CreateOrder(o, a) \/ ModifyOrder(o, a)
      PROVE  Requests'
  <2>1. TypeOK'
    BY <1>2 DEF CreateOrder, ModifyOrder, TypeOK, Statuses
  <2>. QED BY <1>1, <1>2, <2>1 DEF CreateOrder, ModifyOrder
<1>3. ASSUME NEW s \in Statuses, UpdateStatus(o, s)
      PROVE  Requests'
  <2>1. TypeOK'
    BY <1>3 DEF UpdateStatus, TypeOK
  <2>. QED BY <1>1, <1>3, <2>1 DEF UpdateStatus
<1>4. CASE AdminExpire(o)
  <2>1. TypeOK'
    BY <1>4, ExpireTouchesPending DEF AdminExpire, TypeOK, Statuses
  <2>2. \A q \in PaymentIds :
          /\ payments'[q].order = payments[q].order
          /\ payments[q].status # "pending" => payments'[q] = payments[q]
    BY <1>4, ExpireTouchesPending DEF AdminExpire
  <2>3. \A q \in PaymentIds : payments[q].status = "none" <=> payments'[q].status = "none"
    BY <1>4 DEF AdminExpire, ExpirePending, PaymentsOf, TypeOK, Payment
  <2>4. Holding' /\ AttemptLeft'
    BY <1>4 DEF AdminExpire, Holding, AttemptLeft
  <2>5. Owned' /\ ConfirmReady'
    BY <1>4, <2>2, <2>3 DEF AdminExpire, Owned, ConfirmReady
  <2>6. RefundReady' /\ RefundBacked'
    BY <1>4, <2>2 DEF AdminExpire, RefundReady, RefundBacked, PaymentsOf
  <2>. QED BY <2>1, <2>4, <2>5, <2>6
<1>5. CASE Scan(o)
  BY <1>5, JobStepKeepsRequests
<1>. QED BY <1>2, <1>3, <1>4, <1>5 DEF OneStatement

LEMMA NextRequests == Requests /\ [Next]_vars => Requests'
<1>. SUFFICES ASSUME Requests, [Next]_vars
              PROVE  Requests'
  OBVIOUS
<1>1. CASE UNCHANGED vars
  BY <1>1 DEF vars, Requests, TypeOK, Holding, Owned, AttemptLeft, RefundReady, RefundBacked,
              ConfirmReady, PaymentsOf
<1>2. CASE Next
  BY <1>2, HandlerKeepsRequests, JobStepKeepsRequests, StatementKeepsRequests DEF Next
<1>. QED BY <1>1, <1>2

THEOREM RequestsInvariant == Spec => []Requests
<1>1. Init => Requests
  BY InitRequests
<1>2. Requests /\ [Next]_vars => Requests'
  BY NextRequests
<1>. QED BY <1>1, <1>2, PTL DEF Spec

\* Every variable keeps its type: no handler, job or route writes a value the
\* schema or the code that reads it does not know.
THEOREM TypeCorrect == Spec => []TypeOK
<1>1. Requests => TypeOK
  BY DEF Requests
<1>. QED BY <1>1, RequestsInvariant, PTL

\* Whatever the routes, the dashboard and the jobs do, a refund row is of a
\* payment that was confirmed.
THEOREM RefundsAreBacked == Spec => []RefundBacked
<1>1. Requests => RefundBacked
  BY DEF Requests
<1>. QED BY <1>1, RequestsInvariant, PTL

\* No handler, job or route takes the confirmation of a payment back.
THEOREM ConfirmationIsFinal == Spec => ConfirmedStays
<1>1. Requests /\ [Next]_vars =>
         [\A q \in PaymentIds :
            payments[q].status = "confirmed" => payments'[q].status = "confirmed"]_vars
  BY StepKeepsConfirmed
<1>. QED BY <1>1, RequestsInvariant, PTL DEF Spec, ConfirmedStays

-----------------------------------------------------------------------------
(* Money is inductive relative to Requests. *)

LEMMA InitMoney == Init => Money
BY DEF Init, Money, PaidBacked, RequestTarget, WriteReady, PaidOnwards

\* A request that begins a move out of a paid status has the money, the move
\* to "paid" waits for confirmPayment, and any other target is not paid.
LEMMA BeginKeepsMoney ==
  ASSUME Requests, Money, NEW p \in Procs, NEW o \in OrderIds, NEW c, NEW l,
         c.order = o, Allowed(status[o], c.target),
         c.target = "paid" => l # "writeStatus",
         l \in {"findPending", "createPayment"} => c.target = "payment_requested",
         pc' = [pc EXCEPT ![p] = l], ctx' = [ctx EXCEPT ![p] = c], UNCHANGED <<tables, job>>
  PROVE  Money'
<1>1. c.target \in PaidOnwards \ {"paid"} => Entitled(o)
  BY TableKeepsPaid DEF Money, PaidBacked
<1>2. \A r \in OrderIds : Entitled(r)' <=> Entitled(r)
  BY DEF Entitled, Backed, PaymentsOf, tables
<1>3. PaidBacked'
  BY <1>2 DEF Money, PaidBacked, tables
<1>4. RequestTarget'
  BY DEF Money, Requests, TypeOK, RequestTarget
<1>5. WriteReady'
  BY <1>1, <1>2 DEF Money, Requests, TypeOK, Holding, WriteReady
<1>. QED BY <1>3, <1>4, <1>5 DEF Money

\* A step that writes no paid status and moves no request towards one.
LEMMA QuietKeepsMoney ==
  ASSUME Requests, Money, [Next]_vars,
         \A o \in OrderIds : status'[o] \in PaidOnwards => status[o] \in PaidOnwards,
         \A r \in Procs : pc'[r] \in {"findPending", "createPayment", "writeStatus"}
                           => pc'[r] = pc[r] /\ ctx'[r] = ctx[r]
  PROVE  Money'
<1>1. \A o : Entitled(o) => Entitled(o)'
  BY StepKeepsEntitled
<1>. QED BY <1>1 DEF Money, PaidBacked, RequestTarget, WriteReady

LEMMA HandlerKeepsMoney ==
  ASSUME Requests, Money, NEW p \in Procs, Handler(p)
  PROVE  Money'
<1>next. [Next]_vars
  BY DEF Next
<1>keeps. \A o : Entitled(o) => Entitled(o)'
  BY <1>next, StepKeepsEntitled
<1>types. pc \in [Procs -> Labels] /\ ctx \in [Procs -> Context]
  BY DEF Requests, TypeOK
<1>1. ASSUME NEW o \in OrderIds, NEW op \in SimpleOps, BeginSimple(p, op, o)
      PROVE  Money'
  <2>. DEFINE c == [NoContext EXCEPT !.order = o, !.target = TargetOf[op]]
  <2>1. c.order = o /\ c.target = TargetOf[op] /\ c.target # "paid"
    BY DEF NoContext, TargetOf, SimpleOps
  <2>2. /\ Allowed(status[o], TargetOf[op]) /\ UNCHANGED <<tables, job>>
        /\ pc' = [pc EXCEPT ![p] = "writeStatus"] /\ ctx' = [ctx EXCEPT ![p] = c]
    BY <1>1 DEF BeginSimple, Begin
  <2>. HIDE DEF c
  <2>. QED BY <2>1, <2>2, BeginKeepsMoney
<1>2. ASSUME NEW o \in OrderIds, BeginRequestPayment(p, o)
      PROVE  Money'
  <2>. DEFINE c == [NoContext EXCEPT !.order = o, !.target = "payment_requested",
                                     !.amount = total[o]]
  <2>1. c.order = o /\ c.target = "payment_requested"
    BY DEF NoContext
  <2>2. /\ Allowed(status[o], "payment_requested") /\ UNCHANGED <<tables, job>>
        /\ pc' = [pc EXCEPT ![p] = "findPending"] /\ ctx' = [ctx EXCEPT ![p] = c]
    BY <1>2 DEF BeginRequestPayment, Begin
  <2>. HIDE DEF c
  <2>. QED BY <2>1, <2>2, BeginKeepsMoney
<1>3. ASSUME NEW o \in OrderIds, BeginRefund(p, o)
      PROVE  Money'
  <2>. DEFINE c == [NoContext EXCEPT !.order = o, !.target = "refunded"]
  <2>1. c.order = o /\ c.target = "refunded"
    BY DEF NoContext
  <2>2. /\ Allowed(status[o], "refunded") /\ UNCHANGED <<tables, job>>
        /\ pc' = [pc EXCEPT ![p] = "findConfirmed"] /\ ctx' = [ctx EXCEPT ![p] = c]
    BY <1>3 DEF BeginRefund, Begin
  <2>. HIDE DEF c
  <2>. QED BY <2>1, <2>2, BeginKeepsMoney
<1>4. ASSUME NEW q \in PaymentIds, BeginMarkPaid(p, q)
      PROVE  Money'
  <2>1. payments[q].order \in OrderIds
    BY <1>4 DEF BeginMarkPaid, Requests, Owned
  <2>2. pc'[p] = "confirmPayment" /\ UNCHANGED status
    BY <1>4, <1>types DEF BeginMarkPaid, Begin, tables
  <2>3. \A r \in Procs \ {p} : pc'[r] = pc[r] /\ ctx'[r] = ctx[r]
    BY <1>4, <1>types DEF BeginMarkPaid, Begin
  <2>. QED BY <1>next, <2>2, <2>3, QuietKeepsMoney
<1>5. CASE FindPending(p)
  <2>1. CASE Return(p)
    BY <1>5, <2>1, <1>next, <1>types, QuietKeepsMoney DEF FindPending, Return, tables
  <2>2. CASE pc' = [pc EXCEPT ![p] = "createPayment"] /\ UNCHANGED ctx
    BY <1>5, <2>2, <1>keeps, <1>types
       DEF FindPending, tables, Money, PaidBacked, RequestTarget, WriteReady
  <2>. QED BY <1>5, <2>1, <2>2 DEF FindPending
<1>6. CASE CreatePayment(p)
  <2>1. ctx[p].target \notin PaidOnwards
    BY <1>6 DEF CreatePayment, Money, RequestTarget, PaidOnwards
  <2>. QED
    BY <1>6, <2>1, <1>keeps, <1>types
       DEF CreatePayment, Money, PaidBacked, RequestTarget, WriteReady
<1>7. CASE ConfirmPayment(p)
  <2>1. payments'[ctx[p].payment].status = "confirmed"
    BY <1>7 DEF ConfirmPayment, Requests, TypeOK, ConfirmReady, Payment
  <2>2. payments'[ctx[p].payment].order = ctx[p].order /\ ctx[p].payment \in PaymentIds
    BY <1>7 DEF ConfirmPayment, Requests, TypeOK, ConfirmReady, Payment
  <2>3. Entitled(ctx[p].order)'
    BY <1>7, <2>1, <2>2 DEF ConfirmPayment, Entitled, Backed, PaymentsOf
  <2>. QED
    BY <1>7, <2>3, <1>keeps, <1>types
       DEF ConfirmPayment, Money, PaidBacked, RequestTarget, WriteReady
<1>8. CASE FindConfirmed(p)
  BY <1>8, <1>next, <1>types, QuietKeepsMoney DEF FindConfirmed, Return, tables
<1>9. CASE CreateRefund(p)
  <2>1. Entitled(ctx[p].order)
    BY <1>9 DEF CreateRefund, Requests, RefundReady, Entitled, Backed
  <2>. QED
    BY <1>9, <2>1, <1>keeps, <1>types
       DEF CreateRefund, Money, PaidBacked, RequestTarget, WriteReady
<1>10. CASE WriteStatus(p)
  <2>1. \A o : o = ctx[p].order /\ ctx[p].target \in PaidOnwards => Entitled(o)'
    BY <1>10, <1>keeps DEF WriteStatus, Money, WriteReady
  <2>2. PaidBacked'
    BY <1>10, <2>1, <1>keeps DEF WriteStatus, Money, PaidBacked, Requests, TypeOK
  <2>3. pc'[p] \in {"idle", "markMatched"}
    BY <1>10, <1>types DEF WriteStatus, Context
  <2>4. \A r \in Procs \ {p} : pc'[r] = pc[r] /\ ctx'[r] = ctx[r]
    BY <1>10, <1>types DEF WriteStatus
  <2>5. RequestTarget' /\ WriteReady'
    BY <2>3, <2>4, <1>keeps DEF Money, RequestTarget, WriteReady
  <2>. QED BY <2>2, <2>5 DEF Money
<1>11. CASE Abort(p)
  BY <1>11, <1>next, <1>types, QuietKeepsMoney DEF Abort, Return, tables
<1>. QED BY <1>1, <1>2, <1>3, <1>4, <1>5, <1>6, <1>7, <1>8, <1>9, <1>10, <1>11 DEF Handler

\* The jobs, createOrder, modifyOrder and the admin write no paid status;
\* the dashboard remembers the orders it wrote.
LEMMA OthersKeepMoney ==
  ASSUME Requests, Money, NEW o \in OrderIds, OneStatement(o) \/ ExpirationJob(o)
  PROVE  Money'
<1>1. [Next]_vars
  BY DEF Next
<1>2. UNCHANGED <<pc, ctx>>
  BY DEF OneStatement, CreateOrder, ModifyOrder, UpdateStatus, AdminExpire, Scan, ExpirationJob,
         StartJob, JobCancel, JobRestock, JobExpirePayments, JobNotify, JobFails
<1>3. ASSUME NEW s \in Statuses, UpdateStatus(o, s)
      PROVE  Money'
  <2>1. \A r \in OrderIds : Entitled(r) => Entitled(r)'
    BY <1>1, StepKeepsEntitled
  <2>2. o \in byHand' /\ \A r \in OrderIds \ {o} : status'[r] = status[r]
    BY <1>3 DEF UpdateStatus, Requests, TypeOK
  <2>3. PaidBacked'
    BY <2>1, <2>2 DEF Money, PaidBacked, Entitled
  <2>4. RequestTarget' /\ WriteReady'
    BY <1>2, <2>1 DEF Money, Requests, Holding, RequestTarget, WriteReady
  <2>. QED BY <2>3, <2>4 DEF Money
<1>4. ASSUME \/ status' = status
             \/ \E s \in {"pending", "cancelled"} : status' = [status EXCEPT ![o] = s]
      PROVE  Money'
  <2>1. \A r \in OrderIds : status'[r] \in PaidOnwards => status[r] \in PaidOnwards
    BY <1>4 DEF Requests, TypeOK, PaidOnwards
  <2>. QED BY <1>1, <1>2, <2>1, QuietKeepsMoney
<1>. QED
  BY <1>3, <1>4 DEF OneStatement, CreateOrder, ModifyOrder, AdminExpire, Scan, ExpirationJob,
     StartJob, JobCancel, JobRestock, JobExpirePayments, JobNotify, JobFails, tables

LEMMA NextMoney == Requests /\ Money /\ [Next]_vars => Money'
<1>. SUFFICES ASSUME Requests, Money, [Next]_vars
              PROVE  Money'
  OBVIOUS
<1>1. CASE UNCHANGED vars
  BY <1>1, QuietKeepsMoney DEF vars
<1>2. CASE Next
  BY <1>2, HandlerKeepsMoney, OthersKeepMoney DEF Next
<1>. QED BY <1>1, <1>2

LEMMA MoneyInvariant == Spec => []Money
BY InitMoney, NextMoney, RequestsInvariant, PTL DEF Spec

\* An order in a paid status has a confirmed payment of its own, however many
\* requests, expirations, retries and lost awaits interleave, unless the
\* dashboard wrote its status.
THEOREM PaidOrdersAreBacked == Spec => []PaidBacked
<1>1. Money => PaidBacked
  BY DEF Money
<1>. QED BY <1>1, MoneyInvariant, PTL

-----------------------------------------------------------------------------
(* Amounts, while nobody modifies an order or writes its status by hand *)

Unedited == "modifyOrder" \notin Ops /\ "updateStatus" \notin Ops

\* Every payment is of its order's total, and whoever is about to make one
\* has read that total.
Priced ==
  /\ byHand = {}
  /\ \A q \in PaymentIds : payments[q].status # "none" =>
       payments[q].amount = total[payments[q].order] /\ status[payments[q].order] # "absent"
  /\ \A p \in Procs : pc[p] # "idle" => status[ctx[p].order] # "absent"
  /\ \A p \in Procs : pc[p] \in {"findPending", "createPayment"} => ctx[p].amount = total[ctx[p].order]

\* A step of one request that leaves what others have read alone.
LEMMA OneRequestKeepsPriced ==
  ASSUME Requests, Priced, NEW p \in Procs, UNCHANGED <<total, byHand>>,
         \A r \in Procs \ {p} : pc'[r] = pc[r] /\ ctx'[r] = ctx[r],
         \A o \in OrderIds : status[o] # "absent" => status'[o] # "absent",
         \A q \in PaymentIds : payments'[q].status # "none" =>
           \/ payments[q].status # "none" /\ payments'[q].amount = payments[q].amount
                                          /\ payments'[q].order = payments[q].order
           \/ payments'[q].order \in OrderIds /\ status[payments'[q].order] # "absent"
                /\ payments'[q].amount = total[payments'[q].order],
         pc'[p] # "idle" => ctx'[p].order \in OrderIds /\ status[ctx'[p].order] # "absent",
         pc'[p] \in {"findPending", "createPayment"} => ctx'[p].amount = total[ctx'[p].order]
  PROVE  Priced'
<1>1. \A q \in PaymentIds : payments'[q].status # "none" =>
        payments'[q].amount = total[payments'[q].order] /\ status'[payments'[q].order] # "absent"
  BY DEF Priced, Requests, Owned
<1>2. \A r \in Procs : pc'[r] # "idle" => status'[ctx'[r].order] # "absent"
  BY DEF Priced, Requests, Holding
<1>3. \A r \in Procs : pc'[r] \in {"findPending", "createPayment"} => ctx'[r].amount = total[ctx'[r].order]
  BY DEF Priced
<1>. QED BY <1>1, <1>2, <1>3 DEF Priced

LEMMA HandlerKeepsPriced ==
  ASSUME Requests, Priced, NEW p \in Procs, Handler(p)
  PROVE  Priced'
<1>types. pc \in [Procs -> Labels] /\ ctx \in [Procs -> Context] /\ status \in [OrderIds -> Statuses \cup {"absent"}]
          /\ payments \in [PaymentIds -> Payment]
  BY DEF Requests, TypeOK
<1>absent. "absent" \notin Statuses
  BY DEF Statuses
<1>held. pc[p] # "idle" => ctx[p].order \in OrderIds /\ status[ctx[p].order] # "absent" /\ ctx[p].target \in Statuses
  BY DEF Requests, Holding, Priced
<1>1. ASSUME NEW o \in OrderIds, NEW c, NEW op, NEW t, NEW l, Begin(p, op, o, t, l), ctx' = [ctx EXCEPT ![p] = c],
             c.order = o, l \in {"findPending", "createPayment"} => c.amount = total[o]
      PROVE  Priced'
  <2>1. status[o] # "absent"
    BY <1>1, <1>absent DEF Begin, Allowed
  <2>2. pc'[p] = l /\ ctx'[p] = c /\ \A r \in Procs \ {p} : pc'[r] = pc[r] /\ ctx'[r] = ctx[r]
    BY <1>1, <1>types DEF Begin
  <2>. QED BY <1>1, <2>1, <2>2, OneRequestKeepsPriced DEF Begin, tables
<1>2. ASSUME NEW o \in OrderIds, NEW op \in SimpleOps, BeginSimple(p, op, o)
      PROVE  Priced'
  <2>1. [NoContext EXCEPT !.order = o, !.target = TargetOf[op]].order = o
    BY DEF NoContext
  <2>. QED BY <1>1, <1>2, <2>1 DEF BeginSimple
<1>3. ASSUME NEW o \in OrderIds, BeginRequestPayment(p, o)
      PROVE  Priced'
  <2>. DEFINE c == [NoContext EXCEPT !.order = o, !.target = "payment_requested", !.amount = total[o]]
  <2>1. c.order = o /\ c.amount = total[o]
    BY DEF NoContext
  <2>. QED BY <1>1, <1>3, <2>1 DEF BeginRequestPayment
<1>4. ASSUME NEW o \in OrderIds, BeginRefund(p, o)
      PROVE  Priced'
  <2>1. [NoContext EXCEPT !.order = o, !.target = "refunded"].order = o
    BY DEF NoContext
  <2>. QED BY <1>1, <1>4, <2>1 DEF BeginRefund
<1>5. ASSUME NEW q \in PaymentIds, BeginMarkPaid(p, q)
      PROVE  Priced'
  <2>. DEFINE o == payments[q].order
  <2>1. [NoContext EXCEPT !.order = o, !.target = "paid", !.payment = q].order = o /\ o \in OrderIds
    BY <1>5 DEF NoContext, BeginMarkPaid, Requests, Owned
  <2>. QED BY <1>1, <1>5, <2>1 DEF BeginMarkPaid
<1>6. ASSUME NEW l, pc[p] # "idle", UNCHANGED <<total, byHand, status>>, pc' = [pc EXCEPT ![p] = l],
             ctx'[p].order = ctx[p].order, \A r \in Procs \ {p} : ctx'[r] = ctx[r],
             l \notin {"findPending", "createPayment"} \/ (l = "createPayment" /\ pc[p] = "findPending" /\ ctx' = ctx),
             \A q \in PaymentIds : payments'[q].status # "none" =>
               \/ payments[q].status # "none" /\ payments'[q].amount = payments[q].amount
                                              /\ payments'[q].order = payments[q].order
               \/ payments'[q].order \in OrderIds /\ status[payments'[q].order] # "absent"
                    /\ payments'[q].amount = total[payments'[q].order]
      PROVE  Priced'
  <2>1. pc'[p] = l /\ \A r \in Procs \ {p} : pc'[r] = pc[r]
    BY <1>6, <1>types
  <2>2. pc'[p] \in {"findPending", "createPayment"} => ctx'[p].amount = total[ctx'[p].order]
    BY <1>6, <2>1 DEF Priced
  <2>. QED BY <1>6, <1>held, <2>1, <2>2, OneRequestKeepsPriced
<1>7. ASSUME Return(p), UNCHANGED tables
      PROVE  Priced'
  <2>1. pc'[p] = "idle" /\ \A r \in Procs \ {p} : pc'[r] = pc[r] /\ ctx'[r] = ctx[r]
    BY <1>7, <1>types DEF Return
  <2>. QED BY <1>7, <2>1, OneRequestKeepsPriced DEF tables
<1>8. CASE FindPending(p)
  BY <1>6, <1>7, <1>8 DEF FindPending, tables
<1>9. CASE CreatePayment(p)
  <2>1. PICK q \in PaymentIds : payments' = [payments EXCEPT ![q] =
             [status |-> "pending", order |-> ctx[p].order, amount |-> ctx[p].amount]]
    BY <1>9 DEF CreatePayment
  <2>2. ctx[p].amount = total[ctx[p].order] /\ pc[p] # "idle"
    BY <1>9 DEF CreatePayment, Priced
  <2>3. payments'[q].order = ctx[p].order /\ payments'[q].amount = ctx[p].amount
        /\ \A r \in PaymentIds \ {q} : payments'[r] = payments[r]
    BY <2>1, <1>types
  <2>. QED BY <1>6, <1>9, <1>held, <2>2, <2>3 DEF CreatePayment
<1>10. CASE ConfirmPayment(p)
  <2>1. \A q \in PaymentIds : payments'[q].amount = payments[q].amount /\ payments'[q].order = payments[q].order
    BY <1>10, <1>types DEF ConfirmPayment, Payment
  <2>2. \A q \in PaymentIds : payments'[q].status # "none" => payments[q].status # "none"
    BY <1>10, <1>types DEF ConfirmPayment, Payment, Requests, ConfirmReady
  <2>. QED BY <1>6, <1>10, <2>1, <2>2 DEF ConfirmPayment
<1>11. CASE FindConfirmed(p)
  <2>1. ASSUME NEW q \in PaymentsOf(ctx[p].order, "confirmed"), pc' = [pc EXCEPT ![p] = "createRefund"],
               ctx' = [ctx EXCEPT ![p].payment = q], pc[p] = "findConfirmed", UNCHANGED <<tables, job>>
        PROVE  Priced'
    <3>1. ctx'[p].order = ctx[p].order /\ \A r \in Procs \ {p} : ctx'[r] = ctx[r]
      BY <2>1, <1>types DEF Context
    <3>. QED BY <1>6, <2>1, <3>1 DEF tables
  <2>. QED BY <1>7, <1>11, <2>1 DEF FindConfirmed, tables
<1>12. CASE CreateRefund(p)
  BY <1>6, <1>12 DEF CreateRefund
<1>13. CASE WriteStatus(p)
  <2>1. \A o \in OrderIds : status[o] # "absent" => status'[o] # "absent"
    BY <1>13, <1>held, <1>types, <1>absent DEF WriteStatus
  <2>2. ctx[p] \in Context /\ pc' = [pc EXCEPT ![p] = ctx[p].then]
    BY <1>13, <1>types DEF WriteStatus
  <2>3. ctx' = [ctx EXCEPT ![p] = IF ctx[p].then = "idle" THEN NoContext ELSE ctx[p]]
    BY <1>13, <1>types DEF WriteStatus
  <2>4. pc'[p] \in {"idle", "markMatched"} /\ (pc'[p] # "idle" => ctx'[p] = ctx[p])
        /\ \A r \in Procs \ {p} : pc'[r] = pc[r] /\ ctx'[r] = ctx[r]
    BY <2>2, <2>3, <1>types DEF Context
  <2>5. UNCHANGED <<total, byHand, payments>> /\ pc[p] = "writeStatus"
    BY <1>13 DEF WriteStatus
  <2>. QED BY <1>held, <2>1, <2>4, <2>5, OneRequestKeepsPriced
<1>14. CASE Abort(p)
  BY <1>7, <1>14 DEF Abort
<1>. QED BY <1>2, <1>3, <1>4, <1>5, <1>8, <1>9, <1>10, <1>11, <1>12, <1>13, <1>14 DEF Handler

LEMMA OthersKeepPriced ==
  ASSUME Unedited, Requests, Priced, NEW o \in OrderIds, OneStatement(o) \/ ExpirationJob(o)
  PROVE  Priced'
<1>1. UNCHANGED <<byHand, pc, ctx>>
  BY DEF Unedited, OneStatement, CreateOrder, ModifyOrder, UpdateStatus, AdminExpire, Scan, ExpirationJob, tables,
         StartJob, JobCancel, JobRestock, JobExpirePayments, JobNotify, JobFails
<1>2. ASSUME NEW a \in Amounts, CreateOrder(o, a)
      PROVE  Priced'
  <2>1. /\ status[o] = "absent" /\ status'[o] = "pending" /\ payments' = payments
        /\ \A r \in OrderIds \ {o} : status'[r] = status[r] /\ total'[r] = total[r]
    BY <1>2 DEF CreateOrder, Requests, TypeOK
  <2>2. \A q \in PaymentIds : payments[q].status # "none" =>
          payments[q].order \in OrderIds /\ payments[q].order # o
    BY <2>1 DEF Requests, Owned, Priced
  <2>3. \A p \in Procs : pc[p] # "idle" => ctx[p].order \in OrderIds /\ ctx[p].order # o
    BY <2>1 DEF Requests, Holding, Priced
  <2>. QED BY <1>1, <2>1, <2>2, <2>3 DEF Priced
<1>3. ASSUME \/ status' = status
             \/ \E s \in {"pending", "cancelled"} : status' = [status EXCEPT ![o] = s],
             total' = total, payments' = payments \/ ExpirePending(o)
      PROVE  Priced'
  <2>1. \A r \in OrderIds : status[r] # "absent" => status'[r] # "absent"
    BY <1>3 DEF Requests, TypeOK
  <2>2. \A q \in PaymentIds : payments'[q].order = payments[q].order /\ payments'[q].amount = payments[q].amount
                              /\ (payments'[q].status # "none" => payments[q].status # "none")
    BY <1>3 DEF ExpirePending, PaymentsOf, Requests, TypeOK, Payment
  <2>3. \A q \in PaymentIds : payments'[q].status # "none" =>
          payments'[q].amount = total[payments'[q].order] /\ status'[payments'[q].order] # "absent"
    BY <2>1, <2>2 DEF Priced, Requests, Owned
  <2>4. \A p \in Procs : pc[p] # "idle" => status'[ctx[p].order] # "absent"
    BY <2>1 DEF Priced, Requests, Holding
  <2>. QED BY <1>1, <1>3, <2>3, <2>4 DEF Priced
<1>. QED
  BY <1>2, <1>3 DEF Unedited, OneStatement, ModifyOrder, UpdateStatus, AdminExpire, Scan, ExpirationJob, tables,
         StartJob, JobCancel, JobRestock, JobExpirePayments, JobNotify, JobFails


\* While nobody modifies an order or writes its status by hand, the payment of
\* a paid order is of exactly its total, however many requests, expirations,
\* retries and lost awaits interleave.
THEOREM PaidOrdersInFull == ASSUME Unedited PROVE Spec => []PaidInFull
<1>1. Init => Priced
  BY DEF Init, Priced
<1>2. Requests /\ Priced /\ [Next]_vars => Priced'
  <2>. SUFFICES ASSUME Requests, Priced, [Next]_vars
                PROVE  Priced'
    OBVIOUS
  <2>1. CASE UNCHANGED vars
    BY <2>1 DEF vars, Priced
  <2>2. CASE Next
    BY <2>2, HandlerKeepsPriced, OthersKeepPriced DEF Next
  <2>. QED BY <2>1, <2>2
<1>3. Money /\ Priced => PaidInFull
  BY DEF Money, Priced, PaidBacked, PaidInFull, Entitled, Backed, PaymentsOf
<1>. QED BY <1>1, <1>2, <1>3, RequestsInvariant, MoneyInvariant, PTL DEF Spec

-----------------------------------------------------------------------------
(* One request of the service at a time *)

OneRequest == (\A p, q \in Procs : p = q) /\ Ops \subseteq ServiceOps

\* What a request has read is still so, and no job runs.
Legal ==
  /\ \A p \in Procs : ctx[p].then = "idle" /\ (pc[p] # "idle" => Allowed(status[ctx[p].order], ctx[p].target))
  /\ \A o \in OrderIds : job[o].state = "none"

Moves == \E o \in OrderIds : Lifecycle!Create(o) \/ \E t \in Statuses : Lifecycle!Move(o, t)

LEMMA HandlerMoves ==
  ASSUME OneRequest, Requests, Legal, NEW p \in Procs, Handler(p)
  PROVE  Legal' /\ (status' = status \/ Moves)
<1>types. pc \in [Procs -> Labels] /\ ctx \in [Procs -> Context] /\ status \in [OrderIds -> Statuses \cup {"absent"}]
  BY DEF Requests, TypeOK
<1>only. \A r \in Procs : r = p
  BY DEF OneRequest
<1>1. ASSUME NEW o \in OrderIds, NEW c, NEW op, NEW t, NEW l, Begin(p, op, o, t, l), ctx' = [ctx EXCEPT ![p] = c],
             c.order = o, c.target = t, c.then = "idle"
      PROVE  Legal' /\ status' = status
  <2>1. ctx'[p] = c /\ Allowed(status[o], t)
    BY <1>1, <1>types DEF Begin
  <2>. QED BY <1>1, <1>only, <2>1 DEF Legal, Begin, tables
<1>2. ASSUME NEW o \in OrderIds, NEW op \in SimpleOps, BeginSimple(p, op, o)
      PROVE  Legal' /\ status' = status
  <2>. DEFINE c == [NoContext EXCEPT !.order = o, !.target = TargetOf[op]]
  <2>1. c.order = o /\ c.target = TargetOf[op] /\ c.then = "idle"
    BY DEF NoContext
  <2>. QED BY <1>1, <1>2, <2>1 DEF BeginSimple
<1>3. ASSUME NEW o \in OrderIds, BeginRequestPayment(p, o)
      PROVE  Legal' /\ status' = status
  <2>. DEFINE c == [NoContext EXCEPT !.order = o, !.target = "payment_requested", !.amount = total[o]]
  <2>1. c.order = o /\ c.target = "payment_requested" /\ c.then = "idle"
    BY DEF NoContext
  <2>. QED BY <1>1, <1>3, <2>1 DEF BeginRequestPayment
<1>4. ASSUME NEW o \in OrderIds, BeginRefund(p, o)
      PROVE  Legal' /\ status' = status
  <2>. DEFINE c == [NoContext EXCEPT !.order = o, !.target = "refunded"]
  <2>1. c.order = o /\ c.target = "refunded" /\ c.then = "idle"
    BY DEF NoContext
  <2>. QED BY <1>1, <1>4, <2>1 DEF BeginRefund
<1>5. ASSUME NEW q \in PaymentIds, BeginMarkPaid(p, q)
      PROVE  Legal' /\ status' = status
  <2>. DEFINE o == payments[q].order
              c == [NoContext EXCEPT !.order = o, !.target = "paid", !.payment = q]
  <2>1. c.order = o /\ c.target = "paid" /\ c.then = "idle" /\ o \in OrderIds
    BY <1>5 DEF NoContext, BeginMarkPaid, Requests, Owned
  <2>. QED BY <1>1, <1>5, <2>1 DEF BeginMarkPaid
<1>6. ASSUME pc[p] # "idle", UNCHANGED <<status, job>>, ctx'[p].order = ctx[p].order,
             ctx'[p].target = ctx[p].target, ctx'[p].then = ctx[p].then
      PROVE  Legal'
  BY <1>6, <1>only DEF Legal
<1>7. ASSUME Return(p), UNCHANGED <<status, job>>
      PROVE  Legal'
  BY <1>7, <1>only, <1>types DEF Legal, Return, NoContext
<1>8. CASE FindPending(p) \/ CreatePayment(p) \/ ConfirmPayment(p) \/ CreateRefund(p) \/ Abort(p)
  BY <1>6, <1>7, <1>8 DEF FindPending, CreatePayment, ConfirmPayment, CreateRefund, Abort, tables
<1>9. CASE FindConfirmed(p)
  <2>1. ASSUME NEW q, ctx' = [ctx EXCEPT ![p].payment = q], pc[p] = "findConfirmed", UNCHANGED <<tables, job>>
        PROVE  Legal' /\ status' = status
    <3>1. ctx'[p].order = ctx[p].order /\ ctx'[p].target = ctx[p].target /\ ctx'[p].then = ctx[p].then
      BY <2>1, <1>types DEF Context
    <3>. QED BY <1>6, <2>1, <3>1 DEF tables
  <2>. QED BY <1>7, <1>9, <2>1 DEF FindConfirmed, tables
<1>10. CASE WriteStatus(p)
  <2>. DEFINE o == ctx[p].order
              t == ctx[p].target
  <2>1. pc[p] = "writeStatus" /\ ctx[p].then = "idle" /\ o \in OrderIds /\ t \in Statuses /\ Allowed(status[o], t)
    BY <1>10 DEF WriteStatus, Legal, Requests, Holding
  <2>2. status' = [status EXCEPT ![o] = t] /\ UNCHANGED job
    BY <1>10 DEF WriteStatus
  <2>3. pc'[p] = "idle" /\ ctx'[p].then = "idle"
    BY <1>10, <1>types, <2>1 DEF WriteStatus, NoContext
  <2>4. Legal'
    BY <1>only, <2>2, <2>3 DEF Legal
  <2>5. Moves
    BY <2>1, <2>2 DEF Moves, Lifecycle!Move, Lifecycle!Allowed, Lifecycle!Transitions, Lifecycle!Statuses,
                      Allowed, Transitions, Statuses
  <2>. QED BY <2>4, <2>5
<1>. QED BY <1>2, <1>3, <1>4, <1>5, <1>8, <1>9, <1>10
  DEF Handler, FindPending, CreatePayment, ConfirmPayment, CreateRefund, Abort, tables

LEMMA OthersMove ==
  ASSUME OneRequest, Requests, Legal, NEW o \in OrderIds, OneStatement(o) \/ ExpirationJob(o)
  PROVE  Legal' /\ (status' = status \/ Moves)
<1>1. UNCHANGED <<pc, ctx, job>>
  BY DEF OneRequest, ServiceOps, SimpleOps, Legal, OneStatement, CreateOrder, ModifyOrder, UpdateStatus, AdminExpire,
         Scan, ExpirationJob, StartJob, JobCancel, JobRestock, JobExpirePayments, JobNotify, JobFails, JobSteps
<1>2. status' = status \/ \E a \in Amounts : CreateOrder(o, a)
  BY DEF OneRequest, ServiceOps, SimpleOps, Legal, OneStatement, CreateOrder, ModifyOrder, UpdateStatus, AdminExpire,
         Scan, ExpirationJob, StartJob, JobCancel, JobRestock, JobExpirePayments, JobNotify, JobFails, JobSteps, tables
<1>3. CASE status' = status
  BY <1>1, <1>3 DEF Legal
<1>4. CASE \E a \in Amounts : CreateOrder(o, a)
  <2>1. status[o] = "absent" /\ status' = [status EXCEPT ![o] = "pending"]
    BY <1>4 DEF CreateOrder
  <2>2. Moves
    BY <2>1 DEF Moves, Lifecycle!Create
  <2>3. \A p \in Procs : pc[p] # "idle" => ctx[p].order # o
    BY <2>1 DEF Legal, Allowed, Statuses
  <2>4. \A r \in OrderIds \ {o} : status'[r] = status[r]
    BY <2>1 DEF Requests, TypeOK
  <2>. QED BY <1>1, <2>2, <2>3, <2>4 DEF Legal, Requests, Holding
<1>. QED BY <1>2, <1>3, <1>4

\* Requests of the order service that come one at a time follow the transition
\* table, although a request may stop between its statements: the order as the
\* service writes it implements the abstract order.
THEOREM FollowsTheTable == ASSUME OneRequest PROVE Spec => ImplementsLifecycle
<1>1. Init => Legal /\ Lifecycle!Init
  BY DEF Init, Legal, NoContext, Lifecycle!Init
<1>2. Requests /\ Legal /\ [Next]_vars => Legal' /\ [Lifecycle!Next]_status
  <2>. SUFFICES ASSUME Requests, Legal, [Next]_vars
                PROVE  Legal' /\ [Lifecycle!Next]_status
    OBVIOUS
  <2>1. CASE UNCHANGED vars
    BY <2>1 DEF vars, Legal
  <2>2. CASE Next
    <3>1. Legal' /\ (status' = status \/ Moves)
      BY <2>2, HandlerMoves, OthersMove DEF Next
    <3>. QED BY <3>1 DEF Moves, Lifecycle!Next, Lifecycle!Statuses, Statuses
  <2>. QED BY <2>1, <2>2
<1>. QED BY <1>1, <1>2, RequestsInvariant, PTL DEF Spec, ImplementsLifecycle, Lifecycle!Spec

-----------------------------------------------------------------------------
(* YapeMatching.  Requests and Money carry over; Working says what a Yape    *)
(* request knows at each of its steps, and both are inductive together.      *)

Confirmed(q) == q \in PaymentIds /\ payments[q].status = "confirmed"

\* A row that is not there yet is nobody's.
Unborn == \A q \in PaymentIds : payments[q].status = "none" => payments[q].order = NoOrder

\* What Yape request p holds, and where it is when inside markPaid.
Works(p) ==
  /\ step[p] # "idle" => held[p].note \in Notes
  /\ step[p] \in {"callMarkPaid", "markPaid"} =>
       held[p].payment \in PaymentIds /\ payments[held[p].payment].status # "none"
  /\ step[p] \in {"readOrder", "findPayment", "upsert", "payOrder", "closeNote"} =>
       held[p].order \in OrderIds
  /\ step[p] \in {"readOrder", "findPayment"} => held[p].payment = NoPayment
  /\ step[p] = "upsert" /\ held[p].payment # NoPayment =>
       payments[held[p].payment].order = held[p].order
  /\ step[p] \in {"payOrder", "closeNote"} =>
       Confirmed(held[p].payment) /\ payments[held[p].payment].order = held[p].order
  /\ step[p] = "markPaid" =>
       /\ pc[p] \in {"confirmPayment", "writeStatus", "markMatched"}
       /\ ctx[p].then = "markMatched" /\ ctx[p].payment = held[p].payment
       /\ pc[p] # "confirmPayment" => Confirmed(held[p].payment)

YapeTypes ==
  /\ notif \in [Notes -> NoteRow] /\ reference \in [PaymentIds -> Reference]
  /\ step \in [Procs -> Steps] /\ held \in [Procs -> Held]

Working == Requests /\ YapeTypes /\ Unborn /\ \A p \in Procs : Works(p)

\* What every step does to the payments: no row disappears, changes its order
\* or loses its confirmation.
RowsStay ==
  /\ Unborn'
  /\ \A q \in PaymentIds :
       /\ payments[q].status # "none" =>
            payments'[q].status # "none" /\ payments'[q].order = payments[q].order
       /\ payments[q].status = "confirmed" => payments'[q].status = "confirmed"

\* The steps of OrderPayments do so.
LEMMA OrderRowsStay ==
  ASSUME Requests, Unborn, [Next]_vars
  PROVE  RowsStay
<1>types. payments \in [PaymentIds -> Payment] /\ NoOrder \notin OrderIds
  BY ConstantsAssumption DEF Requests, TypeOK
<1>1. CASE payments' = payments
  BY <1>1 DEF RowsStay, Unborn
<1>2. ASSUME NEW p \in Procs, CreatePayment(p)
      PROVE  RowsStay
  <2>1. PICK r \in PaymentIds :
          /\ IsNextId(r)
          /\ payments' = [payments EXCEPT ![r] =
                [status |-> "pending", order |-> ctx[p].order, amount |-> ctx[p].amount]]
    BY <1>2 DEF CreatePayment
  <2>2. payments[r].status = "none" /\ payments'[r].status = "pending"
        /\ \A q \in PaymentIds \ {r} : payments'[q] = payments[q]
    BY <2>1, <1>types DEF IsNextId
  <2>. QED BY <2>2 DEF RowsStay, Unborn
<1>3. ASSUME NEW p \in Procs, ConfirmPayment(p)
      PROVE  RowsStay
  <2>. DEFINE r == ctx[p].payment
  <2>1. r \in PaymentIds /\ payments[r].status # "none"
        /\ payments' = [payments EXCEPT ![r].status = "confirmed"]
    BY <1>3 DEF ConfirmPayment, Requests, ConfirmReady
  <2>2. payments'[r].status = "confirmed" /\ payments'[r].order = payments[r].order
        /\ \A q \in PaymentIds \ {r} : payments'[q] = payments[q]
    BY <2>1, <1>types DEF Payment
  <2>. QED BY <2>1, <2>2 DEF RowsStay, Unborn
<1>4. ASSUME NEW o \in OrderIds, ExpirePending(o)
      PROVE  RowsStay
  <2>1. \A q \in PaymentIds :
          /\ payments'[q].order = payments[q].order
          /\ payments[q].status # "pending" => payments'[q] = payments[q]
          /\ payments[q].status = "pending" => payments'[q].status \in {"pending", "expired"}
    BY <1>4, <1>types DEF ExpirePending, PaymentsOf, Payment
  <2>. QED BY <2>1 DEF RowsStay, Unborn
<1>. QED BY <1>1, <1>2, <1>3, <1>4, PaymentSteps

\* A Yape request that the step leaves alone still knows what it knew.
LEMMA OthersWork ==
  ASSUME Working, RowsStay, NEW r \in Procs, step'[r] = step[r], held'[r] = held[r],
         pc'[r] = pc[r], ctx'[r] = ctx[r]
  PROVE  Works(r)'
<1>1. Works(r) /\ held[r] \in Held /\ NoOrder \notin OrderIds
  BY ConstantsAssumption DEF Working, YapeTypes
<1>2. held[r].payment # NoPayment => held[r].payment \in PaymentIds
  BY <1>1 DEF Held
<1>3. step[r] = "upsert" /\ held[r].payment # NoPayment => payments[held[r].payment].status # "none"
  BY <1>1, <1>2 DEF Works, Working, Unborn
<1>4. \A q : Confirmed(q) => Confirmed(q)' /\ payments'[q].order = payments[q].order
  BY DEF Confirmed, RowsStay
<1>. QED BY <1>1, <1>2, <1>3, <1>4 DEF Works, RowsStay

\* A step of Yape request p, which goes to l with h in its hands.
LEMMA RequestWorks ==
  ASSUME Working, NEW p \in Procs, NEW l \in Steps, NEW h \in Held,
         step' = [step EXCEPT ![p] = l], held' = [held EXCEPT ![p] = h],
         notif' \in [Notes -> NoteRow], reference' \in [PaymentIds -> Reference],
         Requests', RowsStay, \A r \in Procs \ {p} : pc'[r] = pc[r] /\ ctx'[r] = ctx[r],
         step'[p] = l /\ held'[p] = h => Works(p)'
  PROVE  Working'
<1>types. step \in [Procs -> Steps] /\ held \in [Procs -> Held]
  BY DEF Working, YapeTypes
<1>1. /\ step' \in [Procs -> Steps] /\ held' \in [Procs -> Held] /\ step'[p] = l /\ held'[p] = h
      /\ \A r \in Procs \ {p} : step'[r] = step[r] /\ held'[r] = held[r]
  BY <1>types
<1>2. \A r \in Procs : Works(r)'
  BY <1>1, OthersWork
<1>. QED BY <1>1, <1>2 DEF Working, YapeTypes, RowsStay

LEMMA SameTables ==
  ASSUME Working, UNCHANGED vars
  PROVE  Requests' /\ RowsStay
<1>1. [Next]_vars
  OBVIOUS
<1>. QED BY <1>1, NextRequests, OrderRowsStay DEF Working

\* A request that is through holds nothing.
LEMMA FinishWorks ==
  ASSUME Working, NEW p \in Procs, Finish(p), Requests', RowsStay,
         notif' \in [Notes -> NoteRow], reference' \in [PaymentIds -> Reference],
         \A r \in Procs \ {p} : pc'[r] = pc[r] /\ ctx'[r] = ctx[r]
  PROVE  Working'
<1>1. NoHeld \in Held /\ "idle" \in Steps
  BY DEF NoHeld, Held, Steps
<1>2. step' = [step EXCEPT ![p] = "idle"] /\ held' = [held EXCEPT ![p] = NoHeld]
  BY DEF Finish, Goto
<1>3. step'[p] = "idle" => Works(p)'
  BY DEF Works
<1>. QED BY <1>1, <1>2, <1>3, RequestWorks

\* The columns of a notification.
LEMMA NoteWritten ==
  ASSUME notif \in [Notes -> NoteRow], NEW n \in Notes,
         NEW st \in {"pending", "unmatched", "dismissed"} \cup Resolved,
         NEW q \in PaymentIds \cup {NoPayment}, NEW t \in {"payments", "subscription_payments"}
  PROVE  /\ [notif EXCEPT ![n].status = st] \in [Notes -> NoteRow]
         /\ Use(n, st, q, t) =>
              /\ notif' \in [Notes -> NoteRow]
              /\ notif'[n].status = st /\ notif'[n].payment = q /\ notif'[n].table = t
              /\ \A m \in Notes \ {n} : notif'[m] = notif[m]
<1>. DEFINE row == [notif[n] EXCEPT !.status = st, !.payment = q, !.table = t]
<1>1. [notif EXCEPT ![n].status = st] \in [Notes -> NoteRow]
  BY DEF NoteRow
<1>2. row \in NoteRow /\ row.status = st /\ row.payment = q /\ row.table = t
  BY DEF NoteRow
<1>3. Use(n, st, q, t) => notif' = [notif EXCEPT ![n] = row]
  BY DEF Use
<1>. HIDE DEF row
<1>. QED BY <1>1, <1>2, <1>3

\* syncYapeNotification, up to markPaid.
LEMMA SyncWorks ==
  ASSUME Working, NEW p \in Procs,
         \/ \E n \in Notes : \E a \in Amounts : BeginSync(p, n, a)
         \/ CreateNote(p) \/ FindCandidates(p) \/ MarkUnmatched(p) \/ MatchSubscription(p)
  PROVE  Working'
<1>types. /\ notif \in [Notes -> NoteRow] /\ reference \in [PaymentIds -> Reference]
          /\ held \in [Procs -> Held] /\ held[p] \in Held
  BY DEF Working, YapeTypes
<1>same. Requests' /\ RowsStay /\ UNCHANGED <<pc, ctx, payments, reference>>
  <2>1. UNCHANGED vars /\ UNCHANGED reference
    BY DEF BeginSync, CreateNote, FindCandidates, MarkUnmatched, MatchSubscription
  <2>. QED BY <2>1, SameTables DEF vars
<1>works. Works(p)
  BY DEF Working
<1>1. ASSUME NEW n \in Notes, NEW a \in Amounts, BeginSync(p, n, a)
      PROVE  Working'
  <2>. DEFINE h == [NoHeld EXCEPT !.note = n, !.amount = a]
  <2>1. step' = [step EXCEPT ![p] = "create"] /\ held' = [held EXCEPT ![p] = h] /\ notif' = notif
    BY <1>1 DEF BeginSync, Goto
  <2>2. h \in Held /\ h.note = n /\ "create" \in Steps
    BY DEF NoHeld, Held, Steps
  <2>. HIDE DEF h
  <2>3. step'[p] = "create" /\ held'[p] = h => Works(p)'
    BY <2>2 DEF Works
  <2>. QED BY <1>same, <1>types, <2>1, <2>2, <2>3, RequestWorks
<1>2. CASE CreateNote(p)
  <2>. DEFINE n == held[p].note
  <2>1. CASE notif[n].status = "none"
    <3>1. /\ step' = [step EXCEPT ![p] = "candidates"] /\ held' = held
          /\ notif' = [notif EXCEPT ![n] = NewRow(held[p].amount)]
      BY <1>2, <2>1 DEF CreateNote, Goto
    <3>2. n \in Notes
      BY <1>2, <1>works DEF CreateNote, Works
    <3>3. notif' \in [Notes -> NoteRow]
      BY <1>types, <3>1, <3>2 DEF NoteRow, NewRow, NoRow, Held
    <3>4. step'[p] = "candidates" /\ held'[p] = held[p] => Works(p)'
      BY <3>2 DEF Works
    <3>5. held' = [held EXCEPT ![p] = held[p]] /\ "candidates" \in Steps
      BY <1>types, <3>1 DEF Steps
    <3>. QED BY <1>same, <1>types, <3>1, <3>3, <3>4, <3>5, RequestWorks
  <2>2. CASE notif[n].status # "none"
    BY <1>2, <2>2, <1>same, <1>types, FinishWorks DEF CreateNote
  <2>. QED BY <2>1, <2>2
<1>3. CASE FindCandidates(p)
  <2>. DEFINE C == CandidatesFor(held[p].amount)
  <2>1. held[p].note \in Notes /\ notif' = notif
    BY <1>3, <1>works DEF FindCandidates, Works
  <2>2. CASE Finish(p)
    BY <1>same, <1>types, <2>1, <2>2, FinishWorks
  <2>3. ASSUME Goto(p, "markUnmatched"), held' = held
        PROVE  Working'
    <3>1. held' = [held EXCEPT ![p] = held[p]] /\ "markUnmatched" \in Steps
      BY <1>types, <2>3 DEF Steps
    <3>2. step'[p] = "markUnmatched" /\ held'[p] = held[p] => Works(p)'
      BY <2>1 DEF Works
    <3>. QED BY <1>same, <1>types, <2>1, <2>3, <3>1, <3>2, RequestWorks DEF Goto
  <2>4. ASSUME NEW q \in C, held' = [held EXCEPT ![p].payment = q], Goto(p, "callMarkPaid")
        PROVE  Working'
    <3>. DEFINE h == [held[p] EXCEPT !.payment = q]
    <3>1. q \in PaymentIds /\ payments[q].status = "pending"
      BY <2>4 DEF CandidatesFor
    <3>2. h \in Held /\ h.note = held[p].note /\ h.payment = q /\ "callMarkPaid" \in Steps
      BY <1>types, <3>1 DEF Held, Steps
    <3>3. held' = [held EXCEPT ![p] = h] /\ step' = [step EXCEPT ![p] = "callMarkPaid"]
      BY <1>types, <2>4 DEF Goto
    <3>. HIDE DEF h
    <3>4. step'[p] = "callMarkPaid" /\ held'[p] = h => Works(p)'
      BY <1>same, <2>1, <3>1, <3>2 DEF Works
    <3>. QED BY <1>same, <1>types, <2>1, <3>2, <3>3, <3>4, RequestWorks
  <2>. QED BY <1>3, <2>2, <2>3, <2>4 DEF FindCandidates
<1>4. CASE MarkUnmatched(p)
  <2>1. /\ held[p].note \in Notes /\ UNCHANGED held /\ step' = [step EXCEPT ![p] = "subscription"]
        /\ notif' = [notif EXCEPT ![held[p].note].status = "unmatched"]
    BY <1>4, <1>works DEF MarkUnmatched, Works, Goto
  <2>2. notif' \in [Notes -> NoteRow]
    BY <1>types, <2>1, NoteWritten
  <2>3. held' = [held EXCEPT ![p] = held[p]] /\ "subscription" \in Steps
    BY <1>types, <2>1 DEF Steps
  <2>4. step'[p] = "subscription" /\ held'[p] = held[p] => Works(p)'
    BY <2>1 DEF Works
  <2>. QED BY <1>same, <1>types, <2>1, <2>2, <2>3, <2>4, RequestWorks
<1>5. CASE MatchSubscription(p)
  <2>1. held[p].note \in Notes /\ Finish(p)
    BY <1>5, <1>works DEF MatchSubscription, Works
  <2>2. notif' \in [Notes -> NoteRow]
    <3>1. CASE UNCHANGED notif
      BY <1>types, <3>1
    <3>2. ASSUME NEW q \in PaymentIds \cup {NoPayment}, Use(held[p].note, "matched", q, "subscription_payments")
          PROVE  notif' \in [Notes -> NoteRow]
      BY <1>types, <2>1, <3>2, NoteWritten DEF Resolved
    <3>. QED BY <1>5, <3>1, <3>2 DEF MatchSubscription
  <2>. QED BY <1>same, <1>types, <2>1, <2>2, FinishWorks
<1>. QED BY <1>1, <1>2, <1>3, <1>4, <1>5

\* markPaid of a Yape request.
LEMMA PayingWorks ==
  ASSUME Working, NEW p \in Procs,
         CallMarkPaid(p) \/ RunMarkPaid(p) \/ MarkMatched(p) \/ YapeAbort(p)
  PROVE  Working' /\ RowsStay
<1>types. /\ notif \in [Notes -> NoteRow] /\ reference \in [PaymentIds -> Reference]
          /\ step \in [Procs -> Steps] /\ held \in [Procs -> Held] /\ held[p] \in Held
          /\ pc \in [Procs -> Labels] /\ ctx \in [Procs -> Context] /\ payments \in [PaymentIds -> Payment]
  BY DEF Working, YapeTypes, Requests, TypeOK
<1>works. Works(p) /\ Requests /\ Unborn
  BY DEF Working
<1>still. payments' = payments => RowsStay
  BY DEF Working, Unborn, RowsStay
<1>1. CASE CallMarkPaid(p)
  <2>. DEFINE o == payments[held[p].payment].order
              c == [NoContext EXCEPT !.order = o, !.target = "paid",
                                     !.payment = held[p].payment, !.then = "markMatched"]
  <2>1. /\ held[p].note \in Notes /\ held[p].payment \in PaymentIds
        /\ payments[held[p].payment].status # "none" /\ o \in OrderIds
    BY <1>1, <1>works DEF CallMarkPaid, Works, Requests, Owned
  <2>2. UNCHANGED <<tables, job, notif, reference>>
    BY <1>1 DEF CallMarkPaid
  <2>3. CASE Allowed(status[o], "paid")
    <3>1. /\ pc' = [pc EXCEPT ![p] = "confirmPayment"] /\ ctx' = [ctx EXCEPT ![p] = c]
          /\ step' = [step EXCEPT ![p] = "markPaid"] /\ held' = held
      BY <1>1, <2>3 DEF CallMarkPaid, Goto
    <3>2. /\ c \in Context /\ c.order = o /\ c.target \in Statuses
          /\ c.payment = held[p].payment /\ c.then = "markMatched"
      BY <2>1 DEF NoContext, Context, Statuses
    <3>. HIDE DEF c
    <3>3. Requests'
      BY <1>works, <2>1, <2>2, <3>1, <3>2, BeginKeepsRequests DEF Labels
    <3>4. pc'[p] = "confirmPayment" /\ ctx'[p] = c
          /\ \A r \in Procs \ {p} : pc'[r] = pc[r] /\ ctx'[r] = ctx[r]
      BY <1>types, <3>1
    <3>5. RowsStay /\ payments' = payments
      BY <1>still, <2>2 DEF tables
    <3>6. step'[p] = "markPaid" /\ held'[p] = held[p] => Works(p)'
      BY <2>1, <3>2, <3>4, <3>5 DEF Works
    <3>7. held' = [held EXCEPT ![p] = held[p]] /\ "markPaid" \in Steps
      BY <1>types, <3>1 DEF Steps
    <3>. QED BY <1>types, <2>2, <3>1, <3>3, <3>4, <3>5, <3>6, <3>7, RequestWorks
  <2>4. CASE ~Allowed(status[o], "paid")
    <3>1. Finish(p) /\ UNCHANGED vars
      BY <1>1, <2>4, <2>2 DEF CallMarkPaid, vars, tables
    <3>. QED BY <1>types, <2>2, <3>1, SameTables, FinishWorks DEF vars
  <2>. QED BY <2>3, <2>4
<1>2. CASE RunMarkPaid(p)
  <2>1. step[p] = "markPaid" /\ UNCHANGED <<notif, step, held>> /\ (ConfirmPayment(p) \/ WriteStatus(p))
    BY <1>2 DEF RunMarkPaid
  <2>2. [Next]_vars
    BY <2>1 DEF Next, Handler
  <2>3. Requests' /\ RowsStay
    BY <1>works, <2>2, NextRequests, OrderRowsStay
  <2>4. /\ held[p].note \in Notes /\ held[p].payment \in PaymentIds /\ held[p].payment = ctx[p].payment
        /\ payments[held[p].payment].status # "none" /\ ctx[p].then = "markMatched"
        /\ pc[p] # "confirmPayment" => Confirmed(held[p].payment)
    BY <1>works, <2>1 DEF Works
  <2>5. /\ pc'[p] \in {"writeStatus", "markMatched"} /\ ctx'[p] = ctx[p] /\ Confirmed(held[p].payment)'
        /\ \A r \in Procs \ {p} : pc'[r] = pc[r] /\ ctx'[r] = ctx[r]
    <3>1. CASE ConfirmPayment(p)
      <4>1. payments' = [payments EXCEPT ![held[p].payment].status = "confirmed"]
            /\ pc' = [pc EXCEPT ![p] = "writeStatus"] /\ ctx' = ctx /\ held' = held
        BY <2>1, <2>4, <3>1 DEF ConfirmPayment
      <4>2. payments'[held[p].payment].status = "confirmed"
        BY <1>types, <2>4, <4>1 DEF Payment
      <4>. QED BY <1>types, <2>4, <4>1, <4>2 DEF Confirmed
    <3>2. CASE WriteStatus(p)
      <4>1. pc[p] = "writeStatus" /\ payments' = payments /\ held' = held
            /\ pc' = [pc EXCEPT ![p] = "markMatched"] /\ ctx' = [ctx EXCEPT ![p] = ctx[p]]
        BY <2>1, <2>4, <3>2 DEF WriteStatus
      <4>. QED BY <1>types, <2>4, <4>1 DEF Confirmed
    <3>. QED BY <2>1, <3>1, <3>2
  <2>6. reference' \in [PaymentIds -> Reference]
    <3>1. [note |-> held[p].note, by |-> "sync"] \in Reference
      BY <2>4 DEF Reference
    <3>. QED BY <1>2, <1>types, <2>4, <3>1 DEF RunMarkPaid
  <2>7. Works(p)'
    BY <2>1, <2>3, <2>4, <2>5 DEF Works, RowsStay
  <2>8. step' = [step EXCEPT ![p] = "markPaid"] /\ held' = [held EXCEPT ![p] = held[p]]
        /\ "markPaid" \in Steps
    BY <1>types, <2>1
  <2>9. notif' \in [Notes -> NoteRow] /\ \A r \in Procs \ {p} : pc'[r] = pc[r] /\ ctx'[r] = ctx[r]
    BY <1>types, <2>1, <2>5
  <2>10. Working'
    BY <1>types, <2>3, <2>6, <2>7, <2>8, <2>9, RequestWorks
  <2>. QED BY <2>3, <2>10
<1>3. CASE MarkMatched(p) \/ YapeAbort(p)
  <2>1. Return(p) /\ Finish(p) /\ UNCHANGED <<tables, job, reference>>
    BY <1>3 DEF MarkMatched, YapeAbort
  <2>2. Requests' /\ RowsStay
    BY <1>works, <1>still, <2>1, ReturnKeepsRequests DEF tables
  <2>3. \A r \in Procs \ {p} : pc'[r] = pc[r] /\ ctx'[r] = ctx[r]
    BY <1>types, <2>1 DEF Return
  <2>4. notif' \in [Notes -> NoteRow]
    <3>1. CASE MarkMatched(p)
      <4>1. held[p].note \in Notes /\ held[p].payment \in PaymentIds
            /\ Use(held[p].note, "matched", held[p].payment, "payments")
        BY <3>1, <1>works DEF MarkMatched, Works
      <4>. QED BY <1>types, <4>1, NoteWritten DEF Resolved
    <3>2. CASE YapeAbort(p)
      BY <1>types, <3>2 DEF YapeAbort
    <3>. QED BY <1>3, <3>1, <3>2
  <2>. QED BY <1>types, <2>1, <2>2, <2>3, <2>4, FinishWorks
<1>. QED BY <1>1, <1>2, <1>3

\* Statements on the payments that leave the requests alone.
LEMMA RowsKeepRequests ==
  ASSUME Requests, RowsStay, UNCHANGED <<refunds, job, pc, ctx>>, TypeOK', Owned'
  PROVE  Requests'
<1>1. \A q, o : q \in PaymentsOf(o, "confirmed") => q \in PaymentsOf(o, "confirmed")'
  BY DEF PaymentsOf, RowsStay
<1>2. Holding' /\ AttemptLeft'
  BY DEF Requests, Holding, AttemptLeft
<1>3. RefundReady'
  BY <1>1 DEF Requests, RefundReady
<1>4. RefundBacked' /\ ConfirmReady'
  BY DEF Requests, RefundBacked, ConfirmReady, RowsStay
<1>. QED BY <1>2, <1>3, <1>4 DEF Requests

\* One row is confirmed, an existing one or the next.
LEMMA UpsertRow ==
  ASSUME Working, NEW q \in PaymentIds, NEW row \in Payment, row.status = "confirmed",
         row.order \in OrderIds, payments' = [payments EXCEPT ![q] = row],
         payments[q].status # "none" => row.order = payments[q].order
  PROVE  /\ RowsStay /\ Owned' /\ payments' \in [PaymentIds -> Payment]
         /\ Confirmed(q)' /\ payments'[q].order = row.order
<1>1. /\ payments \in [PaymentIds -> Payment] /\ Unborn /\ Owned
      /\ payments'[q] = row /\ \A r \in PaymentIds \ {q} : payments'[r] = payments[r]
  BY DEF Working, Requests, TypeOK
<1>2. payments' \in [PaymentIds -> Payment]
  BY <1>1
<1>3. RowsStay
  BY <1>1 DEF RowsStay, Unborn
<1>4. Owned'
  BY <1>1 DEF Owned
<1>. QED BY <1>1, <1>2, <1>3, <1>4 DEF Confirmed

\* confirmYapePayment.
LEMMA AgentWorks ==
  ASSUME Working, NEW p \in Procs,
         \/ \E n \in Notes : \E o \in OrderIds : AgentBegin(p, n, o)
         \/ AgentReadOrder(p) \/ AgentFindPayment(p) \/ AgentUpsert(p)
         \/ AgentPayOrder(p) \/ AgentCloseNote(p)
  PROVE  Working' /\ RowsStay
<1>types. /\ notif \in [Notes -> NoteRow] /\ reference \in [PaymentIds -> Reference]
          /\ held \in [Procs -> Held] /\ held[p] \in Held
          /\ payments \in [PaymentIds -> Payment]
  BY DEF Working, YapeTypes, Requests, TypeOK
<1>works. Works(p) /\ Requests
  BY DEF Working
<1>order. NoOrder \notin OrderIds
  BY ConstantsAssumption
<1>1. ASSUME NEW n \in Notes, NEW o \in OrderIds, AgentBegin(p, n, o)
      PROVE  Working' /\ RowsStay
  <2>. DEFINE h == [NoHeld EXCEPT !.note = n, !.amount = notif[n].amount, !.order = o]
  <2>1. step' = [step EXCEPT ![p] = "readOrder"] /\ held' = [held EXCEPT ![p] = h]
        /\ UNCHANGED <<vars, notif, reference>>
    BY <1>1 DEF AgentBegin, Goto
  <2>2. /\ h \in Held /\ h.note = n /\ h.order = o /\ h.payment = NoPayment
        /\ "readOrder" \in Steps
    BY <1>types DEF NoHeld, Held, Steps, NoteRow
  <2>. HIDE DEF h
  <2>3. step'[p] = "readOrder" /\ held'[p] = h => Works(p)'
    BY <2>2 DEF Works
  <2>4. Requests' /\ RowsStay /\ UNCHANGED <<pc, ctx>>
    BY <2>1, SameTables DEF vars
  <2>. QED BY <1>types, <2>1, <2>2, <2>3, <2>4, RequestWorks
<1>2. CASE AgentReadOrder(p)
  <2>1. UNCHANGED <<vars, notif, reference>> /\ step[p] = "readOrder"
    BY <1>2 DEF AgentReadOrder
  <2>2. Requests' /\ RowsStay /\ UNCHANGED <<pc, ctx>>
    BY <2>1, SameTables DEF vars
  <2>3. CASE Finish(p)
    BY <1>types, <2>1, <2>2, <2>3, FinishWorks
  <2>4. CASE Goto(p, "findPayment") /\ UNCHANGED held
    <3>1. step'[p] = "findPayment" /\ held'[p] = held[p] => Works(p)'
      BY <1>works, <2>1 DEF Works
    <3>2. held' = [held EXCEPT ![p] = held[p]] /\ "findPayment" \in Steps
          /\ step' = [step EXCEPT ![p] = "findPayment"]
      BY <1>types, <2>4 DEF Steps, Goto
    <3>. QED BY <1>types, <2>1, <2>2, <3>1, <3>2, RequestWorks
  <2>. QED BY <1>2, <2>3, <2>4 DEF AgentReadOrder
<1>3. CASE AgentFindPayment(p)
  <2>1. UNCHANGED <<vars, notif, reference>> /\ step[p] = "findPayment"
        /\ step' = [step EXCEPT ![p] = "upsert"] /\ "upsert" \in Steps
    BY <1>3 DEF AgentFindPayment, Goto, Steps
  <2>2. Requests' /\ RowsStay /\ UNCHANGED <<pc, ctx, payments>>
    BY <2>1, SameTables DEF vars
  <2>3. held[p].note \in Notes /\ held[p].order \in OrderIds /\ held[p].payment = NoPayment
    BY <1>works, <2>1 DEF Works
  <2>4. CASE UNCHANGED held
    <3>1. step'[p] = "upsert" /\ held'[p] = held[p] => Works(p)'
      BY <2>3 DEF Works
    <3>2. held' = [held EXCEPT ![p] = held[p]]
      BY <1>types, <2>4
    <3>. QED BY <1>types, <2>1, <2>2, <3>1, <3>2, RequestWorks
  <2>5. ASSUME NEW q \in PaymentIds, payments[q].order = held[p].order,
               held' = [held EXCEPT ![p].payment = q]
        PROVE  Working' /\ RowsStay
    <3>. DEFINE h == [held[p] EXCEPT !.payment = q]
    <3>1. h \in Held /\ h.note = held[p].note /\ h.order = held[p].order /\ h.payment = q
          /\ held' = [held EXCEPT ![p] = h]
      BY <1>types, <2>5 DEF Held
    <3>. HIDE DEF h
    <3>2. step'[p] = "upsert" /\ held'[p] = h => Works(p)'
      BY <2>2, <2>3, <2>5, <3>1 DEF Works
    <3>. QED BY <1>types, <2>1, <2>2, <3>1, <3>2, RequestWorks
  <2>. QED BY <1>3, <2>4, <2>5 DEF AgentFindPayment
<1>4. CASE AgentUpsert(p)
  <2>. DEFINE new == held[p].payment = NoPayment
              row(q) == IF new THEN [status |-> "confirmed", order |-> held[p].order, amount |-> held[p].amount]
                               ELSE [payments[q] EXCEPT !.status = "confirmed"]
  <2>1. PICK q \in PaymentIds :
          /\ IF new THEN IsNextId(q) ELSE q = held[p].payment
          /\ payments' = [payments EXCEPT ![q] = row(q)]
          /\ reference' = [reference EXCEPT ![q] = [note |-> held[p].note, by |-> "agent"]]
          /\ held' = [held EXCEPT ![p].payment = q]
    BY <1>4 DEF AgentUpsert
  <2>2. /\ step[p] = "upsert" /\ step' = [step EXCEPT ![p] = "payOrder"] /\ "payOrder" \in Steps
        /\ UNCHANGED <<status, total, refunds, byHand, job, pc, ctx, notif>>
    BY <1>4 DEF AgentUpsert, Goto, Steps
  <2>3. held[p].note \in Notes /\ held[p].order \in OrderIds
        /\ (~new => payments[q].order = held[p].order)
    BY <1>works, <2>1, <2>2 DEF Works
  <2>4. /\ row(q) \in Payment /\ row(q).status = "confirmed" /\ row(q).order = held[p].order
        /\ payments[q].status # "none" => row(q).order = payments[q].order
    <3>1. CASE new
      BY <1>types, <2>1, <2>3, <3>1 DEF Payment, PaymentStatuses, Held, IsNextId
    <3>2. CASE ~new
      BY <1>types, <2>1, <2>3, <3>2 DEF Payment, PaymentStatuses
    <3>. QED BY <3>1, <3>2
  <2>. HIDE DEF row, new
  <2>5. /\ RowsStay /\ Owned' /\ payments' \in [PaymentIds -> Payment] /\ Confirmed(q)'
        /\ payments'[q].order = held[p].order
    BY <2>1, <2>3, <2>4, UpsertRow
  <2>6. Requests'
    <3>1. TypeOK'
      BY <1>works, <2>2, <2>5 DEF Requests, TypeOK
    <3>. QED BY <1>works, <2>2, <2>5, <3>1, RowsKeepRequests
  <2>7. reference' \in [PaymentIds -> Reference]
    <3>1. [note |-> held[p].note, by |-> "agent"] \in Reference
      BY <2>3 DEF Reference
    <3>. QED BY <1>types, <2>1, <3>1
  <2>. DEFINE h == [held[p] EXCEPT !.payment = q]
  <2>8. h \in Held /\ h.note = held[p].note /\ h.order = held[p].order /\ h.payment = q
        /\ held' = [held EXCEPT ![p] = h]
    BY <1>types, <2>1 DEF Held
  <2>. HIDE DEF h
  <2>9. step'[p] = "payOrder" /\ held'[p] = h => Works(p)'
    BY <2>3, <2>5, <2>8 DEF Works
  <2>. QED BY <1>types, <2>2, <2>5, <2>6, <2>7, <2>8, <2>9, RequestWorks
<1>5. CASE AgentPayOrder(p)
  <2>1. /\ step[p] = "payOrder" /\ step' = [step EXCEPT ![p] = "closeNote"] /\ "closeNote" \in Steps
        /\ status' = [status EXCEPT ![held[p].order] = "paid"]
        /\ UNCHANGED <<total, payments, refunds, byHand, job, pc, ctx, notif, reference, held>>
    BY <1>5 DEF AgentPayOrder, Goto, Steps
  <2>2. RowsStay /\ Owned'
    BY <2>1 DEF Working, Unborn, RowsStay, Requests, Owned
  <2>3. TypeOK'
    BY <1>works, <2>1 DEF Requests, TypeOK, Statuses
  <2>4. Requests'
    BY <1>works, <2>1, <2>2, <2>3, RowsKeepRequests
  <2>5. step'[p] = "closeNote" /\ held'[p] = held[p] => Works(p)'
    BY <1>works, <2>1 DEF Works, Confirmed
  <2>6. held' = [held EXCEPT ![p] = held[p]]
    BY <1>types, <2>1
  <2>. QED BY <1>types, <2>1, <2>2, <2>4, <2>5, <2>6, RequestWorks
<1>6. CASE AgentCloseNote(p)
  <2>1. /\ held[p].note \in Notes /\ held[p].payment \in PaymentIds /\ Finish(p)
        /\ Use(held[p].note, "MATCHED", held[p].payment, "payments") /\ UNCHANGED <<vars, reference>>
    BY <1>6, <1>works DEF AgentCloseNote, Works, Confirmed
  <2>2. notif' \in [Notes -> NoteRow]
    BY <1>types, <2>1, NoteWritten DEF Resolved
  <2>3. Requests' /\ RowsStay /\ UNCHANGED <<pc, ctx>>
    BY <2>1, SameTables DEF vars
  <2>. QED BY <1>types, <2>1, <2>2, <2>3, FinishWorks
<1>. QED BY <1>1, <1>2, <1>3, <1>4, <1>5, <1>6

\* The admin's dismissal and match.
LEMMA AdminWorks ==
  ASSUME Working,
         \/ \E p \in Procs : Dismiss(p) \/ \E n \in Notes : BeginDismiss(p, n)
         \/ \E n \in Notes, q \in PaymentIds : AdminMatch(n, q)
  PROVE  Working' /\ RowsStay
<1>types. /\ notif \in [Notes -> NoteRow] /\ reference \in [PaymentIds -> Reference]
          /\ step \in [Procs -> Steps] /\ held \in [Procs -> Held] /\ payments \in [PaymentIds -> Payment]
  BY DEF Working, YapeTypes, Requests, TypeOK
<1>1. ASSUME NEW p \in Procs, NEW n \in Notes, BeginDismiss(p, n)
      PROVE  Working' /\ RowsStay
  <2>. DEFINE h == [NoHeld EXCEPT !.note = n]
  <2>1. step' = [step EXCEPT ![p] = "dismiss"] /\ held' = [held EXCEPT ![p] = h]
        /\ UNCHANGED <<vars, notif, reference>>
    BY <1>1 DEF BeginDismiss, Goto
  <2>2. h \in Held /\ h.note = n /\ "dismiss" \in Steps
    BY DEF NoHeld, Held, Steps
  <2>. HIDE DEF h
  <2>3. step'[p] = "dismiss" /\ held'[p] = h => Works(p)'
    BY <2>2 DEF Works
  <2>4. Requests' /\ RowsStay /\ UNCHANGED <<pc, ctx>>
    BY <2>1, SameTables DEF vars
  <2>. QED BY <1>types, <2>1, <2>2, <2>3, <2>4, RequestWorks
<1>2. ASSUME NEW p \in Procs, Dismiss(p)
      PROVE  Working' /\ RowsStay
  <2>1. /\ held[p].note \in Notes /\ Finish(p)
        /\ notif' = [notif EXCEPT ![held[p].note].status = "dismissed"] /\ UNCHANGED <<vars, reference>>
    BY <1>2 DEF Dismiss, Working, Works
  <2>2. notif' \in [Notes -> NoteRow]
    BY <1>types, <2>1, NoteWritten
  <2>3. Requests' /\ RowsStay /\ UNCHANGED <<pc, ctx>>
    BY <2>1, SameTables DEF vars
  <2>. QED BY <1>types, <2>1, <2>2, <2>3, FinishWorks
<1>3. ASSUME NEW n \in Notes, NEW q \in PaymentIds, AdminMatch(n, q)
      PROVE  Working' /\ RowsStay
  <2>. DEFINE row == [payments[q] EXCEPT !.status = "confirmed"]
  <2>1. /\ payments[q].status = "pending"
        /\ Use(n, "confirmed", q, "payments")
        /\ payments' = [payments EXCEPT ![q].status = "confirmed"]
        /\ status' = [status EXCEPT ![payments[q].order] = "paid"]
        /\ UNCHANGED <<total, refunds, byHand, job, pc, ctx, reference, step, held>>
    BY <1>3 DEF AdminMatch
  <2>2. payments[q].order \in OrderIds
    BY <2>1 DEF Working, Requests, Owned
  <2>3. row \in Payment /\ row.status = "confirmed" /\ row.order = payments[q].order
        /\ payments' = [payments EXCEPT ![q] = row]
    BY <1>types, <2>1 DEF Payment, PaymentStatuses
  <2>. HIDE DEF row
  <2>4. RowsStay /\ Owned' /\ payments' \in [PaymentIds -> Payment]
    BY <2>2, <2>3, UpsertRow
  <2>5. Requests'
    <3>1. TypeOK'
      BY <2>1, <2>2, <2>4 DEF Working, Requests, TypeOK, Statuses
    <3>. QED BY <2>1, <2>4, <3>1, RowsKeepRequests DEF Working
  <2>6. notif' \in [Notes -> NoteRow]
    BY <1>types, <2>1, NoteWritten DEF Resolved
  <2>7. \A r \in Procs : Works(r)'
    BY <2>1, <2>4, OthersWork
  <2>. QED BY <1>types, <2>1, <2>4, <2>5, <2>6, <2>7 DEF Working, YapeTypes, RowsStay
<1>. QED BY <1>1, <1>2, <1>3

\* An ordinary handler moves one request, which is none of the Yape ones.
LEMMA HandlerMovesOne ==
  ASSUME Requests, NEW p \in Procs, Handler(p), NEW r \in Procs \ {p}
  PROVE  pc'[r] = pc[r] /\ ctx'[r] = ctx[r]
BY DEF Requests, TypeOK, Handler, BeginSimple, Begin, BeginRequestPayment, BeginRefund, BeginMarkPaid,
       FindPending, CreatePayment, ConfirmPayment, FindConfirmed, CreateRefund, WriteStatus, Abort, Return

LEMMA OrderWorks ==
  ASSUME Working, OrderStep
  PROVE  Working' /\ RowsStay
<1>1. [Next]_vars /\ UNCHANGED yapeVars
  BY DEF OrderStep, Next
<1>2. Requests' /\ RowsStay
  BY <1>1, NextRequests, OrderRowsStay DEF Working
<1>3. \A r \in Procs : step[r] = "idle" \/ (pc'[r] = pc[r] /\ ctx'[r] = ctx[r])
  <2>1. CASE \E p \in Procs : step[p] = "idle" /\ Handler(p)
    BY <2>1, HandlerMovesOne DEF Working
  <2>2. CASE \E o \in OrderIds : OneStatement(o) \/ ExpirationJob(o)
    BY <2>2 DEF OneStatement, CreateOrder, ModifyOrder, UpdateStatus, AdminExpire, Scan, ExpirationJob,
       StartJob, JobCancel, JobRestock, JobExpirePayments, JobNotify, JobFails
  <2>. QED BY <2>1, <2>2 DEF OrderStep
<1>4. ASSUME NEW r \in Procs
      PROVE  Works(r)'
  <2>1. CASE step[r] = "idle"
    BY <1>1, <2>1 DEF yapeVars, Works
  <2>2. CASE step[r] # "idle"
    BY <1>1, <1>2, <1>3, <2>2, OthersWork DEF yapeVars
  <2>. QED BY <2>1, <2>2
<1>. QED BY <1>1, <1>2, <1>4 DEF Working, YapeTypes, yapeVars, RowsStay

LEMMA InitWorking == YapeInit => Working
<1>. SUFFICES ASSUME YapeInit PROVE Working
  OBVIOUS
<1>1. Requests
  BY InitRequests DEF YapeInit
<1>2. YapeTypes
  <2>1. /\ NoRow \in NoteRow
        /\ [note |-> NoNote, by |-> "nobody"] \in Reference /\ NoHeld \in Held /\ "idle" \in Steps
    BY DEF NoteRow, NoRow, Reference, NoHeld, Held, Steps
  <2>. QED BY <2>1 DEF YapeInit, YapeTypes
<1>3. Unborn /\ \A p \in Procs : Works(p)
  BY DEF YapeInit, Init, Unborn, Works
<1>. QED BY <1>1, <1>2, <1>3 DEF Working

LEMMA StepWorks == Working /\ [YapeNext]_allVars => Working' /\ RowsStay
<1>. SUFFICES ASSUME Working, [YapeNext]_allVars PROVE Working' /\ RowsStay
  OBVIOUS
<1>1. CASE UNCHANGED allVars
  <2>1. UNCHANGED vars /\ UNCHANGED yapeVars
    BY <1>1 DEF allVars
  <2>2. Requests' /\ RowsStay
    BY <2>1, SameTables
  <2>3. \A r \in Procs : Works(r)'
    BY <2>1, <2>2, OthersWork DEF vars, yapeVars
  <2>. QED BY <2>1, <2>2, <2>3 DEF Working, YapeTypes, yapeVars, RowsStay
<1>2. ASSUME NEW p \in Procs, YapeHandler(p)
      PROVE  Working' /\ RowsStay
  <2>1. ASSUME \/ \E n \in Notes : \E a \in Amounts : BeginSync(p, n, a)
               \/ CreateNote(p) \/ FindCandidates(p) \/ MarkUnmatched(p) \/ MatchSubscription(p)
        PROVE  Working' /\ RowsStay
    <3>1. UNCHANGED vars
      BY <2>1 DEF BeginSync, CreateNote, FindCandidates, MarkUnmatched, MatchSubscription
    <3>. QED BY <2>1, <3>1, SameTables, SyncWorks
  <2>. QED BY <1>2, <2>1, PayingWorks, AgentWorks, AdminWorks DEF YapeHandler
<1>. QED BY <1>1, <1>2, OrderWorks, AdminWorks DEF YapeNext

LEMMA WorkingInvariant == YapeSpec => []Working
BY InitWorking, StepWorks, PTL DEF YapeSpec

\* Every variable keeps its type under the writers of notifications too.
THEOREM YapeTypesHold == YapeSpec => []YapeTypeOK
<1>1. Working => YapeTypeOK
  BY DEF Working, Requests, YapeTypes, YapeTypeOK
<1>. QED BY <1>1, WorkingInvariant, PTL

\* No writer of a notification takes the confirmation of a payment back, nor
\* does any handler, job or route beside them.
THEOREM YapeConfirmationIsFinal == YapeSpec => ConfirmedStays
<1>1. Working /\ [YapeNext]_allVars =>
         [\A q \in PaymentIds :
            payments[q].status = "confirmed" => payments'[q].status = "confirmed"]_vars
  BY StepWorks DEF RowsStay
<1>. QED BY <1>1, WorkingInvariant, PTL DEF YapeSpec, ConfirmedStays

-----------------------------------------------------------------------------
(* Used notifications and paid orders *)

ForAnOrder(row) == row.status \in Resolved /\ row.table = "payments"
Used == \A n \in Notes : ForAnOrder(notif[n]) => Confirmed(notif[n].payment)

LEMMA StepKeepsUsed ==
  ASSUME Working, Used, [YapeNext]_allVars
  PROVE  Used'
<1>types. notif \in [Notes -> NoteRow]
  BY DEF Working, YapeTypes
<1>. DEFINE Paid(q) == q \in PaymentIds /\ payments'[q].status = "confirmed"
<1>stays. \A q : Confirmed(q) => Paid(q)
  BY StepWorks DEF RowsStay, Confirmed
<1>paid. (\A n \in Notes : ForAnOrder(notif'[n]) => Paid(notif'[n].payment)) => Used'
  BY DEF Used, Confirmed
<1>. HIDE DEF Paid
<1>1. CASE notif' = notif
  BY <1>1, <1>stays, <1>paid DEF Used
<1>2. ASSUME NEW n \in Notes, \A m \in Notes \ {n} : notif'[m] = notif[m],
             ForAnOrder(notif'[n]) => Paid(notif'[n].payment)
      PROVE  Used'
  BY <1>2, <1>stays, <1>paid DEF Used
<1>3. ASSUME NEW p \in Procs, CreateNote(p)
      PROVE  Used'
  <2>1. CASE notif[held[p].note].status = "none"
    <3>1. held[p].note \in Notes
      BY <1>3 DEF CreateNote, Working, Works
    <3>2. notif'[held[p].note].status = "pending" /\ \A m \in Notes \ {held[p].note} : notif'[m] = notif[m]
      BY <1>3, <1>types, <2>1, <3>1 DEF CreateNote, NewRow, NoRow
    <3>. QED BY <1>2, <3>1, <3>2 DEF ForAnOrder, Resolved
  <2>. QED BY <1>1, <1>3, <2>1 DEF CreateNote
<1>4. ASSUME NEW n \in Notes, NEW st \in {"unmatched", "dismissed"}, notif' = [notif EXCEPT ![n].status = st]
      PROVE  Used'
  <2>. DEFINE row == [notif[n] EXCEPT !.status = st]
  <2>1. row.status = st /\ notif' = [notif EXCEPT ![n] = row]
    BY <1>4, <1>types DEF NoteRow
  <2>. HIDE DEF row
  <2>2. notif'[n] = row /\ \A m \in Notes \ {n} : notif'[m] = notif[m]
    BY <1>types, <2>1
  <2>. QED BY <1>2, <2>1, <2>2 DEF ForAnOrder, Resolved
<1>5. ASSUME NEW n \in Notes, NEW st \in Resolved, NEW q \in PaymentIds, Paid(q), Use(n, st, q, "payments")
      PROVE  Used'
  <2>1. notif'[n].payment = q /\ \A m \in Notes \ {n} : notif'[m] = notif[m]
    BY <1>5, <1>types, NoteWritten
  <2>. QED BY <1>2, <1>5, <2>1
<1>6. ASSUME NEW p \in Procs, MarkUnmatched(p) \/ Dismiss(p)
      PROVE  Used'
  <2>1. held[p].note \in Notes
    BY <1>6 DEF MarkUnmatched, Dismiss, Working, Works
  <2>. QED BY <1>4, <1>6, <2>1 DEF MarkUnmatched, Dismiss
<1>12. ASSUME NEW p \in Procs, MatchSubscription(p)
       PROVE  Used'
  <2>1. held[p].note \in Notes
    BY <1>12 DEF MatchSubscription, Working, Works
  <2>2. ASSUME NEW q \in PaymentIds \cup {NoPayment}, Use(held[p].note, "matched", q, "subscription_payments")
        PROVE  Used'
    <3>1. notif'[held[p].note].table = "subscription_payments"
          /\ \A m \in Notes \ {held[p].note} : notif'[m] = notif[m]
      BY <1>types, <2>1, <2>2, NoteWritten DEF Resolved
    <3>. QED BY <1>2, <2>1, <3>1 DEF ForAnOrder
  <2>. QED BY <1>1, <1>12, <2>2 DEF MatchSubscription
<1>7. ASSUME NEW p \in Procs, MarkMatched(p)
      PROVE  Used'
  <2>1. held[p].note \in Notes /\ Confirmed(held[p].payment)
    BY <1>7 DEF MarkMatched, Working, Works
  <2>2. held[p].payment \in PaymentIds /\ Paid(held[p].payment)
    BY <1>stays, <2>1 DEF Confirmed
  <2>. QED BY <1>5, <1>7, <2>1, <2>2 DEF MarkMatched, Resolved
<1>8. ASSUME NEW p \in Procs, AgentCloseNote(p)
      PROVE  Used'
  <2>1. held[p].note \in Notes /\ Confirmed(held[p].payment)
    BY <1>8 DEF AgentCloseNote, Working, Works
  <2>2. held[p].payment \in PaymentIds /\ Paid(held[p].payment)
    BY <1>stays, <2>1 DEF Confirmed
  <2>. QED BY <1>5, <1>8, <2>1, <2>2 DEF AgentCloseNote, Resolved
<1>9. ASSUME NEW n \in Notes, NEW q \in PaymentIds, AdminMatch(n, q)
      PROVE  Used'
  <2>1. Paid(q)
    BY <1>9 DEF AdminMatch, Paid, Working, Requests, TypeOK, Payment
  <2>. QED BY <1>5, <1>9, <2>1 DEF AdminMatch, Resolved
<1>10. CASE UNCHANGED allVars \/ OrderStep
  BY <1>1, <1>10 DEF allVars, yapeVars, OrderStep
<1>11. ASSUME NEW p \in Procs, YapeHandler(p)
       PROVE  Used'
  BY <1>1, <1>3, <1>6, <1>7, <1>8, <1>11, <1>12
     DEF YapeHandler, BeginSync, AgentBegin, BeginDismiss, FindCandidates, CallMarkPaid, RunMarkPaid,
         AgentReadOrder, AgentFindPayment, AgentUpsert, AgentPayOrder, YapeAbort
<1>. QED BY <1>9, <1>10, <1>11 DEF YapeNext

\* A notification that is marked as used for an order points at a confirmed
\* payment, whichever writer used it and whatever was interrupted, dismissed
\* or used for a subscription meanwhile, for every number of notifications,
\* payments and requests.  Of a notification that the subscription half
\* marked last nothing is claimed: its column may name any payment.
THEOREM UsedNotesAreConfirmed == YapeSpec => []UsedIsConfirmed
<1>1. YapeInit => Used
  BY DEF YapeInit, Used, ForAnOrder, NoRow, Resolved
<1>2. Working /\ Used /\ [YapeNext]_allVars => Used'
  BY StepKeepsUsed
<1>3. Used => UsedIsConfirmed
  BY DEF Used, ForAnOrder, UsedIsConfirmed, Confirmed
<1>. QED BY <1>1, <1>2, <1>3, WorkingInvariant, PTL DEF YapeSpec

\* The money of OrderPayments, with the Yape writers at work.
LEMMA YapeKeepsMoney ==
  ASSUME Working, Money, [YapeNext]_allVars
  PROVE  Money'
<1>stays. RowsStay
  BY StepWorks
<1>types. /\ status \in [OrderIds -> Statuses \cup {"absent"}] /\ pc \in [Procs -> Labels]
          /\ ctx \in [Procs -> Context] /\ payments \in [PaymentIds -> Payment]
  BY DEF Working, Requests, TypeOK
<1>1. CASE [Next]_vars
  BY <1>1, NextMoney DEF Working
<1>2. ASSUME byHand' = byHand,
             \A r \in Procs : pc'[r] \in {"findPending", "createPayment", "writeStatus"}
                               => pc'[r] = pc[r] /\ ctx'[r] = ctx[r],
             \A o \in OrderIds : status'[o] = status[o] \/ Backed(o)'
      PROVE  Money'
  <2>1. \A o : Entitled(o) => Entitled(o)'
    BY <1>2, <1>stays DEF Entitled, Backed, PaymentsOf, RowsStay
  <2>. QED BY <1>2, <2>1 DEF Money, PaidBacked, RequestTarget, WriteReady, Entitled
<1>3. ASSUME NEW p \in Procs, CallMarkPaid(p)
      PROVE  Money'
  <2>1. UNCHANGED tables
    BY <1>3 DEF CallMarkPaid
  <2>2. CASE UNCHANGED <<pc, ctx>>
    BY <1>2, <2>1, <2>2 DEF tables
  <2>3. CASE ~UNCHANGED <<pc, ctx>>
    <3>. DEFINE c == [NoContext EXCEPT !.order = payments[held[p].payment].order,
                        !.target = "paid", !.payment = held[p].payment, !.then = "markMatched"]
    <3>1. pc' = [pc EXCEPT ![p] = "confirmPayment"] /\ ctx' = [ctx EXCEPT ![p] = c]
      BY <1>3, <2>3 DEF CallMarkPaid
    <3>. HIDE DEF c
    <3>2. pc'[p] = "confirmPayment" /\ \A r \in Procs \ {p} : pc'[r] = pc[r] /\ ctx'[r] = ctx[r]
      BY <1>types, <3>1
    <3>. QED BY <1>2, <2>1, <3>2 DEF tables
  <2>. QED BY <2>2, <2>3
<1>4. ASSUME NEW p \in Procs, MarkMatched(p) \/ YapeAbort(p)
      PROVE  Money'
  <2>1. Return(p) /\ UNCHANGED tables
    BY <1>4 DEF MarkMatched, YapeAbort
  <2>2. pc'[p] = "idle" /\ \A r \in Procs \ {p} : pc'[r] = pc[r] /\ ctx'[r] = ctx[r]
    BY <1>types, <2>1 DEF Return
  <2>. QED BY <1>2, <2>1, <2>2 DEF tables
<1>5. ASSUME NEW p \in Procs, AgentUpsert(p)
      PROVE  Money'
  BY <1>2, <1>5 DEF AgentUpsert
<1>6. ASSUME NEW p \in Procs, AgentPayOrder(p)
      PROVE  Money'
  <2>1. Confirmed(held[p].payment) /\ payments[held[p].payment].order = held[p].order
    BY <1>6 DEF AgentPayOrder, Working, Works
  <2>2. UNCHANGED <<payments, byHand, pc, ctx>> /\ status' = [status EXCEPT ![held[p].order] = "paid"]
    BY <1>6 DEF AgentPayOrder
  <2>3. \A o : o = held[p].order => Backed(o)'
    BY <2>1, <2>2 DEF Backed, PaymentsOf, Confirmed
  <2>4. \A o \in OrderIds : status'[o] = status[o] \/ o = held[p].order
    BY <1>types, <2>2
  <2>5. \A o \in OrderIds : status'[o] = status[o] \/ Backed(o)'
    BY <2>3, <2>4
  <2>. QED BY <1>2, <2>2, <2>5
<1>7. ASSUME NEW n \in Notes, NEW q \in PaymentIds, AdminMatch(n, q)
      PROVE  Money'
  <2>. DEFINE o == payments[q].order
  <2>1. /\ payments' = [payments EXCEPT ![q].status = "confirmed"]
        /\ status' = [status EXCEPT ![o] = "paid"] /\ UNCHANGED <<byHand, pc, ctx>>
    BY <1>7 DEF AdminMatch
  <2>2. payments'[q].status = "confirmed" /\ payments'[q].order = o
    BY <1>types, <2>1 DEF Payment
  <2>3. \A r \in OrderIds : status'[r] = status[r] \/ r = o
    BY <1>types, <2>1
  <2>4. \A r \in OrderIds : status'[r] = status[r] \/ Backed(r)'
    BY <2>2, <2>3 DEF Backed, PaymentsOf
  <2>. QED BY <1>2, <2>1, <2>4
<1>8. CASE UNCHANGED allVars \/ OrderStep
  BY <1>1, <1>8 DEF allVars, OrderStep, Next
<1>9. ASSUME NEW p \in Procs, RunMarkPaid(p)
      PROVE  Money'
  BY <1>1, <1>9 DEF RunMarkPaid, Next, Handler
<1>10. ASSUME NEW p \in Procs, YapeHandler(p)
       PROVE  Money'
  BY <1>1, <1>3, <1>4, <1>5, <1>6, <1>9, <1>10
     DEF YapeHandler, BeginSync, AgentBegin, BeginDismiss, CreateNote, FindCandidates, MarkUnmatched,
         MatchSubscription, AgentReadOrder, AgentFindPayment, AgentCloseNote, Dismiss
<1>. QED BY <1>7, <1>8, <1>10 DEF YapeNext

\* A paid order still has a confirmed payment of its own when the phone's
\* sync, the agent's tool and the admin's match may pay it too.
THEOREM YapePaidOrdersAreBacked == YapeSpec => []PaidBacked
<1>1. YapeInit => Money
  BY InitMoney DEF YapeInit
<1>2. Money => PaidBacked
  BY DEF Money
<1>. QED BY <1>1, <1>2, YapeKeepsMoney, WorkingInvariant, PTL DEF YapeSpec

\* A refund is still of a payment that came in.
THEOREM YapeRefundsAreBacked == YapeSpec => []RefundBacked
<1>1. Working => RefundBacked
  BY DEF Working, Requests
<1>. QED BY <1>1, WorkingInvariant, PTL

-----------------------------------------------------------------------------
(* One notification of the phone pays once: its row is the lock.             *)

Syncing == {"candidates", "callMarkPaid", "markPaid", "markUnmatched"}
Told(n) == notif[n].status # "none"
SyncPaid(q, n) == reference[q].by = "sync" /\ reference[q].note = n

\* A request that wrote its notification's row and has confirmed nothing yet.
Unspent(p) == step[p] \in Syncing /\ (step[p] = "markPaid" => pc[p] = "confirmPayment")

\* Only the request that inserted a notification's row pays with it, once.
SoleWriter ==
  /\ SyncPaysOnce
  /\ \A q \in PaymentIds, n \in Notes : SyncPaid(q, n) => Told(n)
  /\ \A p \in Procs : step[p] \in Syncing => Told(held[p].note)
  /\ \A p, r \in Procs : (step[p] \in Syncing /\ step[r] \in Syncing /\ held[p].note = held[r].note) => p = r
  /\ \A p \in Procs : Unspent(p) => \A q \in PaymentIds : ~SyncPaid(q, held[p].note)

\* A step that inserts no row and confirms nothing for the phone.
LEMMA OtherStepsPayNothing ==
  ASSUME SoleWriter, \A n \in Notes : Told(n) => notif'[n].status # "none",
         \A q \in PaymentIds : reference'[q] = reference[q] \/ reference'[q].by # "sync",
         \A r \in Procs : step'[r] \in Syncing =>
           /\ step[r] \in Syncing /\ held'[r].note = held[r].note /\ held[r].note \in Notes
           /\ (step'[r] = "markPaid" => pc'[r] = "confirmPayment") => Unspent(r)
  PROVE  SoleWriter'
<1>1. SyncPaysOnce'
  BY DEF SoleWriter, SyncPaysOnce
<1>2. \A q \in PaymentIds : \A n : SyncPaid(q, n)' => SyncPaid(q, n)
  BY DEF SyncPaid
<1>3. \A q \in PaymentIds, n \in Notes : SyncPaid(q, n)' => Told(n)'
  BY <1>2 DEF SoleWriter, Told
<1>4. \A r \in Procs : step'[r] \in Syncing => notif'[held'[r].note].status # "none"
  BY DEF SoleWriter
<1>5. \A p, r \in Procs : (step'[p] \in Syncing /\ step'[r] \in Syncing /\ held'[p].note = held'[r].note) => p = r
  BY DEF SoleWriter
<1>6. \A r \in Procs, q \in PaymentIds : Unspent(r)' => ~(reference'[q].by = "sync" /\ reference'[q].note = held'[r].note)
  <2>. SUFFICES ASSUME NEW r \in Procs, NEW q \in PaymentIds, Unspent(r)',
                       reference'[q].by = "sync", reference'[q].note = held'[r].note
                PROVE  FALSE
    OBVIOUS
  <2>1. Unspent(r) /\ held'[r].note = held[r].note /\ reference'[q] = reference[q]
    BY DEF Unspent
  <2>. QED BY <2>1 DEF SoleWriter, SyncPaid
<1>. QED BY <1>1, <1>3, <1>4, <1>5, <1>6 DEF SoleWriter, SyncPaid, Told

LEMMA SyncRequestKeepsSole ==
  ASSUME Working, SoleWriter, NEW p \in Procs,
         \/ \E n \in Notes : \E a \in Amounts : BeginSync(p, n, a)
         \/ CreateNote(p) \/ FindCandidates(p) \/ MarkUnmatched(p) \/ MatchSubscription(p)
         \/ CallMarkPaid(p) \/ RunMarkPaid(p) \/ MarkMatched(p)
  PROVE  SoleWriter'
<1>types. /\ notif \in [Notes -> NoteRow] /\ reference \in [PaymentIds -> Reference]
          /\ step \in [Procs -> Steps] /\ held \in [Procs -> Held]
          /\ pc \in [Procs -> Labels] /\ ctx \in [Procs -> Context]
  BY DEF Working, YapeTypes, Requests, TypeOK
<1>works. \A r \in Procs : Works(r)
  BY DEF Working
<1>notes. \A r \in Procs : step[r] # "idle" => held[r].note \in Notes
  BY <1>works DEF Works
<1>1. ASSUME NEW l, NEW h, step' = [step EXCEPT ![p] = l], held' = [held EXCEPT ![p] = h],
             \A r \in Procs \ {p} : pc'[r] = pc[r],
             \A n \in Notes : Told(n) => notif'[n].status # "none", reference' = reference,
             l \in Syncing => /\ step[p] \in Syncing /\ h.note = held[p].note
                              /\ (l = "markPaid" => pc'[p] = "confirmPayment") => Unspent(p)
      PROVE  SoleWriter'
  <2>1. step'[p] = l /\ held'[p] = h /\ \A r \in Procs \ {p} : step'[r] = step[r] /\ held'[r] = held[r]
    BY <1>1, <1>types
  <2>2. \A r \in Procs : step[r] \in Syncing => held[r].note \in Notes
    BY <1>notes DEF Syncing
  <2>. QED BY <1>1, <2>1, <2>2, OtherStepsPayNothing DEF Unspent
<1>2. ASSUME Finish(p), \A r \in Procs \ {p} : pc'[r] = pc[r],
             \A n \in Notes : Told(n) => notif'[n].status # "none", reference' = reference
      PROVE  SoleWriter'
  BY <1>1, <1>2 DEF Finish, Goto, Syncing
<1>3. ASSUME NEW n \in Notes, NEW a \in Amounts, BeginSync(p, n, a)
      PROVE  SoleWriter'
  <2>1. /\ step' = [step EXCEPT ![p] = "create"] /\ UNCHANGED <<pc, notif, reference>> /\ "create" \notin Syncing
        /\ held' = [held EXCEPT ![p] = [NoHeld EXCEPT !.note = n, !.amount = a]]
    BY <1>3 DEF BeginSync, Goto, vars, Syncing
  <2>. QED BY <1>1, <2>1 DEF Told
<1>4. CASE CreateNote(p)
  <2>. DEFINE n == held[p].note
  <2>1. CASE notif[n].status # "none"
    BY <1>2, <1>4, <2>1 DEF CreateNote, vars, Told
  <2>2. CASE notif[n].status = "none"
    <3>1. /\ step' = [step EXCEPT ![p] = "candidates"] /\ UNCHANGED <<pc, reference, held>> /\ n \in Notes
          /\ notif' = [notif EXCEPT ![n] = NewRow(held[p].amount)]
      BY <1>4, <1>notes, <2>2 DEF CreateNote, Goto, vars
    <3>2. step'[p] = "candidates" /\ \A r \in Procs \ {p} : step'[r] = step[r]
      BY <1>types, <3>1
    <3>3. notif'[n].status = "pending" /\ \A m \in Notes \ {n} : notif'[m] = notif[m]
      BY <1>types, <3>1 DEF NewRow, NoRow
    <3>4. ~Told(n) /\ \A m \in Notes : Told(m) => Told(m)'
      BY <2>2, <3>3 DEF Told
    <3>5. SyncPaysOnce' /\ \A q \in PaymentIds, m \in Notes : SyncPaid(q, m)' => Told(m)'
      BY <3>1, <3>4 DEF SoleWriter, SyncPaysOnce, SyncPaid
    <3>6. \A r \in Procs \ {p} : step[r] \in Syncing => Told(held[r].note) /\ held[r].note # n
      BY <3>4 DEF SoleWriter
    <3>7. \A q \in PaymentIds : ~SyncPaid(q, n)
      BY <3>1, <3>4 DEF SoleWriter
    <3>8. \A r \in Procs : step'[r] \in Syncing => notif'[held'[r].note].status # "none"
      <4>1. \A r \in Procs \ {p} : step[r] \in Syncing => held[r].note \in Notes
        BY <1>notes DEF Syncing
      <4>. QED BY <3>1, <3>2, <3>3, <3>6, <4>1 DEF Told
    <3>9. \A r, s \in Procs : (step'[r] \in Syncing /\ step'[s] \in Syncing /\ held'[r].note = held'[s].note) => r = s
      BY <3>1, <3>2, <3>6 DEF SoleWriter
    <3>10. \A r \in Procs : Unspent(r)' => \A q \in PaymentIds : ~SyncPaid(q, held[r].note)
      <4>1. \A r \in Procs \ {p} : Unspent(r)' => Unspent(r)
        BY <3>1, <3>2 DEF Unspent
      <4>. QED BY <3>7, <4>1 DEF SoleWriter
    <3>11. \A r \in Procs : Unspent(r)' => \A q \in PaymentIds : ~SyncPaid(q, held[r].note)'
      BY <3>1, <3>10 DEF SyncPaid
    <3>. QED BY <3>5, <3>8, <3>9, <3>11 DEF SoleWriter, Told
  <2>. QED BY <2>1, <2>2
<1>5. CASE FindCandidates(p)
  <2>1. UNCHANGED <<pc, notif, reference>> /\ step[p] = "candidates" /\ Unspent(p)
    BY <1>5 DEF FindCandidates, vars, Unspent, Syncing
  <2>2. ASSUME NEW l, NEW q, Goto(p, l), held' = [held EXCEPT ![p].payment = q] \/ UNCHANGED held
        PROVE  SoleWriter'
    <3>. DEFINE h == held'[p]
    <3>1. h.note = held[p].note /\ held' = [held EXCEPT ![p] = h]
      BY <1>types, <2>2 DEF Held
    <3>. HIDE DEF h
    <3>2. step[p] \in Syncing
      BY <2>1 DEF Syncing
    <3>. QED BY <1>1, <2>1, <2>2, <3>1, <3>2 DEF Goto, Told
  <2>3. CASE Finish(p)
    BY <1>2, <2>1, <2>3 DEF Told
  <2>. QED BY <1>5, <2>2, <2>3 DEF FindCandidates
<1>6. CASE MarkUnmatched(p)
  <2>1. /\ held[p].note \in Notes /\ UNCHANGED <<pc, reference, held>>
        /\ step' = [step EXCEPT ![p] = "subscription"] /\ "subscription" \notin Syncing
        /\ notif' = [notif EXCEPT ![held[p].note] = [@ EXCEPT !.status = "unmatched"]]
    BY <1>6, <1>notes DEF MarkUnmatched, Goto, Syncing, vars
  <2>2. \A n \in Notes : Told(n) => notif'[n].status # "none"
    BY <1>types, <2>1 DEF Told, NoteRow
  <2>3. held' = [held EXCEPT ![p] = held[p]]
    BY <1>types, <2>1
  <2>. QED BY <1>1, <2>1, <2>2, <2>3
<1>10. CASE MatchSubscription(p)
  <2>1. held[p].note \in Notes /\ Finish(p) /\ UNCHANGED <<pc, reference>>
    BY <1>10, <1>notes DEF MatchSubscription, vars
  <2>2. ASSUME NEW q \in PaymentIds \cup {NoPayment}, Use(held[p].note, "matched", q, "subscription_payments")
        PROVE  \A n \in Notes : Told(n) => notif'[n].status # "none"
    <3>1. notif'[held[p].note].status = "matched"
          /\ \A m \in Notes \ {held[p].note} : notif'[m] = notif[m]
      BY <1>types, <2>1, <2>2, NoteWritten DEF Resolved
    <3>. QED BY <3>1 DEF Told
  <2>3. \A n \in Notes : Told(n) => notif'[n].status # "none"
    BY <1>10, <2>2 DEF MatchSubscription, Told
  <2>. QED BY <1>2, <2>1, <2>3
<1>7. CASE CallMarkPaid(p)
  <2>1. UNCHANGED <<notif, reference>> /\ step[p] = "callMarkPaid" /\ Unspent(p)
    BY <1>7 DEF CallMarkPaid, Unspent, Syncing
  <2>2. CASE Finish(p) /\ UNCHANGED <<pc, ctx>>
    BY <1>2, <2>1, <2>2 DEF Told
  <2>3. CASE Goto(p, "markPaid") /\ UNCHANGED held /\ pc' = [pc EXCEPT ![p] = "confirmPayment"]
    <3>1. held' = [held EXCEPT ![p] = held[p]] /\ \A r \in Procs \ {p} : pc'[r] = pc[r]
      BY <1>types, <2>3
    <3>2. step' = [step EXCEPT ![p] = "markPaid"] /\ step[p] \in Syncing
      BY <2>1, <2>3 DEF Goto, Syncing
    <3>. QED BY <1>1, <2>1, <3>1, <3>2 DEF Told
  <2>. QED BY <1>7, <2>2, <2>3 DEF CallMarkPaid
<1>8. CASE RunMarkPaid(p)
  <2>1. UNCHANGED <<notif, step, held>> /\ step[p] = "markPaid" /\ step[p] \in Syncing
    BY <1>8 DEF RunMarkPaid, Syncing
  <2>2. CASE WriteStatus(p) /\ UNCHANGED reference
    <3>1. pc[p] = "writeStatus" /\ ctx[p].then = "markMatched" /\ pc' = [pc EXCEPT ![p] = ctx[p].then]
      BY <1>works, <2>1, <2>2 DEF WriteStatus, Works
    <3>2. pc'[p] = "markMatched" /\ \A r \in Procs \ {p} : pc'[r] = pc[r]
      BY <1>types, <3>1
    <3>3. step' = [step EXCEPT ![p] = "markPaid"] /\ held' = [held EXCEPT ![p] = held[p]]
      BY <1>types, <2>1
    <3>. QED BY <1>1, <2>1, <2>2, <3>2, <3>3 DEF Told
  <2>3. CASE ConfirmPayment(p) /\ reference' = [reference EXCEPT ![held[p].payment] = [note |-> held[p].note, by |-> "sync"]]
    <3>. DEFINE n == held[p].note
                q == held[p].payment
    <3>1. q \in PaymentIds /\ n \in Notes /\ pc[p] = "confirmPayment" /\ pc' = [pc EXCEPT ![p] = "writeStatus"]
      BY <1>notes, <1>works, <2>1, <2>3 DEF Works, ConfirmPayment
    <3>. HIDE DEF q, n
    <3>2. reference' = [reference EXCEPT ![q] = [note |-> n, by |-> "sync"]]
      BY <2>3 DEF q, n
    <3>3. reference'[q].by = "sync" /\ reference'[q].note = n /\ \A r \in PaymentIds \ {q} : reference'[r] = reference[r]
      BY <1>types, <3>1, <3>2
    <3>4. pc'[p] = "writeStatus" /\ \A r \in Procs \ {p} : pc'[r] = pc[r]
      BY <1>types, <3>1
    <3>5. Unspent(p) /\ Told(n) /\ \A r \in PaymentIds : ~SyncPaid(r, n)
      BY <2>1, <3>1 DEF Unspent, SoleWriter, n
    <3>6. SyncPaysOnce'
      BY <3>3, <3>5 DEF SoleWriter, SyncPaysOnce, SyncPaid
    <3>7. \A r \in PaymentIds, m \in Notes : SyncPaid(r, m)' => Told(m)'
      BY <2>1, <3>3, <3>5 DEF SoleWriter, SyncPaid, Told
    <3>8. \A r \in Procs : Unspent(r)' => Unspent(r) /\ r # p
      BY <2>1, <3>4 DEF Unspent
    <3>9. \A r \in Procs : Unspent(r)' => held[r].note # n
      BY <2>1, <3>8 DEF SoleWriter, Unspent, n
    <3>10. \A r \in Procs, s \in PaymentIds : Unspent(r)' =>
             ~(reference'[s].by = "sync" /\ reference'[s].note = held[r].note)
      BY <3>3, <3>8, <3>9 DEF SoleWriter, SyncPaid
    <3>. QED BY <2>1, <3>6, <3>7, <3>10 DEF SoleWriter, SyncPaid, Told
  <2>. QED BY <1>8, <2>2, <2>3 DEF RunMarkPaid
<1>9. CASE MarkMatched(p)
  <2>1. /\ held[p].note \in Notes /\ Finish(p) /\ Return(p) /\ UNCHANGED reference
        /\ Use(held[p].note, "matched", held[p].payment, "payments")
    BY <1>9, <1>notes DEF MarkMatched
  <2>2. \A n \in Notes : Told(n) => notif'[n].status # "none"
    BY <1>types, <2>1 DEF Use, Told, NoteRow
  <2>. QED BY <1>2, <1>types, <2>1, <2>2 DEF Return
<1>. QED BY <1>3, <1>4, <1>5, <1>6, <1>7, <1>8, <1>9, <1>10

LEMMA YapeKeepsSole ==
  ASSUME Working, SoleWriter, [YapeNext]_allVars
  PROVE  SoleWriter'
<1>types. /\ notif \in [Notes -> NoteRow] /\ reference \in [PaymentIds -> Reference]
          /\ step \in [Procs -> Steps] /\ held \in [Procs -> Held]
          /\ pc \in [Procs -> Labels] /\ ctx \in [Procs -> Context]
  BY DEF Working, YapeTypes, Requests, TypeOK
<1>notes. \A r \in Procs : step[r] # "idle" => held[r].note \in Notes
  BY DEF Working, Works
<1>idle. "idle" \notin Syncing
  BY DEF Syncing
<1>1. ASSUME \A n \in Notes : Told(n) => notif'[n].status # "none",
             \A q \in PaymentIds : reference'[q] = reference[q] \/ reference'[q].by # "sync",
             \A r \in Procs : step'[r] \in Syncing => step'[r] = step[r] /\ held'[r] = held[r] /\ pc'[r] = pc[r]
      PROVE  SoleWriter'
  BY <1>1, <1>notes, <1>idle, OtherStepsPayNothing DEF Unspent
<1>2. ASSUME NEW p \in Procs, NEW l, l \notin Syncing, step' = [step EXCEPT ![p] = l],
             \A r \in Procs \ {p} : held'[r] = held[r] /\ pc'[r] = pc[r],
             \A n \in Notes : Told(n) => notif'[n].status # "none",
             \A q \in PaymentIds : reference'[q] = reference[q] \/ reference'[q].by # "sync"
      PROVE  SoleWriter'
  BY <1>1, <1>2, <1>types
<1>3. CASE UNCHANGED allVars
  BY <1>1, <1>3 DEF allVars, vars, yapeVars, Told
<1>4. CASE OrderStep
  <2>1. \A r \in Procs : step[r] = "idle" \/ pc'[r] = pc[r]
    <3>1. CASE \E p \in Procs : step[p] = "idle" /\ Handler(p)
      BY <3>1, HandlerMovesOne DEF Working
    <3>2. CASE \E o \in OrderIds : OneStatement(o) \/ ExpirationJob(o)
      BY <3>2 DEF OneStatement, CreateOrder, ModifyOrder, UpdateStatus, AdminExpire, Scan, ExpirationJob,
         StartJob, JobCancel, JobRestock, JobExpirePayments, JobNotify, JobFails
    <3>. QED BY <1>4, <3>1, <3>2 DEF OrderStep
  <2>. QED BY <1>1, <1>4, <1>idle, <2>1 DEF OrderStep, yapeVars, Told
<1>5. ASSUME NEW p \in Procs, NEW n \in Notes, BeginDismiss(p, n) \/ \E o \in OrderIds : AgentBegin(p, n, o)
      PROVE  SoleWriter'
  BY <1>2, <1>5, <1>types DEF BeginDismiss, AgentBegin, Goto, vars, Told, Syncing
<1>6. ASSUME NEW p \in Procs, AgentReadOrder(p) \/ AgentFindPayment(p) \/ AgentPayOrder(p)
      PROVE  SoleWriter'
  BY <1>2, <1>6, <1>types
     DEF AgentReadOrder, AgentFindPayment, AgentPayOrder, Finish, Goto, vars, Told, Syncing
<1>7. ASSUME NEW p \in Procs, AgentUpsert(p)
      PROVE  SoleWriter'
  <2>1. PICK q \in PaymentIds :
          /\ reference' = [reference EXCEPT ![q] = [note |-> held[p].note, by |-> "agent"]]
          /\ held' = [held EXCEPT ![p].payment = q]
    BY <1>7 DEF AgentUpsert
  <2>2. \A r \in PaymentIds : reference'[r] = reference[r] \/ reference'[r].by # "sync"
    BY <1>types, <2>1
  <2>3. \A r \in Procs \ {p} : held'[r] = held[r]
    BY <1>types, <2>1
  <2>. QED BY <1>2, <1>7, <2>2, <2>3 DEF AgentUpsert, Goto, Told, Syncing
<1>8. ASSUME NEW n \in Notes, NEW row, row.status # "none", notif' = [notif EXCEPT ![n] = row]
      PROVE  \A m \in Notes : Told(m) => notif'[m].status # "none"
  BY <1>8, <1>types DEF Told
<1>9. ASSUME NEW p \in Procs, AgentCloseNote(p) \/ Dismiss(p)
      PROVE  SoleWriter'
  <2>1. /\ held[p].note \in Notes /\ Finish(p) /\ UNCHANGED <<pc, reference>>
        /\ \/ Use(held[p].note, "MATCHED", held[p].payment, "payments")
           \/ notif' = [notif EXCEPT ![held[p].note] = [@ EXCEPT !.status = "dismissed"]]
    BY <1>9, <1>notes DEF AgentCloseNote, Dismiss, vars
  <2>2. /\ [notif[held[p].note] EXCEPT !.status = "MATCHED", !.payment = held[p].payment,
                                       !.table = "payments"].status # "none"
        /\ [notif[held[p].note] EXCEPT !.status = "dismissed"].status # "none"
    BY <1>types, <2>1 DEF NoteRow
  <2>3. \A m \in Notes : Told(m) => notif'[m].status # "none"
    BY <1>8, <2>1, <2>2 DEF Use
  <2>. QED BY <1>2, <1>idle, <1>types, <2>1, <2>3 DEF Finish, Goto
<1>10. ASSUME NEW p \in Procs, YapeAbort(p)
       PROVE  SoleWriter'
  BY <1>2, <1>10, <1>idle, <1>types DEF YapeAbort, Finish, Return, Goto, Told
<1>11. ASSUME NEW n \in Notes, NEW q \in PaymentIds, AdminMatch(n, q)
       PROVE  SoleWriter'
  <2>1. Use(n, "confirmed", q, "payments") /\ UNCHANGED <<pc, reference, step, held>>
    BY <1>11 DEF AdminMatch
  <2>2. [notif[n] EXCEPT !.status = "confirmed", !.payment = q, !.table = "payments"].status # "none"
    BY <1>types DEF NoteRow
  <2>3. \A m \in Notes : Told(m) => notif'[m].status # "none"
    BY <1>8, <2>1, <2>2 DEF Use
  <2>. QED BY <1>1, <2>1, <2>3
<1>12. ASSUME NEW p \in Procs, YapeHandler(p)
       PROVE  SoleWriter'
  BY <1>5, <1>6, <1>7, <1>9, <1>10, <1>12, SyncRequestKeepsSole DEF YapeHandler
<1>. QED BY <1>3, <1>4, <1>11, <1>12 DEF YapeNext

\* No two payments were confirmed by the phone's sync with the same
\* notification, whatever calls the phone repeats, runs at once or loses half
\* way: only the call that inserted the row goes on, and it confirms once.
THEOREM SyncedNotePaysOnce == YapeSpec => []SyncPaysOnce
<1>1. YapeInit => SoleWriter
  BY DEF YapeInit, SoleWriter, SyncPaysOnce, SyncPaid, Unspent, Syncing
<1>2. SoleWriter => SyncPaysOnce
  BY DEF SoleWriter
<1>. QED BY <1>1, <1>2, YapeKeepsSole, WorkingInvariant, PTL DEF YapeSpec

=============================================================================
