----------------------------- MODULE YapeMatching -----------------------------
(***************************************************************************)
(* Yape notifications and their writers: the phone's sync, which tries the *)
(* orders and then the subscriptions (payment-service.ts), the agent's     *)
(* confirm tool (yape-tools.ts), and the admin's match and dismiss         *)
(* (api-admin.ts), over the orders and payments of OrderPayments.  A       *)
(* request p of this module stands at step[p]; while it is inside          *)
(* orderService.markPaid it stands at step "markPaid" and pc[p] of         *)
(* OrderPayments says where.  What the subscription half writes besides    *)
(* the notification is in Subscriptions.                                   *)
(***************************************************************************)
EXTENDS OrderPayments

CONSTANTS Notes,    \* notification hashes the phone may send
          NoNote,
          YapeOps   \* the writers this instance exercises

AllYapeOps == {"sync", "agent", "adminMatch", "adminDismiss"}

ASSUME YapeAssumption == NoNote \notin Notes /\ YapeOps \subseteq AllYapeOps

VARIABLES notif,      \* the yape_notifications table, by notification_hash; table: (for
                      \* the property) whose id was written in matched_payment_id
          reference,  \* payments.reference: the notification that confirmed it, and
                      \* (for the properties) by which writer
          step, held  \* where each Yape request stands and what it holds

yapeVars == <<notif, reference, step, held>>
allVars == <<vars, yapeVars>>

Resolved == {"matched", "MATCHED", "confirmed"}
NoteRow == [status : {"none", "pending", "unmatched", "dismissed"} \cup Resolved,
            amount : Amounts \cup {0}, payment : PaymentIds \cup {NoPayment},
            table : {"payments", "subscription_payments"}]
NoRow == [status |-> "none", amount |-> 0, payment |-> NoPayment, table |-> "payments"]
NewRow(amount) == [NoRow EXCEPT !.status = "pending", !.amount = amount]
Steps == {"idle", "create", "candidates", "callMarkPaid", "markPaid", "markUnmatched",
          "subscription", "readOrder", "findPayment", "upsert", "payOrder", "closeNote",
          "dismiss"}
Held == [note : Notes \cup {NoNote}, amount : Amounts \cup {0},
         order : OrderIds \cup {NoOrder}, payment : PaymentIds \cup {NoPayment}]
Reference == [note : Notes \cup {NoNote}, by : {"nobody", "sync", "agent"}]
NoHeld == [note |-> NoNote, amount |-> 0, order |-> NoOrder, payment |-> NoPayment]

YapeTypeOK ==
  /\ TypeOK
  /\ notif \in [Notes -> NoteRow]
  /\ reference \in [PaymentIds -> Reference]
  /\ step \in [Procs -> Steps]
  /\ held \in [Procs -> Held]

YapeInit ==
  /\ Init
  /\ notif = [n \in Notes |-> NoRow]
  /\ reference = [q \in PaymentIds |-> [note |-> NoNote, by |-> "nobody"]]
  /\ step = [p \in Procs |-> "idle"]
  /\ held = [p \in Procs |-> NoHeld]

Goto(p, label) == step' = [step EXCEPT ![p] = label]
Finish(p) == Goto(p, "idle") /\ held' = [held EXCEPT ![p] = NoHeld]
Free(p) == pc[p] = "idle" /\ step[p] = "idle"

\* Notification n is marked as used, with id q of the given table.
Use(n, as, q, table) ==
  notif' = [notif EXCEPT ![n] = [@ EXCEPT !.status = as, !.payment = q, !.table = table]]

-----------------------------------------------------------------------------
(* payment-service.ts: syncYapeNotification and matchOrderPayment *)

\* getByHash: a hash that has a row is answered from it and nothing changes.
BeginSync(p, n, amount) ==
  /\ "sync" \in YapeOps /\ Free(p)
  /\ notif[n].status = "none"
  /\ Goto(p, "create")
  /\ held' = [held EXCEPT ![p] = [NoHeld EXCEPT !.note = n, !.amount = amount]]
  /\ UNCHANGED <<vars, notif, reference>>

\* Mutant: notification_hash is not UNIQUE and the row is written again.
CreateNoteAgain(p) ==
  /\ step[p] = "create"
  /\ notif' = [notif EXCEPT ![held[p].note] = NewRow(held[p].amount)]
  /\ Goto(p, "candidates")
  /\ UNCHANGED <<vars, reference, held>>

\* createNotification: notification_hash is UNIQUE, the second INSERT throws.
CreateNote(p) ==
  /\ step[p] = "create"
  /\ IF notif[held[p].note].status = "none"
       THEN /\ notif' = [notif EXCEPT ![held[p].note] = NewRow(held[p].amount)]
            /\ Goto(p, "candidates")
            /\ UNCHANGED held
       ELSE Finish(p) /\ UNCHANGED notif
  /\ UNCHANGED <<vars, reference>>

CandidatesFor(amount) ==
  {q \in PaymentIds : payments[q].status = "pending" /\ payments[q].amount = amount}

\* One candidate: pay it.  None: unmatched.  Several: left pending, for a human.
FindCandidates(p) ==
  /\ step[p] = "candidates"
  /\ LET C == CandidatesFor(held[p].amount)
     IN  \/ /\ Cardinality(C) = 1
            /\ \E q \in C : held' = [held EXCEPT ![p].payment = q]
            /\ Goto(p, "callMarkPaid")
         \/ C = {} /\ Goto(p, "markUnmatched") /\ UNCHANGED held
         \/ Cardinality(C) > 1 /\ Finish(p)
  /\ UNCHANGED <<vars, notif, reference>>

MarkUnmatched(p) ==
  /\ step[p] = "markUnmatched"
  /\ notif' = [notif EXCEPT ![held[p].note].status = "unmatched"]
  /\ Goto(p, "subscription")
  /\ UNCHANGED <<vars, reference, held>>

\* matchSubscriptionPayment.  One candidate: markMatched writes the id of a
\* subscription_payments row where the foreign key wants one of payments, so
\* it throws, or names whatever payment has that number (NoPayment: another
\* tenant's).  None or several candidates: nothing is written here.
MatchSubscription(p) ==
  /\ step[p] = "subscription"
  /\ \/ UNCHANGED notif
     \/ \E q \in {r \in PaymentIds : payments[r].status # "none"} \cup {NoPayment} :
          Use(held[p].note, "matched", q, "subscription_payments")
  /\ Finish(p)
  /\ UNCHANGED <<vars, reference>>

\* orderService.markPaid: it throws unless the order is payment_requested.
CallMarkPaid(p) ==
  /\ step[p] = "callMarkPaid"
  /\ LET o == payments[held[p].payment].order
     IN  IF Allowed(status[o], "paid")
           THEN /\ pc' = [pc EXCEPT ![p] = "confirmPayment"]
                /\ ctx' = [ctx EXCEPT ![p] = [NoContext EXCEPT !.order = o,
                     !.target = "paid", !.payment = held[p].payment, !.then = "markMatched"]]
                /\ Goto(p, "markPaid")
                /\ UNCHANGED held
           ELSE Finish(p) /\ UNCHANGED <<pc, ctx>>
  /\ UNCHANGED <<tables, job, notif, reference>>

\* The two statements of markPaid, with the reference confirmPayment stores.
RunMarkPaid(p) ==
  /\ step[p] = "markPaid"
  /\ \/ /\ ConfirmPayment(p)
        /\ reference' = [reference EXCEPT ![held[p].payment] = [note |-> held[p].note, by |-> "sync"]]
     \/ WriteStatus(p) /\ UNCHANGED reference
  /\ UNCHANGED <<notif, step, held>>

\* Mutant: the notification is marked before the payment is confirmed.
MarkMatchedFirst(p) ==
  /\ step[p] = "markPaid"
  /\ notif[held[p].note].status = "pending"
  /\ Use(held[p].note, "matched", held[p].payment, "payments")
  /\ UNCHANGED <<vars, reference, step, held>>

MarkMatched(p) ==
  /\ step[p] = "markPaid" /\ pc[p] = "markMatched"
  /\ Use(held[p].note, "matched", held[p].payment, "payments")
  /\ Return(p) /\ Finish(p)
  /\ UNCHANGED <<tables, job, reference>>

-----------------------------------------------------------------------------
(* yape-tools.ts: confirmYapePayment *)

\* The tool reads the notification, then the order.
AgentBegin(p, n, o) ==
  /\ "agent" \in YapeOps /\ Free(p)
  /\ notif[n].status \notin {"none", "MATCHED"}
  /\ Goto(p, "readOrder")
  /\ held' = [held EXCEPT ![p] = [NoHeld EXCEPT !.note = n, !.amount = notif[n].amount, !.order = o]]
  /\ UNCHANGED <<vars, notif, reference>>

AgentReadOrder(p) ==
  /\ step[p] = "readOrder"
  /\ IF status[held[p].order] \in Statuses \ {"paid"} /\ total[held[p].order] = held[p].amount
       THEN Goto(p, "findPayment") /\ UNCHANGED held
       ELSE Finish(p)
  /\ UNCHANGED <<vars, notif, reference>>

\* SELECT ... LIMIT 1 without an order: any payment of the order, of any status.
AgentFindPayment(p) ==
  /\ step[p] = "findPayment"
  /\ LET Own == {q \in PaymentIds : payments[q].order = held[p].order}
     IN  \/ Own = {} /\ UNCHANGED held
         \/ \E q \in Own : held' = [held EXCEPT ![p].payment = q]
  /\ Goto(p, "upsert")
  /\ UNCHANGED <<vars, notif, reference>>

AgentUpsert(p) ==
  /\ step[p] = "upsert"
  /\ \E q \in PaymentIds :
       /\ IF held[p].payment = NoPayment THEN IsNextId(q) ELSE q = held[p].payment
       /\ payments' = [payments EXCEPT ![q] =
            IF held[p].payment = NoPayment
              THEN [status |-> "confirmed", order |-> held[p].order, amount |-> held[p].amount]
              ELSE [@ EXCEPT !.status = "confirmed"]]
       /\ reference' = [reference EXCEPT ![q] = [note |-> held[p].note, by |-> "agent"]]
       /\ held' = [held EXCEPT ![p].payment = q]
  /\ Goto(p, "payOrder")
  /\ UNCHANGED <<status, total, refunds, byHand, job, pc, ctx, notif>>

AgentPayOrder(p) ==
  /\ step[p] = "payOrder"
  /\ status' = [status EXCEPT ![held[p].order] = "paid"]
  /\ Goto(p, "closeNote")
  /\ UNCHANGED <<total, payments, refunds, byHand, job, pc, ctx, notif, reference, held>>

AgentCloseNote(p) ==
  /\ step[p] = "closeNote"
  /\ Use(held[p].note, "MATCHED", held[p].payment, "payments")
  /\ Finish(p)
  /\ UNCHANGED <<vars, reference>>

-----------------------------------------------------------------------------
(* api-admin.ts: the manual match and the dismissal *)

\* Mutant: the payment's UPDATE is forgotten.
AdminMatchForgetsPayment(n, q) ==
  /\ "adminMatch" \in YapeOps
  /\ notif[n].status \in {"pending", "unmatched"}
  /\ payments[q].status = "pending"
  /\ Use(n, "confirmed", q, "payments")
  /\ status' = [status EXCEPT ![payments[q].order] = "paid"]
  /\ UNCHANGED <<payments, total, refunds, byHand, job, pc, ctx, reference, step, held>>

\* One transaction under the locks of both rows; the order is not looked at.
AdminMatch(n, q) ==
  /\ "adminMatch" \in YapeOps
  /\ notif[n].status \in {"pending", "unmatched"}
  /\ payments[q].status = "pending"
  /\ Use(n, "confirmed", q, "payments")
  /\ payments' = [payments EXCEPT ![q].status = "confirmed"]
  /\ status' = [status EXCEPT ![payments[q].order] = "paid"]
  /\ UNCHANGED <<total, refunds, byHand, job, pc, ctx, reference, step, held>>

\* The dismissal checks in one statement and writes in another.
BeginDismiss(p, n) ==
  /\ "adminDismiss" \in YapeOps /\ Free(p)
  /\ notif[n].status \in {"pending", "unmatched"}
  /\ Goto(p, "dismiss")
  /\ held' = [held EXCEPT ![p] = [NoHeld EXCEPT !.note = n]]
  /\ UNCHANGED <<vars, notif, reference>>

Dismiss(p) ==
  /\ step[p] = "dismiss"
  /\ notif' = [notif EXCEPT ![held[p].note].status = "dismissed"]
  /\ Finish(p)
  /\ UNCHANGED <<vars, reference>>

\* An await of a Yape request rejects, or the process restarts.
YapeAbort(p) ==
  /\ Aborts /\ step[p] # "idle"
  /\ Return(p) /\ Finish(p)
  /\ UNCHANGED <<tables, job, notif, reference>>

-----------------------------------------------------------------------------

YapeHandler(p) ==
  \/ \E n \in Notes :
       \/ \E a \in Amounts : BeginSync(p, n, a)
       \/ \E o \in OrderIds : AgentBegin(p, n, o)
       \/ BeginDismiss(p, n)
  \/ CreateNote(p) \/ FindCandidates(p) \/ MarkUnmatched(p)
  \/ MatchSubscription(p) \/ CallMarkPaid(p) \/ RunMarkPaid(p) \/ MarkMatched(p)
  \/ AgentReadOrder(p) \/ AgentFindPayment(p) \/ AgentUpsert(p)
  \/ AgentPayOrder(p) \/ AgentCloseNote(p)
  \/ Dismiss(p) \/ YapeAbort(p)

OrderStep ==
  /\ \/ \E p \in Procs : step[p] = "idle" /\ Handler(p)
     \/ \E o \in OrderIds : OneStatement(o) \/ ExpirationJob(o)
  /\ UNCHANGED yapeVars

YapeNext ==
  \/ OrderStep
  \/ \E p \in Procs : YapeHandler(p)
  \/ \E n \in Notes, q \in PaymentIds : AdminMatch(n, q)

YapeSpec == YapeInit /\ [][YapeNext]_allVars

-----------------------------------------------------------------------------
(* Properties *)

\* A notification marked as used for an order points at a payment that is
\* confirmed, whichever of the writers used it and whatever was interrupted.
\* One marked by the subscription half is the exception: its column holds a
\* subscription payment's id, and the payment of that number may be any.
UsedIsConfirmed ==
  \A n \in Notes : (notif[n].status \in Resolved /\ notif[n].table = "payments") =>
    payments[notif[n].payment].status = "confirmed"

\* One Yape transfer pays one order: no two payments were confirmed on the
\* strength of the same notification.
NotePaysOnce ==
  \A q, r \in PaymentIds :
    (reference[q].note # NoNote /\ reference[q].note = reference[r].note) => q = r

\* The phone's retries, its concurrent calls and the calls that failed half
\* way confirm no second payment with one notification.
SyncPaysOnce ==
  \A q, r \in PaymentIds : (reference[q].by = "sync" /\ reference[q] = reference[r]) => q = r
=============================================================================
