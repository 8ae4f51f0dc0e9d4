----------------------------- MODULE Subscriptions -----------------------------
(***************************************************************************)
(* The subscriptions of one tenant to a platform plan, those of its        *)
(* customers to its own ("creator") plans, their payments, and the renewal *)
(* that a Yape notification buys: subscription-service.ts, the three       *)
(* repositories, the subscription routes and matchSubscriptionPayment of   *)
(* payment-service.ts.  Nothing here runs in a transaction: one action per *)
(* awaited statement.                                                      *)
(***************************************************************************)
EXTENDS Naturals, FiniteSets

CONSTANTS PlatformPlans, CreatorPlans, NoPlan,
          Price,        \* price of each plan; 0 is free
          Notes, NoNote,
          Sources,      \* what may activate a subscription by itself
          Nobody,
          Procs,
          MaxRequested, MaxPayments,  \* rows ever asked for (bounds)
          Aborts        \* TRUE: an await may reject or the process stop

Plans == PlatformPlans \cup CreatorPlans
SubIds == 1..(MaxRequested + Cardinality(Sources))
PaymentIds == 1..MaxPayments

ASSUME SubscriptionsAssumption ==
  /\ PlatformPlans \cap CreatorPlans = {} /\ NoPlan \notin Plans
  /\ Price \in [Plans -> Nat]
  /\ IsFiniteSet(Notes) /\ NoNote \notin Notes /\ Nobody \notin Sources
  /\ IsFiniteSet(Sources) /\ MaxRequested \in Nat /\ MaxPayments \in Nat /\ Aborts \in BOOLEAN

VARIABLES subs,      \* tenant_subscriptions and customer_subscriptions, by id
          payments,  \* subscription_payments
          notes,     \* yape_notifications that no order took
          pc, ctx    \* where each request stands and its local variables

tables == <<subs, payments, notes>>
vars == <<subs, payments, notes, pc, ctx>>

\* periods: how often renewSubscription moved current_period_end; by: who
\* activated the row without a request of the tenant (for the properties).
Row == [plan : Plans \cup {NoPlan}, status : {"none", "active", "cancelled"},
        periods : Nat, by : Sources \cup {Nobody}]
Payment == [sub : SubIds \cup {0}, status : {"none", "pending", "confirmed"},
            note : Notes \cup {NoNote}]
Note == [amount : Nat, payment : PaymentIds \cup {0},
         status : {"none", "unmatched", "matched"}]
Context == [plan : Plans \cup {NoPlan}, pay : BOOLEAN, sub : SubIds \cup {0},
            payment : PaymentIds \cup {0}, note : Notes \cup {NoNote},
            periods : Nat, by : Sources \cup {Nobody}]
Labels == {"idle", "cancelOthers", "insertSub", "insertPayment", "cancel",
           "findPending", "confirm", "markMatched", "readPeriod", "renew"}

NoContext == [plan |-> NoPlan, pay |-> FALSE, sub |-> 0, payment |-> 0,
              note |-> NoNote, periods |-> 0, by |-> Nobody]

Types ==
  /\ subs \in [SubIds -> Row]
  /\ payments \in [PaymentIds -> Payment]
  /\ notes \in [Notes -> Note]
  /\ ctx \in [Procs -> Context]

TypeOK == Types /\ pc \in [Procs -> Labels]

Init ==
  /\ subs = [s \in SubIds |-> [plan |-> NoPlan, status |-> "none", periods |-> 0, by |-> Nobody]]
  /\ payments = [q \in PaymentIds |-> [sub |-> 0, status |-> "none", note |-> NoNote]]
  /\ notes = [n \in Notes |-> [amount |-> 0, payment |-> 0, status |-> "none"]]
  /\ pc = [p \in Procs |-> "idle"]
  /\ ctx = [p \in Procs |-> NoContext]

Goto(p, label) == pc' = [pc EXCEPT ![p] = label]
Finish(p) == Goto(p, "idle") /\ ctx' = [ctx EXCEPT ![p] = NoContext]
Enter(p, label, c) == pc[p] = "idle" /\ Goto(p, label) /\ ctx' = [ctx EXCEPT ![p] = c]

\* SERIAL ids: the next row is the first unused one.
NextRow(table, ids) ==
  {i \in ids : table[i].status = "none" /\ \A j \in ids : j < i => table[j].status # "none"}

ActivePlatform == {s \in SubIds : subs[s].status = "active" /\ subs[s].plan \in PlatformPlans}
Creator == {s \in SubIds : subs[s].plan \in CreatorPlans}

\* The bounds: what requests have written or are about to write.
Room(label, written, bound) ==
  Cardinality(written) + Cardinality({p \in Procs : pc[p] \in label /\ ctx[p].by = Nobody}) < bound
RoomForSub == Room({"cancelOthers", "insertSub"}, {s \in SubIds : subs[s].status # "none" /\ subs[s].by = Nobody}, MaxRequested)
RoomForPayment ==
  Room({"insertPayment"} \cup {"cancelOthers", "insertSub"}, {q \in PaymentIds : payments[q].status # "none"}, MaxPayments)

\* getSubscription: the newest row that is active.
Current == {s \in ActivePlatform : \A r \in ActivePlatform : r <= s}

PriceOf(q) == Price[subs[payments[q].sub].plan]

-----------------------------------------------------------------------------
(* Subscribing, cancelling and asking for a payment *)

\* The plan was read and is active.  Every caller makes a payment of a plan
\* that has a price, except the admin (skipPayment).
BeginSubscribe(p, plan, pay) ==
  /\ plan \in PlatformPlans /\ (pay => Price[plan] > 0)
  /\ RoomForSub /\ (pay => RoomForPayment)
  /\ Enter(p, "cancelOthers", [NoContext EXCEPT !.plan = plan, !.pay = pay])
  /\ UNCHANGED tables

BeginCreatorSubscribe(p, plan) ==
  /\ plan \in CreatorPlans /\ RoomForSub /\ RoomForPayment
  /\ Enter(p, "insertSub", [NoContext EXCEPT !.plan = plan, !.pay = Price[plan] > 0])
  /\ UNCHANGED tables

CancelOthers(p) ==
  /\ pc[p] = "cancelOthers"
  /\ subs' = [s \in SubIds |->
       IF s \in ActivePlatform THEN [subs[s] EXCEPT !.status = "cancelled"] ELSE subs[s]]
  /\ Goto(p, "insertSub")
  /\ UNCHANGED <<payments, notes, ctx>>

InsertSub(p) ==
  /\ pc[p] = "insertSub"
  /\ \E s \in NextRow(subs, SubIds) :
       /\ subs' = [subs EXCEPT ![s] = [plan |-> ctx[p].plan, status |-> "active",
                                       periods |-> 0, by |-> ctx[p].by]]
       /\ IF ctx[p].pay
            THEN Goto(p, "insertPayment") /\ ctx' = [ctx EXCEPT ![p].sub = s]
            ELSE Finish(p)
  /\ UNCHANGED <<payments, notes>>

InsertPayment(p) ==
  /\ pc[p] = "insertPayment"
  /\ \E q \in NextRow(payments, PaymentIds) :
       payments' = [payments EXCEPT ![q] = [sub |-> ctx[p].sub, status |-> "pending", note |-> NoNote]]
  /\ Finish(p)
  /\ UNCHANGED <<subs, notes>>

\* The routes' pay: a payment for the current subscription, or for any of a
\* customer's, in whatever state it is.
BeginPay(p, s) ==
  /\ s \in Current \cup Creator /\ Price[subs[s].plan] > 0 /\ RoomForPayment
  /\ Enter(p, "insertPayment", [NoContext EXCEPT !.sub = s])
  /\ UNCHANGED tables

\* cancelTenantSubscription and the admin's DELETE: read, (Lago), then write.
BeginCancel(p, s) ==
  /\ s \in Current
  /\ Enter(p, "cancel", [NoContext EXCEPT !.sub = s])
  /\ UNCHANGED tables

Cancel(p) ==
  /\ pc[p] = "cancel"
  /\ subs' = [subs EXCEPT ![ctx[p].sub].status = "cancelled"]
  /\ Finish(p)
  /\ UNCHANGED <<payments, notes>>

CreatorCancel(p, s) ==
  /\ pc[p] = "idle" /\ s \in Creator
  /\ subs' = [subs EXCEPT ![s].status = "cancelled"]
  /\ UNCHANGED <<payments, notes, pc, ctx>>

-----------------------------------------------------------------------------
(* A notification that no order's payment matches, and the renewal it buys *)

\* createNotification and the order match that marks it unmatched; both are
\* taken apart in YapeMatching.
BeginSync(p, n, amount) ==
  /\ notes[n].status = "none"
  /\ Enter(p, "findPending", [NoContext EXCEPT !.note = n])
  /\ notes' = [notes EXCEPT ![n] = [amount |-> amount, payment |-> 0, status |-> "unmatched"]]
  /\ UNCHANGED <<subs, payments>>

\* Mutant: the amount is not compared.
CandidatesAnyAmount(amount) == {q \in PaymentIds : payments[q].status = "pending"}

Candidates(amount) == {q \in PaymentIds : payments[q].status = "pending" /\ PriceOf(q) = amount}

FindPending(p) ==
  /\ pc[p] = "findPending"
  /\ LET C == Candidates(notes[ctx[p].note].amount)
     IN  IF Cardinality(C) = 1
           THEN Goto(p, "confirm") /\ \E q \in C : ctx' = [ctx EXCEPT ![p].payment = q]
           ELSE Finish(p)
  /\ UNCHANGED tables

\* Mutant: confirmPayment without AND status = 'pending'.
ConfirmAnyStatus(p) ==
  /\ pc[p] = "confirm"
  /\ payments' = [payments EXCEPT ![ctx[p].payment].status = "confirmed",
                                  ![ctx[p].payment].note = ctx[p].note]
  /\ Goto(p, "markMatched")
  /\ UNCHANGED <<subs, notes, ctx>>

\* confirmPayment writes only a pending row; what it returns is ignored.
Confirm(p) ==
  /\ pc[p] = "confirm"
  /\ payments' = IF payments[ctx[p].payment].status = "pending"
                   THEN [payments EXCEPT ![ctx[p].payment].status = "confirmed",
                                         ![ctx[p].payment].note = ctx[p].note]
                   ELSE payments
  /\ Goto(p, "markMatched")
  /\ UNCHANGED <<subs, notes, ctx>>

\* matched_payment_id references payments(id) and gets a subscription payment's
\* id: written when some order's payment has that number (payment here: the
\* subscription payment meant), else the statement throws and nothing renews.
MarkMatched(p) ==
  /\ pc[p] = "markMatched"
  /\ \/ /\ notes' = [notes EXCEPT ![ctx[p].note].status = "matched",
                                  ![ctx[p].note].payment = ctx[p].payment]
        /\ Goto(p, "readPeriod")
        /\ UNCHANGED ctx
     \/ Finish(p) /\ UNCHANGED notes
  /\ UNCHANGED <<subs, payments>>

\* renewSubscription: a SELECT of the period, whatever the row's status.
ReadPeriod(p) ==
  /\ pc[p] = "readPeriod"
  /\ LET s == payments[ctx[p].payment].sub
     IN  ctx' = [ctx EXCEPT ![p].sub = s, ![p].periods = subs[s].periods]
  /\ Goto(p, "renew")
  /\ UNCHANGED tables

\* Mutant: the renewal is retried when the answer is lost.
RenewAgain(p) ==
  /\ pc[p] = "renew"
  /\ subs' = [subs EXCEPT ![ctx[p].sub].status = "active", ![ctx[p].sub].periods = @ + 1]
  /\ Finish(p) \/ UNCHANGED <<pc, ctx>>
  /\ ctx[p].periods <= 2 /\ subs[ctx[p].sub].periods <= 2
  /\ UNCHANGED <<payments, notes>>

\* Mutant: the UPDATE without AND id = $4.
RenewWholeTenant(p) ==
  /\ pc[p] = "renew"
  /\ subs' = [s \in SubIds |-> [subs[s] EXCEPT
       !.status = IF @ = "none" THEN @ ELSE "active",
       !.periods = IF s = ctx[p].sub THEN ctx[p].periods + 1 ELSE @]]
  /\ Finish(p)
  /\ UNCHANGED <<payments, notes>>

Renew(p) ==
  /\ pc[p] = "renew"
  /\ subs' = [subs EXCEPT ![ctx[p].sub].status = "active",
                          ![ctx[p].sub].periods = ctx[p].periods + 1]
  /\ Finish(p)
  /\ UNCHANGED <<payments, notes>>

\* A rejected await or a restart: what was written stays, the rest never is.
Abort(p) ==
  /\ Aborts /\ pc[p] \in Labels \ {"idle"}
  /\ Finish(p)
  /\ UNCHANGED tables

Step(p) ==
  \/ CancelOthers(p) \/ InsertSub(p) \/ InsertPayment(p) \/ Cancel(p)
  \/ FindPending(p) \/ Confirm(p) \/ MarkMatched(p) \/ ReadPeriod(p) \/ Renew(p)

Request(p) ==
  \/ \E plan \in Plans, pay \in BOOLEAN : BeginSubscribe(p, plan, pay)
  \/ \E plan \in Plans : BeginCreatorSubscribe(p, plan)
  \/ \E s \in SubIds : BeginPay(p, s) \/ BeginCancel(p, s) \/ CreatorCancel(p, s)
  \/ \E n \in Notes, plan \in Plans : BeginSync(p, n, Price[plan])

Next == \E p \in Procs : Request(p) \/ Step(p) \/ Abort(p)

Spec == Init /\ [][Next]_vars

-----------------------------------------------------------------------------
Matched(s) == {n \in Notes : notes[n].status = "matched" /\ payments[notes[n].payment].sub = s}

\* A subscription was extended at most once for each notification that was
\* matched to a payment of it (payment-service.ts:71-78): two syncs that take
\* the same payment, an aborted one, and two renewals that read the same
\* period never add a period that no transfer stands for.
PeriodsBacked == \A s \in SubIds : subs[s].periods <= Cardinality(Matched(s))

\* A confirmed payment names the notification that confirmed it: it was of the
\* plan's price, and it is matched to no other payment.
PaidInKind ==
  \A q \in PaymentIds : payments[q].status = "confirmed" =>
    /\ payments[q].note \in Notes
    /\ notes[payments[q].note].amount = PriceOf(q)
    /\ notes[payments[q].note].payment \in {0, q}

\* The notification a payment was confirmed by is never replaced, although
\* two syncs may both have read the payment as pending.
ConfirmedByFirst ==
  [][\A q \in PaymentIds : payments[q].status = "confirmed" => payments'[q] = payments[q]]_vars

\* A cancelled subscription becomes active again only when a notification was
\* matched to one of its payments; this does happen beside a newer one, since
\* the payment of a plan that was replaced stays pending.
RevivedOnlyByPayment ==
  [][\A s \in SubIds :
       subs[s].status = "cancelled" /\ subs'[s].status = "active" => Matched(s) # {}]_vars
=============================================================================
