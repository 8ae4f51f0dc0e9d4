---------------------------- MODULE PaymentIntents ----------------------------
(***************************************************************************)
(* Payment links of yaya_pay (yayapay-service.ts, yayapay-repo.ts, the     *)
(* webhook route and the agent's tools) over the subscriptions they        *)
(* activate.  yaya_pay itself is external: it creates an intent, settles   *)
(* it once, and delivers each event at least once, in any order, as long   *)
(* as the route has not answered 200.                                      *)
(***************************************************************************)
EXTENDS Subscriptions

CONSTANT Amounts  \* what an intent may ask for

Intents == Sources
Kinds == {"created", "succeeded", "canceled", "expired"}

ASSUME IntentsAssumption == Amounts \subseteq Nat

VARIABLES provider,    \* yaya_pay's own record of each intent
          intents,     \* the yayapay_intents table
          recorded,    \* yayapay_webhook_events: <<intent, kind>>
          at, hold,    \* where each request of this module stands, and with what
          fate         \* how the payment of an intent ended here (for the properties)

intentVars == <<provider, intents, recorded, at, hold, fate>>
allVars == <<vars, intentVars>>

Provider == [status : Kinds \cup {"none"}, plan : PlatformPlans \cup {NoPlan}, amount : Amounts \cup {0}]
Intent == [status : Kinds \cup {"none"}, tenant : BOOLEAN, succeededAt : BOOLEAN]
Hold == [intent : Intents \cup {Nobody}, status : Kinds \cup {"none"}]
NoHold == [intent |-> Nobody, status |-> "none"]

IntentsTypeOK ==
  /\ TypeOK
  /\ provider \in [Intents -> Provider]
  /\ intents \in [Intents -> Intent]
  /\ recorded \subseteq Intents \X Kinds
  /\ at \in [Procs -> {"idle", "store", "upsert", "activate", "subscribing"}]
  /\ hold \in [Procs -> Hold]
  /\ fate \in [Intents -> {"open", "activated", "refused", "lost"}]

IntentsInit ==
  /\ Init
  /\ provider = [i \in Intents |-> [status |-> "none", plan |-> NoPlan, amount |-> 0]]
  /\ intents = [i \in Intents |-> [status |-> "none", tenant |-> FALSE, succeededAt |-> FALSE]]
  /\ recorded = {}
  /\ at = [p \in Procs |-> "idle"]
  /\ hold = [p \in Procs |-> NoHold]
  /\ fate = [i \in Intents |-> "open"]

Free(p) == pc[p] = "idle" /\ at[p] = "idle"
Start(p, label, i, st) ==
  Free(p) /\ at' = [at EXCEPT ![p] = label] /\ hold' = [hold EXCEPT ![p] = [intent |-> i, status |-> st]]
Leave(p) == at' = [at EXCEPT ![p] = "idle"] /\ hold' = [hold EXCEPT ![p] = NoHold]
Settle(i, outcome) == fate' = [fate EXCEPT ![i] = outcome]

\* upsertIntent: on conflict the status is overwritten, succeeded_at only
\* filled in, and tenant_id left as it is.
Upsert(i, st, tenant) ==
  intents' = [intents EXCEPT ![i] =
    IF @.status = "none" THEN [status |-> st, tenant |-> tenant, succeededAt |-> st = "succeeded"]
    ELSE [@ EXCEPT !.status = st, !.succeededAt = @ \/ st = "succeeded"]]

-----------------------------------------------------------------------------
(* The agent's tools *)

\* createPayment: yaya_pay has the intent before the local row is written.
CreateLink(p, i, plan, amount) ==
  /\ provider[i].status = "none" /\ plan \in PlatformPlans
  /\ provider' = [provider EXCEPT ![i] = [status |-> "created", plan |-> plan, amount |-> amount]]
  /\ Start(p, "store", i, "created")
  /\ UNCHANGED <<vars, intents, recorded, fate>>

\* checkPaymentStatus: the row must exist; what yaya_pay answers is stored later.
CheckStatus(p, i) ==
  /\ intents[i].status # "none"
  /\ Start(p, "store", i, provider[i].status)
  /\ UNCHANGED <<vars, provider, intents, recorded, fate>>

CancelLink(p, i) ==
  /\ intents[i].status # "none" /\ provider[i].status = "created"
  /\ provider' = [provider EXCEPT ![i].status = "canceled"]
  /\ Start(p, "store", i, "canceled")
  /\ UNCHANGED <<vars, intents, recorded, fate>>

\* Only createPayment may insert the row, and then names the tenant.
Store(p) ==
  /\ at[p] = "store"
  /\ Upsert(hold[p].intent, hold[p].status, hold[p].status = "created")
  /\ Leave(p)
  /\ UNCHANGED <<vars, provider, recorded, fate>>

\* External: the customer pays, or the link expires.
ProviderSettles(i, st) ==
  /\ provider[i].status = "created" /\ st \in {"succeeded", "expired"}
  /\ provider' = [provider EXCEPT ![i].status = st]
  /\ UNCHANGED <<vars, intents, recorded, at, hold, fate>>

-----------------------------------------------------------------------------
(* The webhook: handleEvent *)

Happened(e) == provider[e[1]].status = e[2] \/ (e[2] = "created" /\ provider[e[1]].status # "none")

\* Mutant: one row per intent: a second event of it is a duplicate.
DeliverPerIntent(p, e) ==
  /\ Happened(e) /\ Free(p)
  /\ recorded' = recorded \cup {e}
  /\ IF \E k \in Kinds : <<e[1], k>> \in recorded THEN UNCHANGED <<at, hold>> ELSE Start(p, "upsert", e[1], e[2])
  /\ UNCHANGED <<vars, provider, intents, fate>>

\* Mutant: recordEventIfNew is not consulted.
DeliverAgain(p, e) ==
  /\ Happened(e) /\ Free(p)
  /\ recorded' = recorded \cup {e}
  /\ Start(p, "upsert", e[1], e[2])
  /\ UNCHANGED <<vars, provider, intents, fate>>

\* recordEventIfNew: an event id that is there already is answered with 200.
Deliver(p, e) ==
  /\ Happened(e) /\ Free(p)
  /\ recorded' = recorded \cup {e}
  /\ IF e \in recorded THEN UNCHANGED <<at, hold>> ELSE Start(p, "upsert", e[1], e[2])
  /\ UNCHANGED <<vars, provider, intents, fate>>

UpsertEvent(p) ==
  /\ at[p] = "upsert"
  /\ Upsert(hold[p].intent, hold[p].status, FALSE)
  /\ IF hold[p].status = "succeeded" THEN at' = [at EXCEPT ![p] = "activate"] /\ UNCHANGED hold ELSE Leave(p)
  /\ UNCHANGED <<vars, provider, recorded, fate>>

\* tryActivateFromClientRef: the local row must name the tenant and the amount
\* cover the plan, else nothing happens and the answer is still 200.
Activate(p) ==
  /\ at[p] = "activate"
  /\ LET i == hold[p].intent
     IN  IF intents[i].tenant /\ provider[i].amount >= Price[provider[i].plan]
           THEN /\ Enter(p, "cancelOthers", [NoContext EXCEPT !.plan = provider[i].plan, !.by = i])
                /\ at' = [at EXCEPT ![p] = "subscribing"]
                /\ UNCHANGED <<hold, fate>>
           ELSE Leave(p) /\ Settle(i, "refused") /\ UNCHANGED <<pc, ctx>>
  /\ UNCHANGED <<tables, provider, intents, recorded>>

RunSubscribe(p) ==
  /\ at[p] = "subscribing"
  /\ \/ CancelOthers(p) /\ UNCHANGED <<at, hold, fate>>
     \/ InsertSub(p) /\ Leave(p) /\ Settle(hold[p].intent, "activated")
  /\ UNCHANGED <<provider, intents, recorded>>

\* A rejected statement (500, or swallowed by tryActivateFromClientRef) or a
\* stop of the process, after the event was recorded.
Interrupt(p) ==
  /\ Aborts /\ at[p] # "idle"
  /\ Leave(p)
  /\ IF at[p] # "store" /\ hold[p].status = "succeeded"
       THEN Settle(hold[p].intent, "lost")
       ELSE UNCHANGED fate
  /\ pc' = [pc EXCEPT ![p] = "idle"] /\ ctx' = [ctx EXCEPT ![p] = NoContext]
  /\ UNCHANGED <<tables, provider, intents, recorded>>

\* A request of Subscriptions, in a process this module does not occupy.
Other(p) ==
  /\ at[p] = "idle"
  /\ Request(p) \/ Step(p) \/ Abort(p)
  /\ UNCHANGED intentVars

Handle(p) == Store(p) \/ UpsertEvent(p) \/ Activate(p) \/ RunSubscribe(p)

IntentsNext ==
  \/ \E p \in Procs : Other(p) \/ Handle(p) \/ Interrupt(p)
  \/ \E p \in Procs, i \in Intents, plan \in Plans, amount \in Amounts : CreateLink(p, i, plan, amount)
  \/ \E p \in Procs, i \in Intents : CheckStatus(p, i) \/ CancelLink(p, i)
  \/ \E i \in Intents, st \in Kinds : ProviderSettles(i, st)
  \/ \E p \in Procs, e \in Intents \X Kinds : Deliver(p, e)

IntentsSpec == IntentsInit /\ [][IntentsNext]_allVars

\* PostgreSQL answers every statement; yaya_pay delivers an event until it is
\* acknowledged, so each at least once while a process is free to take it.
Fairness ==
  /\ \A p \in Procs : WF_allVars(Handle(p)) /\ WF_allVars(at[p] = "idle" /\ Step(p) /\ UNCHANGED intentVars)
  /\ \A i \in Intents, k \in Kinds :
       SF_allVars(<<i, k>> \notin recorded /\ \E p \in Procs : Deliver(p, <<i, k>>))

IntentsFairSpec == IntentsSpec /\ Fairness

-----------------------------------------------------------------------------
\* An intent that was paid does not stay open: it activates its plan, is refused
\* (it does not cover the plan, or its event came before createPayment stored
\* the row), or its handling was interrupted after the event was recorded.
PaidIsSettled ==
  \A i \in Intents : provider[i].status = "succeeded" ~> fate[i] # "open"

\* What yaya_pay is owed: each intent activates at most one subscription, and
\* only after it was paid.
Grants == INSTANCE GrantOnce WITH
  Claims <- Intents,
  paid <- {i \in Intents : provider[i].status = "succeeded"},
  granted <- [i \in Intents |-> Cardinality({s \in SubIds : subs[s].by = i})]
GrantedOnce == Grants!Spec
=============================================================================
