# A TLA+ verification of autobot, its billing, its WhatsApp API and its phone app

`autobot` (`src/autobot/src`) runs a WhatsApp sales assistant for many businesses
("tenants"): a worker thread per tenant keeps a WhatsApp session, messages go
through a Redis queue to an AI agent, and the agent, the dashboard, an admin
and a merchant's phone that forwards payment notifications write orders, payments,
subscriptions and stock in PostgreSQL. `src/services/yaya-api` is the single-machine
form of the assistant, with a WhatsApp link of its own; `src/android` is the app on the
phone. The specifications here model the parts of all three where several actors
meet on shared state. The rest of the repository is listed below.

## Inventory

Paths are relative to `src/autobot/src` unless they say otherwise.

| Component | State it keeps | Operations | What must hold |
|---|---|---|---|
| Orders and payments: `services/order-service.ts`, `db/{orders,payments,refunds}-repo.ts`, the dashboard and admin routes | rows of `orders`, `payments`, `refunds` | create, confirm, cancel, request payment, mark paid, refund, modify, the delivery steps, the dashboard's raw status, the admin's expire | a paid order is backed by a confirmed payment, of its total; refunds only of confirmed payments; confirmations are final; orders follow `TRANSITIONS` |
| Payment expiration: `queue/payment-expiration-scheduler.ts` | one BullMQ job per stale order | scan, cancel, restock, expire payments, notify; retried from the start | an order paid meanwhile is left alone; units come back once |
| Stock: transactions of `orders-repo.ts`, the admin's expire | `products.stock`, `order_items`, row locks | create, modify, expire, restock, the unlocked status writes | never negative; nothing created or lost; deadlocks end |
| Yape matching: `services/payment-service.ts`, `ai/tools/yape-tools.ts`, `web/routes/api-{yape,admin}.ts` | `yape_notifications`, `payments.reference` | sync, match, the subscription half's mark, the agent's tool, the admin's match and dismiss | one transfer pays one order, of its amount |
| Subscriptions: `services/subscription-service.ts`, the `*-subscriptions-repo.ts` and `subscription-payments-repo.ts`, their routes, the subscription half of `payment-service.ts` | `tenant_subscriptions`, `customer_subscriptions`, `subscription_payments` | subscribe, cancel, pay, renew by notification | no period that no transfer paid for; a payment is confirmed once |
| Payment links: `services/yayapay-service.ts`, `db/yayapay-repo.ts`, the webhook route, the agent's tools | `yayapay_intents`, `yayapay_webhook_events`; yaya_pay's own record | create, check, cancel, the webhook's events | a paid link activates one subscription, and none stays open |
| Tenant workers: `bot/{tenant-manager,worker-bridge,worker,health-check}.ts` | the map of bridges, each bridge's promise table and timers, the thread's session | start, stop, reset, send, reconnect, respawn | one worker, known to the manager; no call without an answer; dead workers replaced |
| AI jobs: `queue/{ai-queue,rate-limiter,queue-factory}.ts`, `ai/hermes-bridge.ts` | BullMQ jobs; the tenant's slots and window in Redis | enqueue, take, delay, retry, answer, stall | concurrency limit; texts sent per attempt; every job ends |
| Task engine: `ai/task-engine.ts`, the event stream of `web/routes/api-agente.ts` | a map of tasks and listeners in memory, the clients' streams | assign, cancel, wait for another, end, tell | in order; nobody is left waiting for one that ended; every end is told |
| Warehouse: `warehouse/etl-runner.ts` | `wh_etl_checkpoints`, the fact tables | a cycle over four tables every fifteen minutes | every row once |
| WhatsApp link: `src/services/yaya-api/{whatsapp,onboarding,server}.ts` | one manager's socket, user, status and timer; credentials and messages in SQLite | connect, disconnect, open, close, reconnect, receive, answer | one live socket, the right one; a lost link returns; every message ends |
| Phone: `src/android` `PaymentRepository.kt`, `SyncWorker.kt`, `SyncScheduler.kt`, `YapeNotificationListener.kt` | captured payments with their sync status, two WorkManager works | capture, deduplicate, upload, retry, log out | every captured payment reaches the server; what says so is so |
| Appointments, cart, confirmation flow, follow-ups, keys, model router, RL, media, leads, catalog | tables, Redis keys or process memory of their own | see `PROJECT.json` | not modelled, with the reason there |
| Web, auth, integrations, voice, dashboard, gateways, deployment | mostly none | forms, formats, I/O | not modelled |

How they interact: the HTTP routes, the agent's tools, the queue workers and the
timers all run in one Node.js process and interleave at every `await`; the tenant
workers are threads that exchange messages with it. What they share is
PostgreSQL (single statements, except the three transactions of
`orders-repo.ts` and the admin's expire) and Redis. `payment-service.ts` calls
`orderService.markPaid`; the expiration job and the admin write
orders past the service; the agent's tool writes payments and orders by itself. A
notification that no order's payment matches goes on to the subscriptions, which mark it
too; a yaya_pay event activates one as well. The phone's captures become the notifications of the Yape
matching. The process can stop anywhere: what it held in memory is gone,
PostgreSQL, Redis and the jobs are not.

`PROJECT.json` names every hazard at its line, with the properties that watch it.

## Modules

| Module | What it is |
|---|---|
| `OrderTable` | the statuses and the table `TRANSITIONS` of `order-service.ts` |
| `OrderLifecycle` | the abstract order: it moves along the table and does nothing else |
| `OrderPayments` | orders, payments, refunds and the expiration job, one action per awaited statement; implements `OrderLifecycle` when requests do not overlap |
| `YapeMatching` | extends `OrderPayments` with the notifications and their five writers |
| `StockLedger` | the products' stock under row locks, commits, rollbacks and the job |
| `Subscriptions` | platform and creator subscriptions, their payments and renewals |
| `PaymentIntents` | extends `Subscriptions` with payment links and their webhook; implements `GrantOnce` |
| `GrantOnce` | the abstract grant: a claim that was paid is granted at most once |
| `TenantSupervision` | manager, bridges, thread, mailbox, sends and health check of one tenant |
| `AIQueue` | the jobs of one tenant with its slots and its rate window |
| `TaskEngine` | tasks that wait for one another, their runs and the streams |
| `WarehouseETL` | overlapping cycles, checkpoints and late commits |
| `WhatsApp` | the single-machine API's manager, its sockets and timers, and the messages answered over it |
| `PhoneSync` | captures, the phone's table and the two works that send it |
| `OrderPaymentsProofs`, `StockLedgerProofs`, `BotProofs`, `BillingProofs`, `TaskEngineProofs`, `WarehouseProofs`, `WhatsAppProofs`, `PhoneSyncProofs` | the theorems |
| `MC...` | definitions that give constants their values for TLC |

**OrderPayments.** `status`, `total`, `payments` and `refunds` are the tables.
A request `p` stands at `pc[p]` with what it read in `ctx[p]`, as the local
variables of an async function do: `BeginRequestPayment` is the read of the order
with its transition check, `FindPending` the query, `CreatePayment` the INSERT,
`WriteStatus` the UPDATE. A function that runs in a transaction (`CreateOrder`,
`ModifyOrder`, `AdminExpire`) is one action here. With `Aborts` an
await may reject at any statement, or the process restart. `job` is the expiration job: `Scan` adds it under its id,
once for ever (BullMQ ignores an id it still has), the four steps follow, and
`JobFails` starts over or, at the last attempt, ends it. `byHand` remembers which
orders' status the dashboard wrote, since that route takes any status.

**YapeMatching.** `notif` is the table by hash. Steps of a writer are at
`step[p]`; inside `markPaid` it runs the actions of `OrderPayments`. `reference`
records which notification confirmed a payment, and by which writer. `MatchSubscription`
is the fifth writer, `matchSubscriptionPayment`: it writes the id of a
`subscription_payments` row into `matched_payment_id`, which references `payments(id)`, so the
statement throws, or the column names whichever order payment has that number; `table`
remembers which table was meant. The agent's
tool is modelled as written: it compares the notification's status with
`'MATCHED'`, in capitals, and creates the payment it does not find. What the code
tells apart by fuzzy names and amounts is a set of amounts here.

**StockLedger.** The transactions of `orders-repo.ts` statement by statement.
`Sees(p, x)` is the stock as `p` sees it, its own uncommitted `delta` included;
`MayUpdate`, `MayLock` and `MayShare` are PostgreSQL's row locks (an INSERT of an
item share-locks the product it refers to), and a deadlock is broken by `Rollback` of one of those in
the cycle. `requestPayment` checks a row it read without a lock and updates by id after more
awaits; as every order was pending once, `RequestPayment` may write over a cancellation, which revives
the order. The expiration job has no transaction: it reads the items once (`JobReadItems`)
and gives those back, whatever a revived order becomes meanwhile. `returned` is history: how many units of
each product the jobs and the admin gave back. Units are counted as sets: `Units(items, x)` has a member
for each unit of `x`, and `Named(x)` one for each that some order names, so
that a total is a `Cardinality`. Stock that is NULL (untracked) and prices are left out.

**Subscriptions and PaymentIntents.** The two subscription tables are `subs`, told
apart by their plans. `periods` counts how often `renewSubscription` moved the end of
the period: it reads (`ReadPeriod`) and writes (`Renew`) in two statements, as the
code does, so that two renewals may write the same end. `BeginSync` starts where
the order half of `payment-service.ts` has found nothing. `PaymentIntents` has labels
of its own in `at` and runs `CancelOthers` and `InsertSub` of `Subscriptions` from
inside the webhook. `provider` is yaya_pay, which is external: it settles an intent
once and repeats an event until the route answers 200. `recorded` is the table
that makes a repeated event a duplicate; it is written before the event is handled, so
an interrupted delivery is never resumed, and `fate` remembers how each intent
ended.

**TenantSupervision.** `map` is `TenantManager.bridges.get`, `bridge[b]` what the
main thread knows of it (has it a worker, is it alive, is its start timer set),
`thread[b]` the worker itself, `inbox[b]` the messages on the way. `overlaps` is history: the
bridge was started while a stop of an earlier one waited. Everything
between two awaits is one action, since the main thread runs one callback at
a time. Timers are untimed: one that is set may go off at any later moment, in
any order with the others.

**AIQueue.** The `at` of a job names the await of `processAIJob` it stands at.
BullMQ is the actions `Take`, `Failed`, `Delayed` and `Recover`; the slots are
the sorted set of `rate-limiter.ts`, whose old entries are `stale`. Two points
follow the code rather than its intent: `moveToDelayed` is called with the job's id
where BullMQ wants a lock token, so the model lets it succeed or throw, and
`processWithHermes` never throws, so `Answer` lets a job go on with or without
the customer having anything. Logging the reply may fail after it went out; the catch then
`Apologise`s in the same attempt. `texts` counts what was sent since an attempt was last
counted.

**TaskEngine.** An `emit` calls its listeners before it returns, and a listener
may emit in turn: so `CompleteTask` and `FailTask` are one action with all the
listeners they reach, and `Fails(t)` is the set of tasks a failure passes through, the
least one closed under "waits for". A waiter is a task in `waiting`; the code never
removes the listener of a task that was cancelled, and neither does the model.

**WarehouseETL.** A cycle is a record with the statement it is at, the table and
what it read. Rows of a table are numbered as their ids; `Commit` makes them visible in
any order. `facts` counts the copies of each line of a query up to 2 (of a table without
numeric ids, or once disturbed, only whether there is one). The query of the orders joins
their payments and groups by method and status, so an order is as many lines as its payments have
pairs of the two: `Widths` lets each unread order have any number up to `MaxLines`, and `Chunks` lets
`LIMIT` cut between two lines of one. `late`, `seen` and `disturbed` are
history: they name the circumstances under which the code does not promise a copy, or
not just one.

**WhatsApp.** `sock`, `userId`, `status`, `timers` and `tracked` are the fields of
the manager (`tracked`: does `this.reconnectTimer` still name the youngest timer),
`socket` the sockets that exist whether it holds them or not. `Connect` and
`Resume` are the two halves of `connect`, around its first await. The close
handler acts on `this`, not on the socket it was registered for, and so does
`Close`. A message is `hearing`, `thinking`, `speaking` or `answered` while its handler awaits; `Finish`
is what follows the answer, whose failure sends an apology after it; `through` is the set of users
over whose sockets the message was answered.
`Unhandled` is a rejection that nobody takes, which ends the process.

**PhoneSync.** A capture is a coroutine of three statements: `Check`, `Insert`,
`Schedule`. A work reads its rows, writes `SYNCING` one by one, calls the backend
and writes `SYNCED` or `FAILED` one by one; `update` writes the row as it was read, so a slow
work may overwrite a fast one. `young` stands for the two minutes of the duplicate
check. `Cut` is any end of a work in the middle: the rows stay as they are and the
backend has any part of what was being sent. The backend knows texts, not transfers: a
notification has no unique code, so two transfers of one payer and amount have one `Text`, and
it answers the second with the row of the first.

## Runs

Bounds are the constants named "(bound)" in the modules: rows, refunds, bridges,
crashes, faults, sends, sockets, timers, lines of an order, changes to an order. The other constants are
parameters of the program.

| Run | Question | Instance and why it is enough |
|---|---|---|
| `orders_concurrent` | which safety survives every interleaving and every lost await | two requests of any operation, dashboard, admin and job with two attempts on one order, two payments; the properties relate one order to its payments, and two requests are every pair of conflicting handlers |
| `orders_serial` | what the service guarantees without overlap: it implements `OrderLifecycle` and an order is paid in full | two orders with two totals and one request at a time, so that a payment of the wrong order or amount would show; `modifyOrder` is left out because it changes the total of an order already requested |
| `yape_all` | what holds of notifications under all five writers, retries and failures | one notification, two orders of two amounts, two payments, two requests |
| `yape_v_reuse` | finding: a used notification pays a second order | the sync, then the agent |
| `stock` | stock is never negative, exact, and every transaction ends | two products that two orders name in opposite order (deadlocks happen), a job with two attempts, any statement may fail, one modification or one late requestPayment that revives an order (both in one behaviour, a revived order that is modified under its job, are left to the theorems) |
| `billing` | no free period, no unpaid or repeated activation, every paid link settles | two requests, two notifications, two subscriptions asked for and one by a link, two payments, any statement may fail; two syncs of one payment and an event that overtakes or repeats another need no more |
| `tenants` | no second worker but beside one started while a stop waited, no lost send, every operation ends, a worker that gave up and fell silent is stopped | a caller and the health check, two bridges, one send, one crash, one reconnect attempt |
| `ai_jobs` | limit, texts sent per attempt, every job ends | two jobs for one slot and one message per minute, two attempts, one offline delay, one stall, one crash; with two jobs each is the other's obstacle |
| `tasks` | order of dependent tasks, waiting, revival, and that ends are told | three tasks, each after any other or itself (chains, forks, loops), one stream that comes and goes |
| `warehouse` | nothing skipped, no line copied twice undisturbed, everything copied that is due | a table with UUIDs, then the orders: two rows each, orders of one or two lines, a batch of two lines (so a batch may be all rows, one row, or cut an order), two cycles that may overlap, one fault; the UUID rows after the first batch, which the code never reads, are beyond this instance |
| `whatsapp` | one link, answers from the right number, the link returns, messages end | two users, two sockets and two connects at a time, two timers, one message, one fault, one question of the onboarding |
| `phone` | what says SYNCED has its text at the backend, one row per transfer, everything captured is synced | two transfers of one payer and one text, both works, two retries, two faults, kills and a logout |

`MCBilling` and `MCWhatsApp` look at two slices of their module, and every
behaviour is in one from its first state. In `MCBilling` they are the behaviours without
payment links and those without notifications and creator plans: both halves meet
only in `subs`, and the theorems hold of all behaviours. In `MCWhatsApp` they are the
behaviours without messages, with the full range of connects and timers, and those
with messages, in which one connect is under way at a time and one timer is armed.

`CHECK_DEADLOCK FALSE` is set in all of them because these systems may
stop: all orders end, all jobs end, the rows, tasks and bridges of the bound are used up. The
liveness properties say what must not stop. `orders_concurrent` and `yape_all` use symmetry
and check no liveness.

Each property has a mutant in its module (a definition after a comment "Mutant:") that a
plausible slip in that code would make of it, under which the run fails.

### Fairness

- `StockLedger!FairSpec`: strong fairness of each request's next statement.
  PostgreSQL executes what it was sent, its lock queue is first come first
  served, and the deadlock detector is part of `Advance`.
- `PaymentIntents!Fairness`: weak fairness of every statement in flight, and, for
  each event not yet recorded, strong fairness of its delivery while some request may take it:
  yaya_pay repeats an event until it is acknowledged. Nothing is assumed of
  customers.
- `TenantSupervision!Fairness`: weak fairness of the operations' continuations
  (queries answer, `setTimeout` fires), of a terminated thread's exit, of the heartbeat
  timer, the health check's interval and its cooldown. Nothing is assumed of the
  connection, of callers, or of a thread reading its messages.
- `AIQueue!FairSpec`: weak fairness of each job's next step and of the ageing of
  slots. BullMQ promotes delayed jobs and re-offers stalled ones, Hermes and the
  sends have timeouts, and time passes. `Park` and `Yield` may still delay
  a job for as long as no slot comes free.
- `TaskEngine!FairSpec`: weak fairness of the end of each run and of each speech: an
  agent has at most eight steps and its services answer or reject.
- `WarehouseETL!FairSpec`: weak fairness of the interval timer and of each
  statement.
- `WhatsApp!Fairness`: weak fairness of the reconnect timer, of what `connect`
  awaits and of the steps of a message's handler. Nothing is assumed of WhatsApp: a socket
  may open or not.
- `PhoneSync!FairSpec`: weak fairness of each work's next step. WorkManager runs
  what is due while there is a network, and requests end.

### Where the code and its documents differ

One divergence has a run of its own, `yape_v_reuse`: the agent's guard against a
used notification compares with a status nobody writes (`ai/tools/yape-tools.ts:140`,
whose comment at `:139` says `Refuse to mark a notification that's already matched
somewhere else.`).

The models reach the following too; each is what the code does, and where a
property would exclude it, the property names it as its exception:

- The expiration job cancels an order without looking at its status, also one
  paid since the scan (`queue/payment-expiration-scheduler.ts:24`); neither the table at
  `services/order-service.ts:17` nor `autobot/docs/ARCHITECTURE.md:307-325` has a
  step from `paid` to `cancelled`.
- `requestPayment` returns early on the payment that an interrupted call left, and
  the order never becomes `payment_requested` (`order-service.ts:109`).
- `createOrder` ignores that its guarded UPDATE changed no row (`db/orders-repo.ts:99`),
  where `autobot/README.md:24` says `Creates orders, calculates totals, and decrements
  stock atomically`.
- The health check skips a bridge whose worker has exited (`bot/health-check.ts:25`),
  where `autobot/KNOWN_ISSUES.md:570-571` says it `detects dead workers (no heartbeat in
  30s), and respawns them`.
- `stopTenant` deletes by key, two seconds later, whatever bridge is there
  (`bot/tenant-manager.ts:158`), where `KNOWN_ISSUES.md:551-553` calls it verified. A worker
  started in between runs on unknown to the manager, and the next start puts a second one
  beside it: `OneWorker` names this exception.
- A worker whose retry throws a second time keeps its heartbeat: the second throw is swallowed
  (`bot/worker.ts:94`), where `worker.ts:88-90` and `KNOWN_ISSUES.md:573-575` say that a failed
  chain of retries stops it. The health check never stops that worker
  (`GivenUpIsStopped` leaves the session `lost` out).
- The subscription half marks a notification with the id of a `subscription_payments` row
  (`services/payment-service.ts:71-72`), where the column references `payments(id)`
  (`schema.sql:294`): it throws after the payment was confirmed, and nothing renews, or the
  notification names an unrelated order payment. `UsedIsConfirmed` is about the other writers.
- `requestPayment` revives an order that was cancelled between its check and its UPDATE
  (`order-service.ts:98-116`), also one whose units the job is giving back.
- A message of the owner to himself is stored before the test for the bot's own echo
  finds it, and so is always skipped (`src/services/yaya-api/whatsapp.ts:365` and
  `:379-388`, where `:380` says the test is for what `was sent by us (bot)`).
- A payment that failed to sync is never sent again: the retry reads `UNSYNCED` rows
  only, where `src/android/README.md:173-174` and `:338-341` promise retries with
  backoff.
- After a logout and a login the phone's periodic work is not enqueued until the
  process starts again.
- The server's deduplication by hash has no window
  (`db/yape-notifications-repo.ts:39`), while the phone's is two minutes: a second transfer of one
  payer and amount is captured, marked SYNCED and never taken in. `SyncedIsKnown` is therefore
  about texts.
- The phone's slow work writes the row it read over what the fast one wrote, SYNCED included
  (`PaymentRepository.kt:44`, `:70`): `SyncedStays` exempts rows both had read.
- Two captures that check before either inserts are both kept
  (`service/YapeNotificationListener.kt:57`): `CapturedOnce` exempts their payers.
- Two overlapping refunds of one order are both written (`order-service.ts:145`), and
  so are two pending payments (`:116`). `RefundBacked` does not count refunds, and
  `ImplementsLifecycle` is for requests that do not overlap.
- `modifyOrder` changes the total of an order whose payment is requested or confirmed
  (`db/orders-repo.ts:366`): `PaidInFull` is for behaviours without it.
- Two syncs of two notifications may take one payment for theirs
  (`payment-service.ts:26`), and a single match for an order that cannot be paid leaves
  the notification pending (`:33`).
- The agent pays cancelled orders (`yape-tools.ts:135`); a dismissal overwrites a match
  (`web/routes/api-admin.ts:405`); `rejectPayment` updates a column `payments` does not
  have.
- Job and admin may both give the same units back, and `cancelOrder` gives
  back none.
- A customer who has the answer may get an apology for it after all, when logging the answer fails
  (`queue/ai-queue.ts:173-181`, `src/services/yaya-api/whatsapp.ts:470`, `:483-492`), and the
  retry answers again: `TextsCounted` limits the texts by the attempts.
- A reply that could not be sent completes its job and is logged as sent, where
  `autobot/docs/ARCHITECTURE.md:458` expects a retry; a job delayed for want of a
  slot is logged and counted by the rate limit on every pass.
- A paid link whose event was recorded and then interrupted is never activated, nor is one
  whose event overtook the row of `createPayment` (`services/yayapay-service.ts:115`,
  `:178`): `PaidIsSettled` counts both as its outcomes `lost` and `refused`.
- A task that waits for one that was cancelled, or had ended before, waits for ever; a task
  cancelled while it waited is started by the end of the other
  (`ai/task-engine.ts:219-227`).
- The checkpoint of a table with UUIDs stays 0, so its first batch is copied in every
  cycle and later rows never (`warehouse/etl-runner.ts:135`). `CopiedOnce` and
  `EventuallyCopied` say so.
- An order with payments of different methods or statuses is a transaction for each pair of them,
  each with the order's whole total, and the join multiplies its count of items
  (`etl-runner.ts:145-158`). Where `LIMIT` cuts between its lines the rest is never
  copied. Rows that commit after one with a larger id was read are never copied either (`:48`).
- A stop between the INSERT and the checkpoint, or an overlap, copies a batch twice
  (`etl-runner.ts:77-85`).
- When two connects cross, or a connect and a disconnect, a socket stays alive that nobody
  holds (`src/services/yaya-api/whatsapp.ts:124`, `:165`), and an answer may go out from another
  user's number when one connected while the agent thought (`:465`). `POST /whatsapp/send`
  (`server.ts:559-566`) sends over the same field for whichever user is connected.
- A question of the onboarding that cannot be sent ends the process, with every answer under
  way (`whatsapp.ts:395`): `MessagesEnd` counts those as lost.

## Proofs

All eight proof modules are about the modules TLC checks, for every value of the
constants that satisfies the named ASSUME of the module (`ConstantsAssumption`,
`StockAssumption`, `AIQueueAssumption`, `SubscriptionsAssumption`, `IntentsAssumption`,
`TaskAssumption`, `WarehouseAssumption`, `WhatsAppAssumption`, `PhoneAssumption`,
`TenantAssumption`, `YapeAssumption`: bounds
are naturals, an absent value is none of the present ones, baskets are
not empty). They assume no fairness, and, unless an ASSUME says so, no finiteness of
orders, products, requests, users or jobs (`StockAssumption` takes the orders to be
finitely many, as the ids of a SERIAL column are). Further conditions stand in the
theorem itself.

- `OrderPaymentsProofs`: `TypeCorrect`, `RefundsAreBacked`,
  `ConfirmationIsFinal`, `PaidOrdersAreBacked`, `PaidOrdersInFull`, `FollowsTheTable`.
  `PaidBacked` is not inductive: a
  request about to write a paid status must have the money already. `Requests`
  adds what a request holds at each label (a payment about to be confirmed is its
  order's, one about to be refunded is confirmed, a job has an attempt left), and
  `Money` adds `WriteReady`. The key lemma is `StepKeepsConfirmed`: no step takes
  a confirmation back or moves a payment to another order. `PaidOrdersInFull` is for
  any concurrency but without `modifyOrder` and the dashboard's status; `Priced` says that
  every payment, and every one about to be inserted, is of its order's total. `FollowsTheTable` is
  the refinement of `OrderLifecycle` for requests that come one at a time; `Legal`
  says that a request that will write a status may do so from the one the order has.

  The same module proves of `YapeMatching` `YapeTypesHold`, `YapeConfirmationIsFinal`,
  `YapeRefundsAreBacked`, `YapePaidOrdersAreBacked`, `UsedNotesAreConfirmed` and
  `SyncedNotePaysOnce`. `Working` takes over `Requests` and adds what each of the
  writers knows at each label (`Works`): inside `markPaid` the request of `OrderPayments`
  carries the same payment, and whoever is about to pay an order or close a notification
  holds a confirmed payment. What others may do meanwhile is in `RowsStay`: no step makes a
  payment disappear, moves it to another order or takes its confirmation back.
  `Used` is then inductive. `SyncPaysOnce` is not: it needs `SoleWriter`,
  that only the request that inserted a notification's row goes on with it, that there
  is at most one of those, and that until its statement in `markPaid` no payment has
  been confirmed with that notification; an interrupted request leaves a row that every
  repeated call finds.
- `StockLedgerProofs`: `ControlHolds`, `NoOverselling`, `StockTypesHold` and `NoUnitLost`.
  `Control` says that a
  transaction that changes an order holds its lock, that nobody else creates that
  order, and that every index into a basket, or into the list a job read, is within it. `Solvent` says that
  what each transaction would commit is no less than nothing, and that whoever
  has changed a product holds its row; it needs `Control` for the items'
  quantities. The lemma `Moves` sums up the three statements that change a stock.
  `NoUnitLost` is by `Books`: between the statements of a transaction the books do
  not add up, and `Balanced` says by how much, its `delta` being the lines given back
  (`Back`) less the lines taken (`Taken`) so far. Totals are cardinalities of
  disjoint unions, so one line more, or one order's items replaced, is a matter of
  finite sets and no induction over sums is needed.
- `BotProofs`, of `AIQueue`: `TypeCorrect`, `AttemptsCounted`, `LimitHolds`. `Inv` says of
  each job that what it has sent fits the step its attempt is at (`Sound`) and
  that one under the agent has a slot that counts (`Covered`); the limit follows by counting
  slots. `LimitHolds` is under `~SlowAgent`: a reply that takes longer than the five
  minutes after which a slot is dropped would break it (`HERMES_TIMEOUT_MS` is two minutes
  unless the environment changes it). Of `TenantSupervision`: `TenantTypesHold`,
  `NoSendLeftBehind` and `OneWorkerPerTenant`, for any number of callers, bridges, sends and
  crashes. `Supervised` is inductive: a stop that waits (`Stopping`) knows
  a bridge that exists, and a send that waits (`Called`) does so on a bridge that has its
  worker. What can take a worker away is an exit, an error or a termination, and each of
  those rejects, in the same callback, all sends of that bridge (`RejectedCalls`). For
  `OneWorkerPerTenant`, `Lone` says that a bridge that runs and was started while no stop waited is the
  manager's, and that every stop that waits now waits for that very bridge.
- `BillingProofs`: `NoFreePeriods`, `PaymentsInKind`, `FirstConfirmationStays`,
  `RevivalIsPaid` of `Subscriptions`, and `LinksGrantOnce`, the refinement of
  `GrantOnce` by `PaymentIntents`. The periods are bounded by the notifications whose
  renewal is done: a notification belongs to one request, and its renewal adds one to a
  number that was read before and so is no larger. For the grant, an event that is
  recorded is handled by at most one request, a request that subscribes holds an intent
  that was paid, and no row names that intent yet; the `Cardinality` of the
  refinement mapping is then 0 before the INSERT and 1 after it.
- `TaskEngineProofs`: `TypeCorrect`, `RunsInOrder`, `NobodyLeftWaiting`,
  `RevivedOnlySo`. The work is in the set `Fails(t)`: that it is closed and least, so that
  a failure leaves nobody waiting for one it passed through and touches
  no other task, however long the chain or whether it is a loop.
- `WarehouseProofs`: `TypeCorrect`, `NothingSkipped`, `CopiesOnce`. What a cycle
  holds may be out of date when it writes, so the invariant says what each cycle
  relies on (`Relies(x)`: everything up to where it read from is copied or late, and so is its batch
  once inserted), and that no commit, other cycle or checkpoint moved back can take it away.
  `Undisturbed` says that a cycle alone has read the present checkpoint and that nothing
  beyond it is copied.
- `WhatsAppProofs`: `TypeCorrect`, `HoldsOneLink`, `AnswersFromOwnNumber`. `Linked`
  is the core: while nothing has crossed, what the manager's fields say of the one
  socket that lives, and that whoever connects meanwhile does so alone and without one. `Held`
  names the sockets that live, `Resting` says that a process that starts finds nothing
  of the one before, `Untold` that a message under way was not answered yet, and
  `Addressed` that it belongs to the manager's user unless another connected since.
- `PhoneSyncProofs`: `TypeCorrect`, `SyncedAtBackend`, `SyncedIsFinal`,
  `OnceUnlessCrossed`. `Sound` says what a work may be about to write to each row of its
  batch: `SYNCED` only when the backend has the batch, anything else only on a row that is not
  SYNCED or that both works had read.

Only model-checked: everything temporal with fairness (`TransactionsEnd`, `JobsEnd`,
`OperationsEnd`, `GivenUpIsStopped`, `PaidIsSettled`, `EndIsTold`, `EventuallyCopied`,
`LinkReturns`, `MessagesEnd`, `EventuallySynced`), which is beyond the prover. Every
invariant, action property and refinement that a passing run checks is also a theorem.
`NotePaysOnce`, the subject of `yape_v_reuse`, is false.

## Not modelled

The components without a module, each with its reason, are in `PROJECT.json`. The larger
groups: appointments, the cart and the confirmation flow, which nothing in the
repository calls; forms, pages, prompts and formats, whose content no state depends
on; clients of external services.

Inside the modelled parts: wording and content of messages, images and prompts;
the database's row mapping and encryption; the QR code and the stored connection
status of a worker; `send-audio`, which the worker never answers; the real time
between timers, and so the respawn cooldown of several tenants
(`health-check.ts:28-30`); `QUEUE_CONCURRENCY` across tenants; the admin's retry of failed jobs; a stall
without a crash, where one job runs twice at once; the copy of subscriptions in Lago and
message limits; the signatures of webhooks; the customers' dimension and the views of the
warehouse, which are rebuilt from their source; the web API of `yaya-api/server.ts`, whose
handlers read and write SQLite without an await between, except `POST /whatsapp/send`, which awaits
a send over the manager's socket and then stores the message; the phone's screens and its parser of
notifications; exported functions that nothing calls, such as `validatePaymentForOrder`,
`subscribeCustomer` and `expireOverdue`.

## Plan

What is left, in order of worth:

1. The composition of `PhoneSync` with `YapeMatching`: a captured transfer pays its
   order once, from the phone to the order's status.
2. The model router's circuit breaker and the rotation of a tenant's key.

Hazards that wait for a module, beside those in `PROJECT.json`: a slot that is checked in
one statement and booked in another (`services/appointment-service.ts:71`); a removal
from the cart that writes back what it read over an addition made meanwhile
(`cart-service.ts:98`), and a checkout that stops
before the cart is cleared (`cart-service.ts:190`); a reminder
sent again when marking it fails (`reminder-scheduler.ts:26`); a probe that fails while
the circuit is open and does not
open it again (`model-router.ts:124`); two rotations of one tenant's key
(`key-rotation.ts:54`); a training that died and blocks the next for a day
(`training-scheduler.ts:92`).
