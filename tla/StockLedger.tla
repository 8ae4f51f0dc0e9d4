----------------------------- MODULE StockLedger -----------------------------
(***************************************************************************)
(* The products' stock under the transactions that take from it and give   *)
(* back to it: createOrder and modifyOrder of orders-repo.ts and the       *)
(* admin's expire run in a transaction (READ COMMITTED: a row is locked by *)
(* FOR UPDATE or UPDATE, and shared by an INSERT that refers to it; writes *)
(* show at COMMIT).  The expiration job runs without one, every statement  *)
(* committing by itself.  One action per statement that reads, writes or   *)
(* locks a product.                                                        *)
(***************************************************************************)
EXTENDS Integers, Sequences, FiniteSets

CONSTANTS Products, OrderIds, Procs, NoProc, NoOrder,
          InitialStock,  \* products.stock of each product (not NULL: tracked)
          Baskets,       \* the lists of items a request may name
          MaxAttempts,   \* QUEUE_MAX_RETRIES of the expiration job
          MaxChanges,    \* modifyOrder calls and revivals of a cancelled order (bound)
          Aborts         \* TRUE: a statement may fail

Item == [product : Products, quantity : Nat \ {0}]

ASSUME StockAssumption ==
  /\ NoProc \notin Procs /\ NoOrder \notin OrderIds /\ IsFiniteSet(OrderIds)
  /\ InitialStock \in Nat
  /\ \A b \in Baskets : b \in Seq(Item) /\ b # <<>>
  /\ MaxAttempts \in Nat \ {0} /\ MaxChanges \in Nat /\ Aborts \in BOOLEAN

VARIABLES stock,      \* committed products.stock
          orders,     \* committed orders: status and order_items
          rowLock,    \* who holds the exclusive lock of a product's row
          keyShare,   \* who inserted an item that refers to the product
          orderLock,  \* who holds the lock of an order's row
          tx,         \* the open transaction of each request
          job,        \* the expiration job of each order
          changes,    \* modifyOrder calls, and cancelled orders revived, so far
          short,      \* orders with an item that took nothing (history)
          returned    \* units of each product that expirations gave back (history)

vars == <<stock, orders, rowLock, keyShare, orderLock, tx, job, changes, short, returned>>

OrderStates == {"absent", "pending", "payment_requested", "cancelled"}
Nothing == [x \in Products |-> 0]
Opened(at, op, o, b) ==
  [at |-> at, op |-> op, order |-> o, basket |-> b, i |-> 1, delta |-> Nothing, missed |-> FALSE]
NoTx == Opened("idle", "none", NoOrder, <<>>)

Transaction ==
  [at : {"idle", "restore", "check", "insert", "reserve", "commit"},
   op : {"none", "create", "modify", "expire"},
   order : OrderIds \cup {NoOrder}, basket : Baskets \cup {<<>>},
   i : Nat \ {0}, delta : [Products -> Int], missed : BOOLEAN]

Job == [at : {"none", "cancel", "read", "restock", "notify", "completed", "failed"},
        i : Nat \ {0}, attempts : 0..MaxAttempts, items : Baskets \cup {<<>>}]

Types ==
  /\ stock \in [Products -> Int]
  /\ orders \in [OrderIds -> [status : OrderStates, items : Baskets \cup {<<>>}]]
  /\ rowLock \in [Products -> Procs \cup {NoProc}]
  /\ keyShare \in [Products -> SUBSET Procs]
  /\ orderLock \in [OrderIds -> Procs \cup {NoProc}]
  /\ tx \in [Procs -> Transaction]
  /\ job \in [OrderIds -> Job]
  /\ changes \in 0..MaxChanges
  /\ short \subseteq OrderIds

TypeOK == Types /\ returned \in [Products -> Nat]

Init ==
  /\ stock = [x \in Products |-> InitialStock]
  /\ orders = [o \in OrderIds |-> [status |-> "absent", items |-> <<>>]]
  /\ rowLock = [x \in Products |-> NoProc]
  /\ keyShare = [x \in Products |-> {}]
  /\ orderLock = [o \in OrderIds |-> NoProc]
  /\ tx = [p \in Procs |-> NoTx]
  /\ job = [o \in OrderIds |-> [at |-> "none", i |-> 1, attempts |-> 0, items |-> <<>>]]
  /\ changes = 0
  /\ short = {}
  /\ returned = Nothing

rest == <<changes, short, returned>>

\* The disjoint union of a family of sets: each member with its index.
DisjointUnion(f) == UNION {{i} \X f[i] : i \in DOMAIN f}

\* The units of product x that the first n lines of a list of items name: one
\* by one, so that a product named twice counts twice.
UnitsIn(items, x, n) ==
  DisjointUnion([j \in 1..n |-> IF items[j].product = x THEN 1..items[j].quantity ELSE {}])
Units(items, x) == UnitsIn(items, x, Len(items))

\* What transaction p sees: the committed value and its own writes.
Sees(p, x) == stock[x] + tx[p].delta[x]

\* FOR UPDATE waits for every other lock; the UPDATE of stock alone (not a key)
\* passes a shared one, and only FOR UPDATE keeps an inserting one out.
MayUpdate(p, x) == rowLock[x] \in {p, NoProc}
MayLock(p, x) == MayUpdate(p, x) /\ keyShare[x] \subseteq {p}
MayShare(p, x) == \A q \in Procs \ {p} : rowLock[x] = q => tx[q].op = "expire"

-----------------------------------------------------------------------------
(* The transactions *)

BeginCreate(p, o, b) ==
  /\ tx[p].at = "idle"
  /\ orders[o].status = "absent" /\ \A r \in Procs : tx[r].order # o
  /\ tx' = [tx EXCEPT ![p] = Opened("check", "create", o, b)]
  /\ UNCHANGED <<stock, orders, rowLock, keyShare, orderLock, job, rest>>

\* SELECT ... FOR UPDATE on the order, and its status among the open ones.
BeginModify(p, o, b) ==
  /\ tx[p].at = "idle" /\ changes < MaxChanges
  /\ orderLock[o] = NoProc /\ orders[o].status \in {"pending", "payment_requested"}
  /\ orderLock' = [orderLock EXCEPT ![o] = p]
  /\ tx' = [tx EXCEPT ![p] = Opened("restore", "modify", o, b)]
  /\ changes' = changes + 1
  /\ UNCHANGED <<stock, orders, rowLock, keyShare, job, short, returned>>

\* The admin's expire selects only an order that is payment_requested.
BeginExpire(p, o) ==
  /\ tx[p].at = "idle"
  /\ orderLock[o] = NoProc /\ orders[o].status = "payment_requested"
  /\ orderLock' = [orderLock EXCEPT ![o] = p]
  /\ tx' = [tx EXCEPT ![p] = Opened("restore", "expire", o, <<>>)]
  /\ UNCHANGED <<stock, orders, rowLock, keyShare, job, rest>>

\* Transaction or job t with its i-th item out of len done; and t with n units
\* more of x.
Stepped(t, len, here, next) ==
  [t EXCEPT !.at = IF t.i = len THEN next ELSE here, !.i = IF t.i = len THEN 1 ELSE t.i + 1]
Adds(t, x, n) == [t EXCEPT !.delta = [t.delta EXCEPT ![x] = @ + n]]

AfterRestore(t) == IF t.op = "modify" THEN "check" ELSE "commit"

\* Mutant: the old items are deleted without giving their units back.
RestoreNothing(p) ==
  /\ tx[p].at = "restore"
  /\ tx' = [tx EXCEPT ![p] = Stepped(tx[p], tx[p].i, "restore", AfterRestore(tx[p]))]
  /\ UNCHANGED <<stock, orders, rowLock, keyShare, orderLock, job, rest>>

\* UPDATE products SET stock = stock + q, item after item of the order.
RestoreItem(p) ==
  /\ tx[p].at = "restore"
  /\ LET items == orders[tx[p].order].items
         it == items[tx[p].i]
     IN  /\ IF tx[p].op = "expire" THEN MayUpdate(p, it.product) ELSE MayLock(p, it.product)
         /\ rowLock' = [rowLock EXCEPT ![it.product] = p]
         /\ tx' = [tx EXCEPT ![p] = Stepped(Adds(tx[p], it.product, it.quantity),
                                            Len(items), "restore", AfterRestore(tx[p]))]
  /\ UNCHANGED <<stock, orders, keyShare, orderLock, job, rest>>

\* Mutant: the client goes back to the pool with its transaction open.
EndedHoldingLocks(p) ==
  tx' = [tx EXCEPT ![p] = NoTx] /\ UNCHANGED <<rowLock, keyShare, orderLock>>

\* The end of a transaction, either way, gives up its locks.
Ended(p) ==
  /\ tx' = [tx EXCEPT ![p] = NoTx]
  /\ rowLock' = [x \in Products |-> IF rowLock[x] = p THEN NoProc ELSE rowLock[x]]
  /\ keyShare' = [x \in Products |-> keyShare[x] \ {p}]
  /\ orderLock' = [o \in OrderIds |-> IF orderLock[o] = p THEN NoProc ELSE orderLock[o]]

\* The transaction ends without effect.
RollbackOf(p) ==
  /\ Ended(p)
  /\ UNCHANGED <<stock, orders, job, rest>>

\* A plain SELECT: no lock; too little stock throws and rolls back.
CheckItem(p) ==
  /\ tx[p].at = "check"
  /\ LET it == tx[p].basket[tx[p].i]
     IN  IF Sees(p, it.product) < it.quantity
           THEN RollbackOf(p)
           ELSE /\ tx' = [tx EXCEPT ![p] = Stepped(tx[p], Len(tx[p].basket), "check", "insert")]
                /\ UNCHANGED <<stock, orders, rowLock, keyShare, orderLock, job, rest>>

\* INSERT INTO order_items: the reference to the product locks its key.
InsertItem(p) ==
  /\ tx[p].at = "insert"
  /\ LET x == tx[p].basket[tx[p].i].product
     IN  MayShare(p, x) /\ keyShare' = [keyShare EXCEPT ![x] = @ \cup {p}]
  /\ tx' = [tx EXCEPT ![p] = [tx[p] EXCEPT !.at = "reserve"]]
  /\ UNCHANGED <<stock, orders, rowLock, orderLock, job, rest>>

\* Mutant: AND stock >= $1 is missing from the UPDATE.
ReserveItemAlways(p) ==
  /\ tx[p].at = "reserve"
  /\ LET it == tx[p].basket[tx[p].i]
     IN  /\ MayLock(p, it.product)
         /\ rowLock' = [rowLock EXCEPT ![it.product] = p]
         /\ tx' = [tx EXCEPT ![p] = Stepped(Adds(tx[p], it.product, -it.quantity),
                                            Len(tx[p].basket), "insert", "commit")]
  /\ UNCHANGED <<stock, orders, keyShare, orderLock, job, rest>>

\* SELECT stock ... FOR UPDATE, then UPDATE ... WHERE stock >= q, whose row
\* count nobody looks at: an item that finds too little takes nothing.
ReserveItem(p) ==
  /\ tx[p].at = "reserve"
  /\ LET it == tx[p].basket[tx[p].i]
         t == IF Sees(p, it.product) >= it.quantity
                THEN Adds(tx[p], it.product, -it.quantity)
                ELSE [tx[p] EXCEPT !.missed = TRUE]
     IN  /\ MayLock(p, it.product)
         /\ rowLock' = [rowLock EXCEPT ![it.product] = p]
         /\ tx' = [tx EXCEPT ![p] = Stepped(t, Len(tx[p].basket), "insert", "commit")]
  /\ UNCHANGED <<stock, orders, keyShare, orderLock, job, rest>>

Commit(p) ==
  /\ tx[p].at = "commit"
  /\ LET o == tx[p].order
         expire == tx[p].op = "expire"
     IN  /\ stock' = [x \in Products |-> Sees(p, x)]
         /\ orders' = [orders EXCEPT ![o] =
              [status |-> CASE expire -> "cancelled"
                            [] tx[p].op = "create" -> "pending"
                            [] OTHER -> @.status,
               items |-> IF expire THEN @.items ELSE tx[p].basket]]
         /\ short' = IF tx[p].missed THEN short \cup {o} ELSE short
         /\ returned' = IF expire
              THEN [x \in Products |-> returned[x] + Cardinality(Units(orders[o].items, x))]
              ELSE returned
  /\ Ended(p)
  /\ UNCHANGED <<job, changes>>

\* p's next statement wants a lock that q's lock on the row keeps from it.
WaitsFor(p, q) ==
  /\ p # q
  /\ \/ /\ tx[p].at = "restore"
        /\ LET x == orders[tx[p].order].items[tx[p].i].product
           IN  rowLock[x] = q \/ (tx[p].op = "modify" /\ q \in keyShare[x])
     \/ /\ tx[p].at = "insert"
        /\ LET x == tx[p].basket[tx[p].i].product IN rowLock[x] = q /\ tx[q].op # "expire"
     \/ /\ tx[p].at = "reserve"
        /\ LET x == tx[p].basket[tx[p].i].product IN rowLock[x] = q \/ q \in keyShare[x]

\* p is in a circle of transactions that wait for one another.
Deadlocked(p) ==
  \E S \in SUBSET Procs : p \in S /\ \A q \in S : \E r \in S : WaitsFor(q, r)

\* Postgres' deadlock detector picks a victim.
Rollback(p) == Deadlocked(p) /\ RollbackOf(p)

\* A statement fails: the connection, a decryption, a row that is not there.
Abort(p) == Aborts /\ tx[p].at # "idle" /\ RollbackOf(p)

-----------------------------------------------------------------------------
(* Single statements *)

\* requestPayment checks the status of a row it read without a lock, and updates
\* the order by its id after more awaits.  Every order was pending once, so a
\* call that read it then may write at any later time: over a cancellation it
\* revives the order.
RequestPayment(o) ==
  /\ orders[o].status \in {"pending", "cancelled"} /\ orderLock[o] = NoProc
  /\ changes' = changes + IF orders[o].status = "cancelled" THEN 1 ELSE 0
  /\ changes' <= MaxChanges
  /\ orders' = [orders EXCEPT ![o].status = "payment_requested"]
  /\ UNCHANGED <<stock, rowLock, keyShare, orderLock, tx, job, short, returned>>

\* cancelOrder gives nothing back (order-service.ts:87 leaves it for later); a
\* late one finds nothing it could not have found in time.
CancelOrder(o) ==
  /\ orders[o].status \in {"pending", "payment_requested"} /\ orderLock[o] = NoProc
  /\ orders' = [orders EXCEPT ![o].status = "cancelled"]
  /\ UNCHANGED <<stock, rowLock, keyShare, orderLock, tx, job, rest>>

\* The scan enqueues a stale order; its job may run much later.
Scan(o) ==
  /\ orders[o].status = "payment_requested" /\ job[o].at = "none"
  /\ job' = [job EXCEPT ![o].at = "cancel"]
  /\ UNCHANGED <<stock, orders, rowLock, keyShare, orderLock, tx, rest>>

JobCancel(o) ==
  /\ job[o].at = "cancel" /\ orderLock[o] = NoProc
  /\ orders' = [orders EXCEPT ![o].status = "cancelled"]
  /\ job' = [job EXCEPT ![o].at = "read"]
  /\ UNCHANGED <<stock, rowLock, keyShare, orderLock, tx, rest>>

\* The items are read once; a revived order may be modified after that.
JobReadItems(o) ==
  /\ job[o].at = "read"
  /\ job' = [job EXCEPT ![o] = [job[o] EXCEPT !.at = "restock", !.i = 1, !.items = orders[o].items]]
  /\ UNCHANGED <<stock, orders, rowLock, keyShare, orderLock, tx, rest>>

JobRestockItem(o) ==
  /\ job[o].at = "restock"
  /\ LET items == job[o].items
         it == items[job[o].i]
     IN  /\ rowLock[it.product] = NoProc
         /\ stock' = [stock EXCEPT ![it.product] = @ + it.quantity]
         /\ returned' = [returned EXCEPT ![it.product] = @ + it.quantity]
         /\ job' = [job EXCEPT ![o] = Stepped(job[o], Len(items), "restock", "notify")]
  /\ UNCHANGED <<orders, rowLock, keyShare, orderLock, tx, changes, short>>

JobDone(o) ==
  /\ job[o].at = "notify"
  /\ job' = [job EXCEPT ![o] = [job[o] EXCEPT !.at = "completed", !.items = <<>>]]
  /\ UNCHANGED <<stock, orders, rowLock, keyShare, orderLock, tx, rest>>

\* sendMessage throws when the tenant is not connected; any statement may fail.
JobFails(o) ==
  /\ job[o].at = "notify" \/ (Aborts /\ job[o].at \in {"cancel", "read", "restock"})
  /\ LET n == job[o].attempts + 1
     IN  job' = [job EXCEPT ![o] =
           [at |-> IF n < MaxAttempts THEN "cancel" ELSE "failed", i |-> 1, attempts |-> n,
            items |-> <<>>]]
  /\ UNCHANGED <<stock, orders, rowLock, keyShare, orderLock, tx, rest>>

-----------------------------------------------------------------------------

Advance(p) ==
  \/ RestoreItem(p) \/ CheckItem(p) \/ InsertItem(p) \/ ReserveItem(p)
  \/ Commit(p) \/ Rollback(p)
JobStep(o) == JobCancel(o) \/ JobReadItems(o) \/ JobRestockItem(o) \/ JobDone(o) \/ JobFails(o)

Next ==
  \/ \E p \in Procs :
       \/ \E o \in OrderIds : \/ \E b \in Baskets : BeginCreate(p, o, b) \/ BeginModify(p, o, b)
                              \/ BeginExpire(p, o)
       \/ Advance(p) \/ Abort(p)
  \/ \E o \in OrderIds : RequestPayment(o) \/ CancelOrder(o) \/ Scan(o) \/ JobStep(o)

Spec == Init /\ [][Next]_vars

\* Postgres runs every statement it was sent, or breaks the deadlock it is in;
\* its lock queue is first come, first served, so a waiting statement whose row
\* comes free again and again gets it.
FairSpec == Spec /\ \A p \in Procs : SF_vars(Advance(p))

-----------------------------------------------------------------------------
(* Properties *)

\* No interleaving of orders oversells below zero.
StockNeverNegative == \A x \in Products : stock[x] >= 0

\* The units of product x that orders name, given back or not.
Named(x) == DisjointUnion([o \in OrderIds |-> Units(orders[o].items, x)])

\* Unless an item took nothing in silence, the stock is exactly what was there
\* less what the orders name, plus what expirations gave back: no rollback,
\* deadlock, modification, expiration or repeated job creates or loses a unit
\* besides.
StockExact ==
  short = {} =>
    \A x \in Products : stock[x] + Cardinality(Named(x)) = InitialStock + returned[x]

\* Every transaction ends, though two may wait for each other's rows.
TransactionsEnd == \A p \in Procs : (tx[p].at # "idle") ~> (tx[p].at = "idle")
=============================================================================
