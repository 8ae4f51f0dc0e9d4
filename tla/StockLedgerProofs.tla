-------------------------- MODULE StockLedgerProofs --------------------------
(***************************************************************************)
(* Theorems about StockLedger, for every number of products, orders and    *)
(* requests in flight.  Control is inductive; Solvent and Books are        *)
(* inductive relative to it.                                               *)
(***************************************************************************)
EXTENDS StockLedger, FiniteSetTheorems, TLAPS

\* What holds of transaction t of p while it is open: the status its order has
\* and whose lock keeps it so, and an item that is there to be worked on.
Sound(p, t) == t.at # "idle" =>
  /\ t.order \in OrderIds /\ t.op # "none"
  /\ t.op = "create" => orders[t.order].status = "absent" /\ t.at # "restore"
  /\ t.op = "modify" => orderLock[t.order] = p /\
                        orders[t.order].status \in {"pending", "payment_requested"}
  /\ t.op = "expire" => orderLock[t.order] = p /\ t.at \in {"restore", "commit"} /\
                        orders[t.order].status = "payment_requested"
  /\ t.op # "expire" => t.basket \in Baskets
  /\ t.at = "restore" => t.i \in 1..Len(orders[t.order].items)
  /\ t.at \in {"check", "insert", "reserve"} => t.i \in 1..Len(t.basket)

Working == \A p \in Procs : Sound(p, tx[p])

\* Nobody else works on an order that is being created.
Alone == \A p, q \in Procs :
  p # q /\ tx[p].at # "idle" /\ tx[q].at # "idle" /\ tx[p].op = "create"
    => tx[q].order # tx[p].order

HasItems == \A o \in OrderIds : orders[o].status # "absent" => orders[o].items \in Baskets

\* A job is of an order that exists, and one that gives units back has an item
\* left of the list it read.
Restocking == \A o \in OrderIds :
  /\ job[o].at # "none" => orders[o].status # "absent"
  /\ job[o].at \notin {"completed", "failed"} => job[o].attempts < MaxAttempts
  /\ job[o].at = "restock" => job[o].items \in Baskets /\ job[o].i \in 1..Len(job[o].items)

Control == Types /\ Working /\ Alone /\ HasItems /\ Restocking

\* Whoever has changed a product's stock holds its row, and what it would leave
\* there at its commit is no less than nothing.
Solvent ==
  /\ \A x \in Products : stock[x] >= 0
  /\ \A p \in Procs, x \in Products :
       /\ Sees(p, x) >= 0
       /\ tx[p].delta[x] # 0 => rowLock[x] = p

\* Transaction p locks one row and adds n to it, not below zero.
Moves(p) == \E x \in Products, n \in Int :
  /\ \A q \in Procs \ {p} : tx'[q] = tx[q]
  /\ tx'[p].delta = [tx[p].delta EXCEPT ![x] = @ + n]
  /\ n >= 0 \/ Sees(p, x) + n >= 0
  /\ MayUpdate(p, x) /\ rowLock' = [rowLock EXCEPT ![x] = p]
  /\ UNCHANGED stock

-----------------------------------------------------------------------------

\* A list of items has one at each of its indices, of at least one unit.
LEMMA BasketItems ==
  ASSUME NEW items \in Baskets
  PROVE  /\ 1 \in 1..Len(items) /\ Len(items) \in Nat
         /\ \A i \in 1..Len(items) : items[i] \in Item
<1>1. items \in Seq(Item) /\ items # <<>>
  BY StockAssumption
<1>. QED BY <1>1

LEMMA InitControl == Init => Control
BY StockAssumption
   DEF Init, Control, Types, Working, Sound, Alone, HasItems, Restocking, NoTx, Opened, Nothing,
       Transaction, Job, OrderStates

\* A transaction that goes on with its order touches neither orders nor jobs.
LEMMA StepOfTransaction ==
  ASSUME Control, NEW p \in Procs, NEW t \in Transaction,
         tx' = [tx EXCEPT ![p] = t],
         tx[p].at # "idle", t.at # "idle", t.order = tx[p].order, t.op = tx[p].op,
         Sound(p, t),
         rowLock' \in [Products -> Procs \cup {NoProc}],
         keyShare' \in [Products -> SUBSET Procs],
         UNCHANGED <<stock, orders, orderLock, job, changes, short>>
  PROVE  Control'
BY DEF Control, Types, Working, Sound, Alone, HasItems, Restocking

LEMMA BeginKeepsControl ==
  ASSUME Control, NEW p \in Procs, NEW o \in OrderIds, NEW b \in Baskets,
         BeginCreate(p, o, b) \/ BeginModify(p, o, b) \/ BeginExpire(p, o)
  PROVE  Control'
<1>1. CASE BeginCreate(p, o, b)
  BY <1>1, BasketItems DEF BeginCreate, Control, Types, Working, Sound, Alone, HasItems, Restocking,
     Opened, NoTx, Nothing, Transaction, rest
<1>2. CASE BeginModify(p, o, b)
  BY <1>2, BasketItems, StockAssumption DEF BeginModify, Control, Types, Working, Sound, Alone, HasItems,
     Restocking, Opened, NoTx, Opened, Nothing, Transaction, rest
<1>3. CASE BeginExpire(p, o)
  BY <1>3, BasketItems, StockAssumption DEF BeginExpire, Control, Types, Working, Sound, Alone, HasItems,
     Restocking, Opened, NoTx, Opened, Nothing, Transaction, rest
<1>. QED BY <1>1, <1>2, <1>3

\* An open transaction that works on an item has it, and an order that exists
\* or is being created.
LEMMA ItemAtHand ==
  ASSUME Control, NEW p \in Procs
  PROVE  /\ tx[p] \in Transaction
         /\ tx[p].at = "restore" =>
              LET items == orders[tx[p].order].items
              IN  /\ tx[p].order \in OrderIds /\ tx[p].op \in {"modify", "expire"}
                  /\ items \in Baskets /\ tx[p].i \in 1..Len(items) /\ items[tx[p].i] \in Item
         /\ tx[p].at \in {"check", "insert", "reserve"} =>
              /\ tx[p].op \in {"create", "modify"} /\ tx[p].basket \in Baskets
              /\ tx[p].i \in 1..Len(tx[p].basket) /\ tx[p].basket[tx[p].i] \in Item
<1>1. tx[p] \in Transaction
  BY DEF Control, Types
<1>2. Sound(p, tx[p])
  BY DEF Control, Working
<1>3. tx[p].op \in {"none", "create", "modify", "expire"}
  BY <1>1 DEF Transaction
<1>4. CASE tx[p].at = "restore"
  <2>1. /\ tx[p].order \in OrderIds /\ tx[p].op \in {"modify", "expire"}
        /\ orders[tx[p].order].status # "absent"
        /\ tx[p].i \in 1..Len(orders[tx[p].order].items)
    BY <1>2, <1>3, <1>4 DEF Sound
  <2>2. orders[tx[p].order].items \in Baskets
    BY <2>1 DEF Control, HasItems
  <2>. QED BY <1>1, <1>4, <2>1, <2>2, BasketItems
<1>5. CASE tx[p].at \in {"check", "insert", "reserve"}
  <2>1. /\ tx[p].op \in {"create", "modify"} /\ tx[p].basket \in Baskets
        /\ tx[p].i \in 1..Len(tx[p].basket)
    BY <1>2, <1>3, <1>5 DEF Sound
  <2>. QED BY <1>1, <1>5, <2>1, BasketItems
<1>. QED BY <1>1, <1>4, <1>5

\* What a step does to a transaction: it goes on to the next item, or to what
\* follows the last one, and keeps the rest.
LEMMA SteppedOn ==
  ASSUME NEW t \in Transaction, NEW len \in Nat, t.i \in 1..len,
         NEW here \in {"restore", "check", "insert"},
         NEW next \in {"check", "insert", "commit"}
  PROVE  LET u == Stepped(t, len, here, next)
         IN  /\ u \in Transaction
             /\ u.op = t.op /\ u.order = t.order /\ u.basket = t.basket
             /\ u.delta = t.delta /\ u.missed = t.missed
             /\ \/ u.at = here /\ u.i \in 1..len
                \/ u.at = next /\ u.i = 1
<1>. DEFINE at == IF t.i = len THEN next ELSE here
            i == IF t.i = len THEN 1 ELSE t.i + 1
            u == [t EXCEPT !.at = at, !.i = i]
<1>1. /\ at \in {"restore", "check", "insert", "commit"}
      /\ i \in Nat \ {0} /\ t.i \in Nat
      /\ (at = here /\ i \in 1..len) \/ (at = next /\ i = 1)
  OBVIOUS
<1>. HIDE DEF at, i
<1>2. /\ u \in Transaction /\ u.at = at /\ u.i = i
      /\ u.op = t.op /\ u.order = t.order /\ u.basket = t.basket
      /\ u.delta = t.delta /\ u.missed = t.missed
  BY <1>1 DEF Transaction
<1>. QED BY <1>1, <1>2 DEF Stepped, at, i

LEMMA AddsUnits ==
  ASSUME NEW t \in Transaction, NEW x \in Products, NEW n \in Int
  PROVE  LET u == Adds(t, x, n)
         IN  /\ u \in Transaction
             /\ u.at = t.at /\ u.i = t.i /\ u.op = t.op /\ u.order = t.order
             /\ u.basket = t.basket /\ u.missed = t.missed
             /\ u.delta = [t.delta EXCEPT ![x] = @ + n]
<1>. DEFINE d == [t.delta EXCEPT ![x] = @ + n]
            u == [t EXCEPT !.delta = d]
<1>1. d \in [Products -> Int]
  BY DEF Transaction
<1>2. Adds(t, x, n) = u /\ d = [t.delta EXCEPT ![x] = @ + n]
  BY Zenon DEF Adds
<1>. HIDE DEF d
<1>3. /\ u \in Transaction /\ u.delta = d
      /\ u.at = t.at /\ u.i = t.i /\ u.op = t.op /\ u.order = t.order
      /\ u.basket = t.basket /\ u.missed = t.missed
  BY <1>1 DEF Transaction
<1>. HIDE DEF u
<1>. QED BY <1>2, <1>3

\* The statements of a transaction: each leaves it open, on the same order, with
\* an item to work on next.
LEMMA RestoreKeepsControl ==
  ASSUME Control, NEW p \in Procs, RestoreItem(p)
  PROVE  Control' /\ Moves(p)
<1>. DEFINE items == orders[tx[p].order].items
            it == items[tx[p].i]
            u == Adds(tx[p], it.product, it.quantity)
            t == Stepped(u, Len(items), "restore", AfterRestore(u))
<1>1. /\ tx[p].at = "restore" /\ tx[p] \in Transaction /\ tx[p].order \in OrderIds
      /\ tx[p].op \in {"modify", "expire"}
      /\ items \in Baskets /\ tx[p].i \in 1..Len(items) /\ it \in Item
  BY ItemAtHand DEF RestoreItem
<1>2. it.product \in Products /\ it.quantity \in Int /\ Len(items) \in Nat
  BY <1>1, BasketItems DEF Item
<1>3. /\ u \in Transaction /\ u.i = tx[p].i /\ u.op = tx[p].op
      /\ u.order = tx[p].order /\ u.basket = tx[p].basket
      /\ u.delta = [tx[p].delta EXCEPT ![it.product] = @ + it.quantity]
  <2>. HIDE DEF it
  <2>. QED BY <1>1, <1>2, AddsUnits
<1>4. AfterRestore(u) = AfterRestore(tx[p]) /\ AfterRestore(u) \in {"check", "insert", "commit"}
  BY <1>3 DEF AfterRestore
<1>. HIDE DEF u
<1>5. /\ t \in Transaction /\ t.op = tx[p].op
      /\ t.order = tx[p].order /\ t.basket = tx[p].basket /\ t.delta = u.delta
      /\ \/ t.at = "restore" /\ t.i \in 1..Len(items)
         \/ t.at = AfterRestore(u) /\ t.i = 1
  <2>. HIDE DEF items
  <2>1. u.i \in 1..Len(items)
    BY <1>1, <1>3
  <2>. QED BY <1>2, <1>3, <1>4, <2>1, SteppedOn
<1>6. tx' = [tx EXCEPT ![p] = t]
  BY <1>4 DEF RestoreItem, u
<1>. HIDE DEF t
<1>7. Sound(p, tx[p])
  BY DEF Control, Working
<1>8. Sound(p, t)
  BY <1>1, <1>3, <1>5, <1>7, BasketItems DEF Sound, AfterRestore
<1>9. /\ rowLock' \in [Products -> Procs \cup {NoProc}]
      /\ keyShare' \in [Products -> SUBSET Procs]
      /\ UNCHANGED <<stock, orders, orderLock, job, changes, short>>
  BY <1>2 DEF RestoreItem, Control, Types, rest
<1>10. Control'
  BY <1>1, <1>3, <1>5, <1>6, <1>8, <1>9, StepOfTransaction DEF AfterRestore
<1>11. MayUpdate(p, it.product) /\ rowLock' = [rowLock EXCEPT ![it.product] = p]
  BY DEF RestoreItem, MayLock
<1>12. it.quantity >= 0
  BY <1>1 DEF Item
<1>13. tx'[p] = t /\ \A q \in Procs \ {p} : tx'[q] = tx[q]
  BY <1>6 DEF Control, Types
<1>. HIDE DEF it
<1>14. Moves(p)
  BY <1>2, <1>3, <1>5, <1>9, <1>11, <1>12, <1>13 DEF Moves
<1>. QED BY <1>10, <1>14

LEMMA CheckKeepsControl ==
  ASSUME Control, NEW p \in Procs, CheckItem(p), ~RollbackOf(p)
  PROVE  Control'
<1>. DEFINE t == Stepped(tx[p], Len(tx[p].basket), "check", "insert")
<1>1. /\ tx[p].at = "check" /\ tx[p] \in Transaction /\ tx[p].op \in {"create", "modify"}
      /\ tx[p].basket \in Baskets /\ tx[p].i \in 1..Len(tx[p].basket)
  BY ItemAtHand DEF CheckItem
<1>2. Len(tx[p].basket) \in Nat
  BY <1>1, BasketItems
<1>3. /\ t \in Transaction /\ t.op = tx[p].op
      /\ t.order = tx[p].order /\ t.basket = tx[p].basket
      /\ t.at \in {"check", "insert"} /\ t.i \in 1..Len(tx[p].basket)
  BY <1>1, <1>2, SteppedOn
<1>4. tx' = [tx EXCEPT ![p] = t]
  BY DEF CheckItem
<1>. HIDE DEF t
<1>5. Sound(p, tx[p])
  BY DEF Control, Working
<1>6. Sound(p, t)
  BY <1>1, <1>3, <1>5 DEF Sound
<1>7. /\ rowLock' \in [Products -> Procs \cup {NoProc}]
      /\ keyShare' \in [Products -> SUBSET Procs]
      /\ UNCHANGED <<stock, orders, orderLock, job, changes, short>>
  BY DEF CheckItem, Control, Types, rest
<1>. QED BY <1>1, <1>3, <1>4, <1>6, <1>7, StepOfTransaction

LEMMA InsertKeepsControl ==
  ASSUME Control, NEW p \in Procs, InsertItem(p)
  PROVE  Control'
<1>. DEFINE t == [tx[p] EXCEPT !.at = "reserve"]
<1>1. /\ tx[p].at = "insert" /\ tx[p] \in Transaction /\ tx[p].op \in {"create", "modify"}
      /\ tx[p].basket \in Baskets /\ tx[p].i \in 1..Len(tx[p].basket)
      /\ tx[p].basket[tx[p].i] \in Item
  BY ItemAtHand DEF InsertItem
<1>2. /\ t \in Transaction /\ t.op = tx[p].op /\ t.order = tx[p].order
      /\ t.basket = tx[p].basket /\ t.at = "reserve" /\ t.i = tx[p].i
  BY <1>1 DEF Transaction
<1>3. tx' = [tx EXCEPT ![p] = t]
  BY DEF InsertItem
<1>. HIDE DEF t
<1>4. Sound(p, tx[p])
  BY DEF Control, Working
<1>5. Sound(p, t)
  BY <1>1, <1>2, <1>4 DEF Sound
<1>6. /\ rowLock' \in [Products -> Procs \cup {NoProc}]
      /\ keyShare' \in [Products -> SUBSET Procs]
      /\ UNCHANGED <<stock, orders, orderLock, job, changes, short>>
  BY <1>1 DEF InsertItem, Control, Types, rest, Item
<1>. QED BY <1>1, <1>2, <1>3, <1>5, <1>6, StepOfTransaction

LEMMA ReserveKeepsControl ==
  ASSUME Control, NEW p \in Procs, ReserveItem(p)
  PROVE  Control' /\ Moves(p)
<1>. DEFINE it == tx[p].basket[tx[p].i]
            n == IF Sees(p, it.product) >= it.quantity THEN -it.quantity ELSE 0
            u == IF Sees(p, it.product) >= it.quantity
                   THEN Adds(tx[p], it.product, -it.quantity)
                   ELSE [tx[p] EXCEPT !.missed = TRUE]
            t == Stepped(u, Len(tx[p].basket), "insert", "commit")
<1>1. /\ tx[p].at = "reserve" /\ tx[p] \in Transaction /\ tx[p].op \in {"create", "modify"}
      /\ tx[p].basket \in Baskets /\ tx[p].i \in 1..Len(tx[p].basket) /\ it \in Item
  BY ItemAtHand DEF ReserveItem
<1>2. it.product \in Products /\ -it.quantity \in Int /\ Len(tx[p].basket) \in Nat
  BY <1>1, BasketItems DEF Item
<1>3. /\ u \in Transaction /\ u.i = tx[p].i /\ u.op = tx[p].op
      /\ u.order = tx[p].order /\ u.basket = tx[p].basket
      /\ u.delta = [tx[p].delta EXCEPT ![it.product] = @ + n]
  <2>1. CASE Sees(p, it.product) >= it.quantity
    <3>. HIDE DEF it
    <3>. QED BY <1>1, <1>2, <2>1, AddsUnits
  <2>2. CASE ~(Sees(p, it.product) >= it.quantity)
    <3>1. /\ u \in Transaction /\ u.i = tx[p].i /\ u.op = tx[p].op
          /\ u.order = tx[p].order /\ u.basket = tx[p].basket /\ u.delta = tx[p].delta
      BY <1>1, <2>2 DEF Transaction
    <3>2. tx[p].delta \in [Products -> Int] /\ n = 0
      BY <1>1, <2>2 DEF Transaction
    <3>. HIDE DEF u, it, n
    <3>3. tx[p].delta = [tx[p].delta EXCEPT ![it.product] = @ + n]
      <4>. DEFINE d == tx[p].delta
                  x == it.product
      <4>1. d \in [Products -> Int] /\ x \in Products
        BY <1>2, <3>2
      <4>. HIDE DEF d, x
      <4>2. d = [d EXCEPT ![x] = @ + n]
        BY <3>2, <4>1
      <4>. QED BY <4>2 DEF d, x
    <3>. QED BY <3>1, <3>3
  <2>. QED BY <2>1, <2>2
<1>. HIDE DEF u
<1>4. /\ t \in Transaction /\ t.op = tx[p].op
      /\ t.order = tx[p].order /\ t.basket = tx[p].basket /\ t.delta = u.delta
      /\ \/ t.at = "insert" /\ t.i \in 1..Len(tx[p].basket)
         \/ t.at = "commit"
  BY <1>1, <1>2, <1>3, SteppedOn
<1>5. tx' = [tx EXCEPT ![p] = t]
  BY DEF ReserveItem, u
<1>. HIDE DEF t
<1>6. Sound(p, tx[p])
  BY DEF Control, Working
<1>7. Sound(p, t)
  BY <1>1, <1>4, <1>6 DEF Sound
<1>8. /\ rowLock' \in [Products -> Procs \cup {NoProc}]
      /\ keyShare' \in [Products -> SUBSET Procs]
      /\ UNCHANGED <<stock, orders, orderLock, job, changes, short>>
  BY <1>2 DEF ReserveItem, Control, Types, rest
<1>9. Control'
  BY <1>1, <1>4, <1>5, <1>7, <1>8, StepOfTransaction
<1>10. MayUpdate(p, it.product) /\ rowLock' = [rowLock EXCEPT ![it.product] = p]
  BY DEF ReserveItem, MayLock
<1>11. Sees(p, it.product) \in Int /\ it.quantity \in Int
  BY <1>1, <1>2 DEF Sees, Control, Types, Transaction, Item
<1>12. n \in Int /\ (n >= 0 \/ Sees(p, it.product) + n >= 0)
  <2>. HIDE DEF it
  <2>. QED BY <1>11
<1>13. tx'[p] = t /\ \A q \in Procs \ {p} : tx'[q] = tx[q]
  BY <1>5 DEF Control, Types
<1>. HIDE DEF it, n
<1>14. Moves(p)
  BY <1>2, <1>3, <1>4, <1>8, <1>10, <1>12, <1>13 DEF Moves
<1>. QED BY <1>9, <1>14

\* Two open transactions never work on the same order: one that creates it is
\* alone with it, and one that changes it holds its lock.
LEMMA Apart ==
  ASSUME Control, NEW p \in Procs, NEW q \in Procs, p # q,
         tx[p].at # "idle", tx[q].at # "idle"
  PROVE  tx[p].order # tx[q].order
<1>1. Sound(p, tx[p]) /\ Sound(q, tx[q])
  BY DEF Control, Working
<1>2. tx[p].op \in {"create", "modify", "expire"} /\ tx[q].op \in {"create", "modify", "expire"}
  BY <1>1 DEF Control, Types, Transaction, Sound
<1>3. CASE tx[p].op = "create" \/ tx[q].op = "create"
  BY <1>3 DEF Control, Alone
<1>4. CASE tx[p].op # "create" /\ tx[q].op # "create"
  BY <1>1, <1>2, <1>4 DEF Sound
<1>. QED BY <1>3, <1>4

\* Nobody works on an order that exists and is not locked.
LEMMA Unworked ==
  ASSUME Control, NEW o \in OrderIds, orders[o].status # "absent", orderLock[o] = NoProc,
         NEW q \in Procs, tx[q].at # "idle"
  PROVE  tx[q].order # o
<1>1. Sound(q, tx[q])
  BY DEF Control, Working
<1>2. tx[q].op \in {"create", "modify", "expire"}
  BY <1>1 DEF Control, Types, Transaction, Sound
<1>. QED BY <1>1, <1>2, StockAssumption DEF Sound

\* A transaction that ends gives up its own locks and nobody else's.
LEMMA EndedAlone ==
  ASSUME Control, NEW p \in Procs, Ended(p)
  PROVE  /\ tx' \in [Procs -> Transaction] /\ rowLock' \in [Products -> Procs \cup {NoProc}]
         /\ keyShare' \in [Products -> SUBSET Procs]
         /\ orderLock' \in [OrderIds -> Procs \cup {NoProc}]
         /\ tx'[p] = NoTx /\ NoTx.at = "idle"
         /\ \A q \in Procs \ {p} : tx'[q] = tx[q]
         /\ \A o \in OrderIds : orderLock[o] # p => orderLock'[o] = orderLock[o]
<1>1. NoTx \in Transaction /\ NoTx.at = "idle"
  BY DEF NoTx, Opened, Nothing, Transaction
<1>. QED BY <1>1 DEF Ended, Control, Types

LEMMA RollbackKeepsControl ==
  ASSUME Control, NEW p \in Procs, RollbackOf(p)
  PROVE  Control'
<1>1. Ended(p) /\ UNCHANGED <<stock, orders, job, changes, short>>
  BY DEF RollbackOf, rest
<1>2. Types'
  BY <1>1, EndedAlone DEF Control, Types
<1>3. Working'
  <2>. SUFFICES ASSUME NEW q \in Procs, tx'[q].at # "idle"
                PROVE  Sound(q, tx[q])'
    BY DEF Working, Sound
  <2>1. q # p /\ tx'[q] = tx[q]
    BY <1>1, EndedAlone
  <2>2. Sound(q, tx[q])
    BY DEF Control, Working
  <2>. QED BY <1>1, <2>1, <2>2, EndedAlone DEF Sound
<1>4. Alone'
  BY <1>1, EndedAlone DEF Control, Alone
<1>5. HasItems' /\ Restocking'
  BY <1>1 DEF Control, HasItems, Restocking
<1>. QED BY <1>2, <1>3, <1>4, <1>5 DEF Control

LEMMA CommitKeepsControl ==
  ASSUME Control, NEW p \in Procs, Commit(p)
  PROVE  Control'
<1>. DEFINE o == tx[p].order
            items == IF tx[p].op = "expire" THEN orders[o].items ELSE tx[p].basket
            status == CASE tx[p].op = "expire" -> "cancelled"
                        [] tx[p].op = "create" -> "pending"
                        [] OTHER -> orders[o].status
<1>1. Sound(p, tx[p]) /\ tx[p].at = "commit" /\ o \in OrderIds
  BY DEF Control, Working, Sound, Commit
<1>2. tx[p].op \in {"create", "modify", "expire"}
  BY <1>1 DEF Control, Types, Transaction, Sound
<1>3. items \in Baskets
  BY <1>1, <1>2 DEF Sound, Control, HasItems
<1>4. status \in {"pending", "payment_requested", "cancelled"}
  BY <1>1, <1>2 DEF Sound
<1>5. orders' = [orders EXCEPT ![o] = [status |-> status, items |-> items]]
  BY DEF Commit
<1>6. Ended(p) /\ UNCHANGED <<job, changes>> /\ short' \in {short, short \cup {o}}
  BY DEF Commit
<1>7. stock' \in [Products -> Int]
  BY DEF Commit, Sees, Control, Types, Transaction
<1>. HIDE DEF items, status
<1>8. Types'
  BY <1>1, <1>3, <1>4, <1>5, <1>6, <1>7, EndedAlone DEF Control, Types, OrderStates
<1>9. Working'
  <2>. SUFFICES ASSUME NEW q \in Procs, tx'[q].at # "idle"
                PROVE  Sound(q, tx[q])'
    BY DEF Working, Sound
  <2>1. q # p /\ tx'[q] = tx[q]
    BY <1>6, EndedAlone
  <2>2. Sound(q, tx[q]) /\ tx[q].order # o /\ tx[q].order \in OrderIds
    BY <1>1, <2>1, Apart DEF Control, Working, Sound
  <2>3. orders'[tx[q].order] = orders[tx[q].order]
    BY <1>5, <2>2 DEF Control, Types
  <2>. QED BY <2>1, <2>2, <2>3, <1>6, EndedAlone DEF Sound
<1>10. Alone'
  BY <1>6, EndedAlone DEF Control, Alone
<1>11. HasItems'
  BY <1>3, <1>5 DEF Control, Types, HasItems
<1>12. Restocking'
  BY <1>4, <1>5, <1>6 DEF Control, Types, Restocking
<1>. QED BY <1>8, <1>9, <1>10, <1>11, <1>12 DEF Control

\* Single statements that move an order nobody has locked.
LEMMA StatusStep ==
  ASSUME Control, NEW o \in OrderIds, orders[o].status # "absent", orderLock[o] = NoProc,
         NEW status \in {"payment_requested", "cancelled"},
         orders' = [orders EXCEPT ![o].status = status],
         UNCHANGED <<stock, rowLock, keyShare, orderLock, tx, short>>,
         changes' \in 0..MaxChanges, job' \in [OrderIds -> Job], Restocking'
  PROVE  Control'
<1>1. orders'[o].items = orders[o].items /\ orders'[o].status = status
  BY DEF Control, Types
<1>2. \A r \in OrderIds \ {o} : orders'[r] = orders[r]
  BY DEF Control, Types
<1>3. Types'
  BY DEF Control, Types, OrderStates
<1>4. Working'
  <2>. SUFFICES ASSUME NEW q \in Procs, tx'[q].at # "idle"
                PROVE  Sound(q, tx[q])'
    BY DEF Working, Sound
  <2>1. Sound(q, tx[q]) /\ tx[q].order \in OrderIds \ {o}
    BY Unworked DEF Control, Working, Sound
  <2>. QED BY <1>2, <2>1 DEF Sound
<1>5. Alone' /\ HasItems'
  BY <1>1, <1>2 DEF Control, Alone, HasItems
<1>. QED BY <1>3, <1>4, <1>5 DEF Control

LEMMA StatusKeepsControl ==
  ASSUME Control, NEW o \in OrderIds,
         RequestPayment(o) \/ CancelOrder(o) \/ JobCancel(o)
  PROVE  Control'
<1>0. job[o] \in Job /\ changes \in 0..MaxChanges /\ MaxChanges \in Nat
  BY StockAssumption DEF Control, Types
<1>1. CASE RequestPayment(o)
  <2>1. Restocking'
    BY <1>1 DEF RequestPayment, Control, Types, Restocking
  <2>2. changes' \in 0..MaxChanges
    BY <1>0, <1>1 DEF RequestPayment
  <2>. QED BY <1>1, <2>1, <2>2, StatusStep DEF RequestPayment, Control, Types
<1>2. CASE CancelOrder(o)
  <2>1. Restocking'
    BY <1>2 DEF CancelOrder, rest, Control, Types, Restocking
  <2>. QED BY <1>0, <1>2, <2>1, StatusStep DEF CancelOrder, rest, Control, Types
<1>3. CASE JobCancel(o)
  <2>. DEFINE j == [job[o] EXCEPT !.at = "read"]
  <2>1. orders[o].status # "absent" /\ job[o].attempts < MaxAttempts
    BY <1>3 DEF JobCancel, Control, Restocking
  <2>2. j \in Job /\ j.at = "read" /\ j.attempts = job[o].attempts
    BY <1>0 DEF Job
  <2>3. job' = [job EXCEPT ![o] = j] /\ orders' = [orders EXCEPT ![o].status = "cancelled"]
    BY <1>3 DEF JobCancel
  <2>. HIDE DEF j
  <2>4. /\ orders'[o].status = "cancelled"
        /\ job'[o] = j /\ job' \in [OrderIds -> Job]
        /\ \A r \in OrderIds \ {o} : orders'[r] = orders[r] /\ job'[r] = job[r]
    BY <2>2, <2>3 DEF Control, Types
  <2>5. Restocking'
    BY <2>1, <2>2, <2>4 DEF Control, Restocking
  <2>. QED BY <1>0, <1>3, <2>1, <2>4, <2>5, StatusStep DEF JobCancel, rest
<1>. QED BY <1>1, <1>2, <1>3

\* Steps of the job that leave the orders alone.
LEMMA JobStepAlone ==
  ASSUME Control, UNCHANGED <<orders, rowLock, keyShare, orderLock, tx, changes, short>>,
         stock' \in [Products -> Int], job' \in [OrderIds -> Job], Restocking'
  PROVE  Control'
BY DEF Control, Types, Working, Sound, Alone, HasItems

LEMMA JobKeepsControl ==
  ASSUME Control, NEW o \in OrderIds,
         Scan(o) \/ JobReadItems(o) \/ JobRestockItem(o) \/ JobDone(o) \/ JobFails(o)
  PROVE  Control'
<1>0. job[o] \in Job /\ stock \in [Products -> Int]
  BY DEF Control, Types
<1>1. CASE Scan(o)
  <2>. DEFINE j == [job[o] EXCEPT !.at = "cancel"]
  <2>2. job[o].attempts < MaxAttempts
    BY <1>1 DEF Scan, Control, Restocking
  <2>3. j \in Job /\ j.at = "cancel" /\ j.attempts = job[o].attempts
    BY <1>0 DEF Job
  <2>4. job' = [job EXCEPT ![o] = j] /\ orders[o].status # "absent"
    BY <1>1 DEF Scan
  <2>. HIDE DEF j
  <2>1. job' \in [OrderIds -> Job] /\ Restocking'
    BY <1>1, <2>2, <2>3, <2>4 DEF Scan, Control, Types, Restocking
  <2>. QED BY <1>0, <1>1, <2>1, JobStepAlone DEF Scan, rest
<1>2. CASE JobRestockItem(o)
  <2>. DEFINE items == job[o].items
              j == Stepped(job[o], Len(items), "restock", "notify")
  <2>1. /\ job[o].at = "restock" /\ job[o].attempts < MaxAttempts
        /\ orders[o].status # "absent" /\ items \in Baskets
        /\ job[o].i \in 1..Len(items)
    BY <1>2 DEF JobRestockItem, Control, Restocking
  <2>2. items[job[o].i] \in Item /\ Len(items) \in Nat
    BY <2>1, BasketItems
  <2>3. /\ j \in Job /\ j.attempts = job[o].attempts /\ j.items = items
        /\ (j.at = "restock" /\ j.i \in 1..Len(items)) \/ j.at = "notify"
    <3>0. job[o].items = items
      BY Zenon
    <3>. HIDE DEF items
    <3>. DEFINE at == IF job[o].i = Len(items) THEN "notify" ELSE "restock"
                i == IF job[o].i = Len(items) THEN 1 ELSE job[o].i + 1
    <3>1. /\ at \in {"restock", "notify"} /\ i \in Nat \ {0}
          /\ (at = "restock" /\ i \in 1..Len(items)) \/ at = "notify"
      BY <2>1, <2>2
    <3>2. j = [job[o] EXCEPT !.at = at, !.i = i]
      BY Zenon DEF Stepped
    <3>. HIDE DEF at, i, j
    <3>. QED BY <1>0, <3>0, <3>1, <3>2 DEF Job
  <2>4. job' = [job EXCEPT ![o] = j]
    BY <1>2 DEF JobRestockItem
  <2>. HIDE DEF j
  <2>5. job' \in [OrderIds -> Job] /\ Restocking'
    BY <1>2, <2>1, <2>3, <2>4 DEF JobRestockItem, Control, Types, Restocking
  <2>6. stock' \in [Products -> Int]
    <3>. HIDE DEF items
    <3>1. items[job[o].i].product \in Products /\ items[job[o].i].quantity \in Int
      BY <2>2 DEF Item
    <3>2. stock' = [stock EXCEPT ![items[job[o].i].product] = @ + items[job[o].i].quantity]
      BY <1>2 DEF JobRestockItem, items
    <3>. QED BY <1>0, <3>1, <3>2
  <2>. QED BY <1>2, <2>5, <2>6, JobStepAlone DEF JobRestockItem
<1>3. CASE JobDone(o)
  <2>. DEFINE j == [job[o] EXCEPT !.at = "completed", !.items = <<>>]
  <2>1. j \in Job /\ j.at = "completed"
    BY <1>0 DEF Job
  <2>2. job' = [job EXCEPT ![o] = j] /\ orders[o].status # "absent"
    BY <1>3 DEF JobDone, Control, Restocking
  <2>. HIDE DEF j
  <2>3. job' \in [OrderIds -> Job] /\ Restocking'
    BY <1>3, <2>1, <2>2 DEF JobDone, Control, Types, Restocking
  <2>. QED BY <1>0, <1>3, <2>3, JobStepAlone DEF JobDone, rest
<1>5. CASE JobReadItems(o)
  <2>. DEFINE items == orders[o].items
              j == [job[o] EXCEPT !.at = "restock", !.i = 1, !.items = items]
  <2>1. /\ orders[o].status # "absent" /\ items \in Baskets /\ 1 \in 1..Len(items)
        /\ job[o].attempts < MaxAttempts
    BY <1>5, BasketItems DEF JobReadItems, Control, Restocking, HasItems
  <2>2. job' = [job EXCEPT ![o] = j]
    BY <1>5 DEF JobReadItems
  <2>. HIDE DEF items
  <2>3. /\ j \in Job /\ j.at = "restock" /\ j.i = 1 /\ j.items = items
        /\ j.attempts = job[o].attempts
    <3>. DEFINE at == "restock" i == 1
    <3>1. /\ at \in {"none", "cancel", "read", "restock", "notify", "completed", "failed"}
          /\ i \in Nat \ {0}
      OBVIOUS
    <3>2. j = [job[o] EXCEPT !.at = at, !.i = i, !.items = items]
      BY Zenon
    <3>3. at = "restock" /\ i = 1
      BY Zenon
    <3>. HIDE DEF j, at, i
    <3>. QED BY <1>0, <2>1, <3>1, <3>2, <3>3 DEF Job
  <2>. HIDE DEF j
  <2>4. job' \in [OrderIds -> Job] /\ Restocking'
    BY <1>5, <2>1, <2>2, <2>3 DEF JobReadItems, Control, Types, Restocking
  <2>. QED BY <1>0, <1>5, <2>4, JobStepAlone DEF JobReadItems, rest
<1>4. CASE JobFails(o)
  <2>. DEFINE n == job[o].attempts + 1
              j == [at |-> IF n < MaxAttempts THEN "cancel" ELSE "failed", i |-> 1, attempts |-> n,
                    items |-> <<>>]
  <2>1. job' = [job EXCEPT ![o] = j] /\ orders[o].status # "absent"
        /\ job[o].attempts < MaxAttempts
    BY <1>4 DEF JobFails, Control, Restocking
  <2>2. j \in Job /\ j.at \in {"cancel", "failed"} /\ (j.at = "cancel" => j.attempts < MaxAttempts)
    BY <1>0, <2>1, StockAssumption DEF Job
  <2>. HIDE DEF j
  <2>3. job' \in [OrderIds -> Job] /\ Restocking'
    BY <1>4, <2>1, <2>2 DEF JobFails, Control, Types, Restocking
  <2>. QED BY <1>0, <1>4, <2>3, JobStepAlone DEF JobFails, rest
<1>. QED BY <1>1, <1>2, <1>3, <1>4, <1>5

-----------------------------------------------------------------------------

LEMMA MovesKeepsSolvent ==
  ASSUME Control, Control', Solvent, NEW p \in Procs, Moves(p)
  PROVE  Solvent'
<1>1. PICK x \in Products, n \in Int :
        /\ \A q \in Procs \ {p} : tx'[q] = tx[q]
        /\ tx'[p].delta = [tx[p].delta EXCEPT ![x] = @ + n]
        /\ n >= 0 \/ Sees(p, x) + n >= 0
        /\ MayUpdate(p, x) /\ rowLock' = [rowLock EXCEPT ![x] = p]
        /\ UNCHANGED stock
  BY DEF Moves
<1>2. /\ stock \in [Products -> Int] /\ rowLock \in [Products -> Procs \cup {NoProc}]
      /\ \A q \in Procs : tx[q].delta \in [Products -> Int]
  BY DEF Control, Types, Transaction
<1>3. \A y \in Products : /\ tx'[p].delta[y] = IF y = x THEN tx[p].delta[y] + n ELSE tx[p].delta[y]
                          /\ rowLock'[y] = IF y = x THEN p ELSE rowLock[y]
  BY <1>1, <1>2
<1>4. ASSUME NEW q \in Procs, NEW y \in Products
      PROVE  Sees(q, y)' >= 0 /\ (tx'[q].delta[y] # 0 => rowLock'[y] = q)
  <2>1. CASE q = p
    BY <1>1, <1>2, <1>3, <2>1 DEF Solvent, Sees
  <2>2. CASE q # p
    BY <1>1, <1>2, <1>3, <2>2, StockAssumption DEF Solvent, Sees, MayUpdate
  <2>. QED BY <2>1, <2>2
<1>. QED BY <1>1, <1>4 DEF Solvent

\* A transaction that begins or ends has changed nothing (yet), and one that
\* reads or inserts an item changes no stock.
LEMMA QuietKeepsSolvent ==
  ASSUME Control, Solvent, NEW p \in Procs,
         \A q \in Procs \ {p} : tx'[q] = tx[q],
         tx'[p].delta = tx[p].delta \/ tx'[p].delta = Nothing,
         \A x \in Products : rowLock[x] # p => rowLock'[x] = rowLock[x],
         tx'[p].delta = Nothing \/ UNCHANGED rowLock,
         UNCHANGED stock
  PROVE  Solvent'
<1>1. /\ stock \in [Products -> Int]
      /\ \A q \in Procs : tx[q].delta \in [Products -> Int]
  BY DEF Control, Types, Transaction
<1>2. ASSUME NEW q \in Procs, NEW y \in Products
      PROVE  Sees(q, y)' >= 0 /\ (tx'[q].delta[y] # 0 => rowLock'[y] = q)
  <2>1. CASE q = p /\ tx'[p].delta = Nothing
    BY <1>1, <2>1 DEF Nothing, Solvent, Sees
  <2>2. CASE q = p /\ tx'[p].delta # Nothing
    BY <1>1, <2>2 DEF Solvent, Sees
  <2>3. CASE q # p
    BY <1>1, <2>3 DEF Solvent, Sees
  <2>. QED BY <2>1, <2>2, <2>3
<1>. QED BY <1>2 DEF Solvent

LEMMA CommitKeepsSolvent ==
  ASSUME Control, Solvent, NEW p \in Procs, Commit(p)
  PROVE  Solvent'
<1>1. /\ stock \in [Products -> Int]
      /\ \A q \in Procs : tx[q].delta \in [Products -> Int]
  BY DEF Control, Types, Transaction
<1>2. /\ \A x \in Products : stock'[x] = Sees(p, x)
      /\ \A x \in Products : rowLock[x] # p => rowLock'[x] = rowLock[x]
  BY DEF Commit, Ended
<1>3. tx'[p].delta = Nothing /\ \A q \in Procs \ {p} : tx'[q] = tx[q]
  BY EndedAlone DEF Commit, NoTx, Opened
<1>4. ASSUME NEW q \in Procs, NEW y \in Products
      PROVE  Sees(q, y)' >= 0 /\ (tx'[q].delta[y] # 0 => rowLock'[y] = q)
  <2>1. CASE q = p
    BY <1>1, <1>2, <1>3, <2>1 DEF Nothing, Solvent, Sees
  <2>2. CASE q # p /\ tx[q].delta[y] = 0
    BY <1>1, <1>2, <1>3, <2>2 DEF Solvent, Sees
  <2>3. CASE q # p /\ tx[q].delta[y] # 0
    <3>1. rowLock[y] = q /\ tx[p].delta[y] = 0
      BY <2>3 DEF Solvent
    <3>2. stock'[y] = stock[y]
      BY <1>1, <1>2, <3>1 DEF Sees
    <3>. QED BY <1>1, <1>2, <1>3, <2>3, <3>1, <3>2 DEF Solvent, Sees
  <2>. QED BY <2>1, <2>2, <2>3
<1>. QED BY <1>2, <1>4 DEF Solvent

LEMMA RestockKeepsSolvent ==
  ASSUME Control, Solvent, NEW o \in OrderIds, JobRestockItem(o)
  PROVE  Solvent'
<1>. DEFINE it == job[o].items[job[o].i]
<1>1. it \in Item
  BY BasketItems DEF JobRestockItem, Control, Restocking
<1>2. stock' = [stock EXCEPT ![it.product] = @ + it.quantity] /\ UNCHANGED <<tx, rowLock>>
  BY DEF JobRestockItem
<1>. HIDE DEF it
<1>3. it.product \in Products /\ it.quantity \in Nat
  BY <1>1 DEF Item
<1>4. /\ stock \in [Products -> Int]
      /\ \A q \in Procs : tx[q].delta \in [Products -> Int]
  BY DEF Control, Types, Transaction
<1>5. \A x \in Products : stock'[x] \in Int /\ stock'[x] >= stock[x]
  BY <1>2, <1>3, <1>4
<1>. QED BY <1>2, <1>4, <1>5 DEF Solvent, Sees

-----------------------------------------------------------------------------

LEMMA InitSolvent == Init => Solvent
BY StockAssumption DEF Init, Solvent, Sees, NoTx, Opened, Nothing

LEMMA StepKeeps ==
  ASSUME Control, Solvent, [Next]_vars
  PROVE  Control' /\ Solvent'
<1>1. CASE UNCHANGED vars
  BY <1>1 DEF vars, Control, Types, Working, Sound, Alone, HasItems, Restocking, Solvent, Sees
<1>2. ASSUME NEW p \in Procs, NEW o \in OrderIds, NEW b \in Baskets,
             BeginCreate(p, o, b) \/ BeginModify(p, o, b) \/ BeginExpire(p, o)
      PROVE  Control' /\ Solvent'
  <2>1. /\ tx'[p].delta = Nothing /\ \A q \in Procs \ {p} : tx'[q] = tx[q]
        /\ UNCHANGED <<rowLock, stock>>
    BY <1>2 DEF BeginCreate, BeginModify, BeginExpire, Opened, Control, Types
  <2>. QED BY <1>2, <2>1, BeginKeepsControl, QuietKeepsSolvent
<1>3. ASSUME NEW p \in Procs, RestoreItem(p) \/ ReserveItem(p)
      PROVE  Control' /\ Solvent'
  BY <1>3, RestoreKeepsControl, ReserveKeepsControl, MovesKeepsSolvent
<1>4. ASSUME NEW p \in Procs, RollbackOf(p)
      PROVE  Control' /\ Solvent'
  <2>1. tx'[p].delta = Nothing /\ \A q \in Procs \ {p} : tx'[q] = tx[q]
    BY <1>4, EndedAlone DEF RollbackOf, NoTx, Opened
  <2>2. UNCHANGED stock /\ \A x \in Products : rowLock[x] # p => rowLock'[x] = rowLock[x]
    BY <1>4 DEF RollbackOf, Ended
  <2>. QED BY <1>4, <2>1, <2>2, RollbackKeepsControl, QuietKeepsSolvent
<1>5. ASSUME NEW p \in Procs, CheckItem(p), ~RollbackOf(p)
      PROVE  Control' /\ Solvent'
  <2>1. tx[p] \in Transaction /\ Len(tx[p].basket) \in Nat /\ tx[p].i \in 1..Len(tx[p].basket)
    BY <1>5, ItemAtHand, BasketItems DEF CheckItem
  <2>2. /\ tx'[p] = Stepped(tx[p], Len(tx[p].basket), "check", "insert")
        /\ \A q \in Procs \ {p} : tx'[q] = tx[q]
        /\ UNCHANGED <<rowLock, stock>>
    BY <1>5 DEF CheckItem, Control, Types
  <2>3. tx'[p].delta = tx[p].delta
    BY <2>1, <2>2, SteppedOn
  <2>. QED BY <1>5, <2>2, <2>3, CheckKeepsControl, QuietKeepsSolvent
<1>6. ASSUME NEW p \in Procs, InsertItem(p)
      PROVE  Control' /\ Solvent'
  <2>1. tx'[p].delta = tx[p].delta /\ \A q \in Procs \ {p} : tx'[q] = tx[q]
    BY <1>6 DEF InsertItem, Control, Types, Transaction
  <2>2. UNCHANGED <<rowLock, stock>>
    BY <1>6 DEF InsertItem
  <2>. QED BY <1>6, <2>1, <2>2, InsertKeepsControl, QuietKeepsSolvent
<1>7. ASSUME NEW p \in Procs, Commit(p)
      PROVE  Control' /\ Solvent'
  BY <1>7, CommitKeepsControl, CommitKeepsSolvent
<1>8. ASSUME NEW o \in OrderIds,
             \/ RequestPayment(o) \/ CancelOrder(o) \/ JobCancel(o)
             \/ Scan(o) \/ JobReadItems(o) \/ JobDone(o) \/ JobFails(o)
      PROVE  Control' /\ Solvent'
  <2>1. UNCHANGED <<tx, rowLock, stock>>
    BY <1>8 DEF RequestPayment, CancelOrder, JobCancel, Scan, JobReadItems, JobDone, JobFails
  <2>2. Solvent'
    BY <2>1 DEF Solvent, Sees
  <2>. QED BY <1>8, <2>2, StatusKeepsControl, JobKeepsControl
<1>9. ASSUME NEW o \in OrderIds, JobRestockItem(o)
      PROVE  Control' /\ Solvent'
  BY <1>9, JobKeepsControl, RestockKeepsSolvent
<1>10. ASSUME NEW p \in Procs, Advance(p) \/ Abort(p)
       PROVE  Control' /\ Solvent'
  BY <1>3, <1>4, <1>5, <1>6, <1>7, <1>10 DEF Advance, Abort, Rollback
<1>11. ASSUME NEW o \in OrderIds, RequestPayment(o) \/ CancelOrder(o) \/ Scan(o) \/ JobStep(o)
       PROVE  Control' /\ Solvent'
  BY <1>8, <1>9, <1>11 DEF JobStep
<1>12. ASSUME NEW p \in Procs, NEW o \in OrderIds,
              (\E b \in Baskets : BeginCreate(p, o, b) \/ BeginModify(p, o, b)) \/ BeginExpire(p, o)
       PROVE  Control' /\ Solvent'
  <2>1. CASE BeginExpire(p, o)
    <3>1. /\ tx'[p].delta = Nothing /\ \A q \in Procs \ {p} : tx'[q] = tx[q]
          /\ UNCHANGED <<rowLock, stock>>
      BY <2>1 DEF BeginExpire, Opened, Control, Types
    <3>2. orders[o].items \in Baskets
      BY <2>1 DEF BeginExpire, Control, HasItems
    <3>. QED BY <2>1, <3>1, <3>2, BeginKeepsControl, QuietKeepsSolvent
  <2>. QED BY <1>2, <1>12, <2>1
<1>. QED BY <1>1, <1>10, <1>11, <1>12 DEF Next

LEMMA Invariance == Spec => [](Control /\ Solvent)
<1>1. Init => Control /\ Solvent
  BY InitControl, InitSolvent
<1>2. Control /\ Solvent /\ [Next]_vars => (Control /\ Solvent)'
  BY StepKeeps
<1>. QED BY <1>1, <1>2, PTL DEF Spec

\* Every variable keeps its type (the history of returned units apart), a
\* transaction that changes an order has it alone and always has an item to
\* work on, and a job that gives back has an item of the list it read.
THEOREM ControlHolds == Spec => []Control
BY Invariance, PTL

\* No interleaving of the transactions and jobs oversells a product below zero,
\* for every number of products, orders, requests and retries.
THEOREM NoOverselling == Spec => []StockNeverNegative
<1>1. Solvent => StockNeverNegative
  BY DEF Solvent, StockNeverNegative
<1>. QED BY <1>1, Invariance, PTL

-----------------------------------------------------------------------------
(* Counting units *)

LEMMA UnionFinite ==
  ASSUME NEW f, IsFiniteSet(DOMAIN f), \A i \in DOMAIN f : IsFiniteSet(f[i])
  PROVE  IsFiniteSet(DisjointUnion(f)) /\ Cardinality(DisjointUnion(f)) \in Nat
<1>. DEFINE S == {{i} \X f[i] : i \in DOMAIN f}
            g == [i \in DOMAIN f |-> {i} \X f[i]]
<1>1. g \in Surjection(DOMAIN f, S)
  BY DEF Surjection
<1>2. IsFiniteSet(S)
  BY <1>1, FS_Surjection
<1>3. \A T \in S : IsFiniteSet(T)
  <2>. SUFFICES ASSUME NEW i \in DOMAIN f PROVE IsFiniteSet({i} \X f[i])
    OBVIOUS
  <2>. QED BY FS_Product, FS_Singleton
<1>4. IsFiniteSet(UNION S)
  BY <1>2, <1>3, FS_UNION
<1>. QED BY <1>4, FS_CardinalityType DEF DisjointUnion

\* Leaving a member out of a disjoint union takes its size off.
LEMMA WithoutMember ==
  ASSUME NEW f, IsFiniteSet(DOMAIN f), \A j \in DOMAIN f : IsFiniteSet(f[j]),
         NEW i \in DOMAIN f, NEW g, DOMAIN g = DOMAIN f \ {i}, \A j \in DOMAIN g : g[j] = f[j]
  PROVE  Cardinality(DisjointUnion(f)) = Cardinality(DisjointUnion(g)) + Cardinality(f[i])
<1>. DEFINE own == {i} \X f[i]
<1>1. IsFiniteSet(DisjointUnion(g)) /\ Cardinality(DisjointUnion(g)) \in Nat
  <2>1. IsFiniteSet(DOMAIN g) /\ \A j \in DOMAIN g : IsFiniteSet(g[j])
    BY FS_Subset
  <2>. QED BY <2>1, UnionFinite
<1>2. IsFiniteSet(own) /\ Cardinality(own) = Cardinality(f[i]) /\ Cardinality(f[i]) \in Nat
  <2>1. IsFiniteSet({i}) /\ Cardinality({i}) = 1 /\ IsFiniteSet(f[i]) /\ Cardinality(f[i]) \in Nat
    BY FS_Singleton, FS_CardinalityType
  <2>2. IsFiniteSet({i} \X f[i]) /\ Cardinality({i} \X f[i]) = Cardinality({i}) * Cardinality(f[i])
    BY <2>1, FS_Product
  <2>. HIDE DEF own
  <2>3. 1 * Cardinality(f[i]) = Cardinality(f[i])
    BY <2>1
  <2>. QED BY <2>1, <2>2, <2>3 DEF own
<1>3. DisjointUnion(f) = DisjointUnion(g) \cup own
  <2>1. \A u : u \in DisjointUnion(f) <=> \E j \in DOMAIN f : u \in {j} \X f[j]
    BY Zenon DEF DisjointUnion
  <2>2. \A u : u \in DisjointUnion(g) <=> \E j \in DOMAIN g : u \in {j} \X g[j]
    BY Zenon DEF DisjointUnion
  <2>. QED BY <2>1, <2>2
<1>4. DisjointUnion(g) \cap own = {}
  BY DEF DisjointUnion
<1>5. Cardinality(DisjointUnion(g) \cap own) = 0
  BY <1>4, FS_EmptySet
<1>6. Cardinality(DisjointUnion(f)) = Cardinality(DisjointUnion(g)) + Cardinality(own)
                                      - Cardinality(DisjointUnion(g) \cap own)
  BY <1>1, <1>2, <1>3, FS_Union
<1>. HIDE DEF own
<1>. QED BY <1>1, <1>2, <1>5, <1>6

LEMMA LineUnits ==
  ASSUME NEW items \in Baskets, NEW x, NEW j \in 1..Len(items)
  PROVE  LET units == IF items[j].product = x THEN 1..items[j].quantity ELSE {}
         IN  /\ IsFiniteSet(units)
             /\ Cardinality(units) = IF items[j].product = x THEN items[j].quantity ELSE 0
<1>1. items[j].quantity \in Nat /\ items[j].quantity > 0
  BY BasketItems DEF Item
<1>2. /\ IsFiniteSet(1..items[j].quantity)
      /\ Cardinality(1..items[j].quantity) = items[j].quantity
  <2>. DEFINE n == items[j].quantity
  <2>1. n \in Int /\ ~(1 > n) /\ n - 1 + 1 = n
    BY <1>1
  <2>. HIDE DEF n
  <2>2. IsFiniteSet(1..n) /\ Cardinality(1..n) = n
    BY <2>1, FS_Interval
  <2>. QED BY <2>2 DEF n
<1>. QED BY <1>2, FS_EmptySet

\* The units of the first n lines are finitely many, and the n-th line adds
\* its own.
LEMMA UnitsOfLines ==
  ASSUME NEW items \in Baskets, NEW x, NEW n \in 0..Len(items)
  PROVE  /\ IsFiniteSet(UnitsIn(items, x, n)) /\ Cardinality(UnitsIn(items, x, n)) \in Nat
         /\ n > 0 => Cardinality(UnitsIn(items, x, n)) =
              Cardinality(UnitsIn(items, x, n - 1))
                + IF items[n].product = x THEN items[n].quantity ELSE 0
<1>. DEFINE line(j) == IF items[j].product = x THEN 1..items[j].quantity ELSE {}
            f == [j \in 1..n |-> line(j)]
            g == [j \in 1..(n - 1) |-> line(j)]
<1>1. Len(items) \in Nat /\ 1..n \subseteq 1..Len(items)
  BY BasketItems
<1>2. \A j \in 1..n : IsFiniteSet(line(j)) /\
        Cardinality(line(j)) = IF items[j].product = x THEN items[j].quantity ELSE 0
  BY <1>1, LineUnits
<1>. HIDE DEF line
<1>3. IsFiniteSet(DOMAIN f) /\ \A j \in DOMAIN f : IsFiniteSet(f[j])
  BY <1>1, <1>2, FS_Interval
<1>4. UnitsIn(items, x, n) = DisjointUnion(f) /\ UnitsIn(items, x, n - 1) = DisjointUnion(g)
  BY Zenon DEF UnitsIn, line
<1>5. n > 0 => /\ n \in DOMAIN f /\ f[n] = line(n)
               /\ DOMAIN g = DOMAIN f \ {n} /\ \A j \in DOMAIN g : g[j] = f[j]
  BY <1>1
<1>6. n > 0 => Cardinality(DisjointUnion(f)) = Cardinality(DisjointUnion(g)) + Cardinality(line(n))
  <2>. HIDE DEF f, g
  <2>. QED BY <1>3, <1>5, WithoutMember
<1>7. IsFiniteSet(DisjointUnion(f)) /\ Cardinality(DisjointUnion(f)) \in Nat
  <2>. HIDE DEF f, g
  <2>. QED BY <1>3, UnionFinite
<1>8. n > 0 => Cardinality(line(n)) = IF items[n].product = x THEN items[n].quantity ELSE 0
  BY <1>1, <1>2
<1>. HIDE DEF f, g
<1>. QED BY <1>4, <1>6, <1>7, <1>8

LEMMA NoLines ==
  ASSUME NEW items, NEW x
  PROVE  IsFiniteSet(UnitsIn(items, x, 0)) /\ Cardinality(UnitsIn(items, x, 0)) = 0
<1>1. UnitsIn(items, x, 0) = {}
  BY DEF UnitsIn, DisjointUnion
<1>. QED BY <1>1, FS_EmptySet

\* The units of a list of items, and of all the orders together.
LEMMA UnitsFinite ==
  ASSUME NEW items \in Baskets \cup {<<>>}, NEW x
  PROVE  IsFiniteSet(Units(items, x)) /\ Cardinality(Units(items, x)) \in Nat
<1>1. CASE items \in Baskets
  <2>1. Len(items) \in 0..Len(items)
    BY <1>1, BasketItems
  <2>. QED BY <1>1, <2>1, UnitsOfLines DEF Units
<1>2. CASE items = <<>>
  <2>1. Len(items) = 0
    BY <1>2
  <2>. QED BY <2>1, NoLines DEF Units
<1>. QED BY <1>1, <1>2

LEMMA NamedFinite ==
  ASSUME Control, NEW x
  PROVE  Cardinality(Named(x)) \in Nat
<1>. DEFINE f == [r \in OrderIds |-> Units(orders[r].items, x)]
<1>1. \A r \in OrderIds : orders[r].items \in Baskets \cup {<<>>}
  BY DEF Control, Types
<1>2. IsFiniteSet(DOMAIN f) /\ \A r \in DOMAIN f : IsFiniteSet(f[r])
  BY <1>1, UnitsFinite, StockAssumption
<1>3. Named(x) = DisjointUnion(f)
  BY Zenon DEF Named
<1>. HIDE DEF f
<1>. QED BY <1>2, <1>3, UnionFinite

\* One order whose items change.
LEMMA NamedChanges ==
  ASSUME Control, Control', NEW o \in OrderIds, NEW x,
         \A r \in OrderIds \ {o} : orders'[r].items = orders[r].items
  PROVE  Cardinality(Named(x)') + Cardinality(Units(orders[o].items, x)) =
         Cardinality(Named(x)) + Cardinality(Units(orders'[o].items, x))
<1>. DEFINE f == [r \in OrderIds |-> Units(orders[r].items, x)]
            h == [r \in OrderIds |-> Units(orders'[r].items, x)]
            g == [r \in OrderIds \ {o} |-> Units(orders[r].items, x)]
<1>1. /\ \A r \in OrderIds : orders[r].items \in Baskets \cup {<<>>}
      /\ \A r \in OrderIds : orders'[r].items \in Baskets \cup {<<>>}
  BY DEF Control, Types
<1>2. /\ IsFiniteSet(DOMAIN f) /\ \A r \in DOMAIN f : IsFiniteSet(f[r])
      /\ IsFiniteSet(DOMAIN h) /\ \A r \in DOMAIN h : IsFiniteSet(h[r])
      /\ IsFiniteSet(DOMAIN g) /\ \A r \in DOMAIN g : IsFiniteSet(g[r])
  BY <1>1, UnitsFinite, FS_RemoveElement, StockAssumption
<1>3. /\ o \in DOMAIN f /\ DOMAIN g = DOMAIN f \ {o} /\ \A r \in DOMAIN g : g[r] = f[r]
      /\ o \in DOMAIN h /\ DOMAIN g = DOMAIN h \ {o} /\ \A r \in DOMAIN g : g[r] = h[r]
  OBVIOUS
<1>4. f[o] = Units(orders[o].items, x) /\ h[o] = Units(orders'[o].items, x)
  OBVIOUS
<1>5. Named(x) = DisjointUnion(f) /\ Named(x)' = DisjointUnion(h)
  BY Zenon DEF Named
<1>6. Cardinality(f[o]) \in Nat /\ Cardinality(h[o]) \in Nat
  BY <1>1, <1>4, UnitsFinite
<1>. HIDE DEF f, g, h
<1>7. Cardinality(DisjointUnion(g)) \in Nat
  BY <1>2, UnionFinite
<1>8. /\ Cardinality(DisjointUnion(f)) = Cardinality(DisjointUnion(g)) + Cardinality(f[o])
      /\ Cardinality(DisjointUnion(h)) = Cardinality(DisjointUnion(g)) + Cardinality(h[o])
  BY <1>2, <1>3, WithoutMember
<1>. QED BY <1>4, <1>5, <1>6, <1>7, <1>8

-----------------------------------------------------------------------------
(* Balanced books: what an open transaction has added to each product is what *)
(* it gave back of its order's items less what it took for its own.           *)

LinesBack(t) == IF t.at = "restore" THEN t.i - 1 ELSE Len(orders[t.order].items)
LinesTaken(t) == CASE t.at \in {"insert", "reserve"} -> t.i - 1
                   [] t.at = "commit" -> Len(t.basket)
                   [] OTHER -> 0
Back(t, x) == Cardinality(UnitsIn(orders[t.order].items, x, LinesBack(t)))
Taken(t, x) == Cardinality(UnitsIn(t.basket, x, LinesTaken(t)))

\* An item that took nothing is noted, and then the books are off.
Balanced(t) == (t.at # "idle" /\ ~t.missed) =>
  \A x \in Products : t.delta[x] = Back(t, x) - Taken(t, x)

OwnBasket(t) == t.op = "expire" => t.basket = <<>> /\ ~t.missed

Books ==
  /\ returned \in [Products -> Nat]
  /\ \A o \in OrderIds : orders[o].status = "absent" => orders[o].items = <<>>
  /\ \A p \in Procs : OwnBasket(tx[p]) /\ Balanced(tx[p])
  /\ StockExact

LEMMA InitBooks == Init => Books
<1>. SUFFICES ASSUME Init PROVE Books
  OBVIOUS
<1>1. \A p \in Procs : OwnBasket(tx[p]) /\ Balanced(tx[p])
  BY DEF Init, NoTx, Opened, OwnBasket, Balanced
<1>2. returned \in [Products -> Nat]
  BY DEF Init, Nothing
<1>3. \A o \in OrderIds : orders[o].items = <<>>
  BY DEF Init
<1>4. ASSUME NEW x \in Products
      PROVE  Named(x) = {}
  <2>1. Units(<<>>, x) = {}
    <3>1. Len(<<>>) = 0 /\ UnitsIn(<<>>, x, 0) = {}
      BY DEF UnitsIn, DisjointUnion
    <3>. QED BY <3>1 DEF Units
  <2>. QED BY <1>3, <2>1 DEF Named, DisjointUnion
<1>5. StockExact
  BY <1>4, FS_EmptySet, StockAssumption DEF Init, StockExact, Nothing
<1>. QED BY <1>1, <1>2, <1>3, <1>5 DEF Books

\* A transaction that goes on.
LEMMA TxKeepsBooks ==
  ASSUME Control, Books, NEW p \in Procs, NEW t, tx' = [tx EXCEPT ![p] = t],
         UNCHANGED <<stock, orders, short, returned>>, OwnBasket(t), Balanced(t)
  PROVE  Books'
<1>1. tx'[p] = t /\ \A q \in Procs \ {p} : tx'[q] = tx[q]
  BY DEF Control, Types
<1>2. \A q \in Procs : OwnBasket(tx'[q]) /\ Balanced(tx'[q])
  BY <1>1 DEF Books
<1>3. \A q \in Procs : OwnBasket(tx[q])' /\ Balanced(tx[q])'
  BY <1>2 DEF OwnBasket, Balanced, Back, Taken, LinesBack, LinesTaken
<1>4. StockExact'
  BY DEF Books, StockExact, Named
<1>. QED BY <1>3, <1>4 DEF Books

\* The statements of a transaction move its line and its balance together.
LEMMA SteppedTo ==
  ASSUME NEW t \in Transaction, NEW len \in Nat, t.i \in 1..len,
         NEW here \in {"restore", "check", "insert"}, NEW next \in {"check", "insert", "commit"}
  PROVE  LET u == Stepped(t, len, here, next)
         IN  IF t.i = len THEN u.at = next /\ u.i = 1 ELSE u.at = here /\ u.i = t.i + 1
<1>. DEFINE at == IF t.i = len THEN next ELSE here
            i == IF t.i = len THEN 1 ELSE t.i + 1
            u == [t EXCEPT !.at = at, !.i = i]
<1>1. u.at = at /\ u.i = i
  <2>. HIDE DEF at, i
  <2>. QED BY DEF Transaction
<1>. QED BY <1>1 DEF Stepped

LEMMA RestoreKeepsBooks ==
  ASSUME Control, Books, NEW p \in Procs, RestoreItem(p)
  PROVE  Books'
<1>. DEFINE items == orders[tx[p].order].items
            it == items[tx[p].i]
            u == Adds(tx[p], it.product, it.quantity)
            t == Stepped(u, Len(items), "restore", AfterRestore(u))
<1>1. /\ tx[p].at = "restore" /\ tx[p] \in Transaction /\ tx[p].order \in OrderIds
      /\ tx[p].op \in {"modify", "expire"}
      /\ items \in Baskets /\ tx[p].i \in 1..Len(items) /\ it \in Item
  BY ItemAtHand DEF RestoreItem
<1>2. it.product \in Products /\ it.quantity \in Int /\ Len(items) \in Nat
  BY <1>1, BasketItems DEF Item
<1>3. /\ u \in Transaction /\ u.i = tx[p].i /\ u.op = tx[p].op
      /\ u.order = tx[p].order /\ u.basket = tx[p].basket /\ u.missed = tx[p].missed
      /\ u.delta = [tx[p].delta EXCEPT ![it.product] = @ + it.quantity]
  <2>. HIDE DEF it
  <2>. QED BY <1>1, <1>2, AddsUnits
<1>4. AfterRestore(u) = AfterRestore(tx[p]) /\ AfterRestore(u) \in {"check", "commit"}
      /\ (AfterRestore(u) = "commit" => u.op = "expire")
  BY <1>1, <1>3 DEF AfterRestore
<1>5. tx' = [tx EXCEPT ![p] = t] /\ UNCHANGED <<stock, orders, short, returned>>
  BY <1>4 DEF RestoreItem, u, rest
<1>. HIDE DEF u
<1>6. /\ t.op = tx[p].op /\ t.order = tx[p].order /\ t.basket = tx[p].basket
      /\ t.delta = u.delta /\ t.missed = tx[p].missed
      /\ IF u.i = Len(items) THEN t.at = AfterRestore(u) /\ t.i = 1
                             ELSE t.at = "restore" /\ t.i = u.i + 1
  <2>. HIDE DEF items
  <2>. DEFINE next == AfterRestore(u)
  <2>1. u.i \in 1..Len(items) /\ next \in {"check", "insert", "commit"}
    BY <1>1, <1>3, <1>4
  <2>2. /\ t.op = u.op /\ t.order = u.order /\ t.basket = u.basket
        /\ t.delta = u.delta /\ t.missed = u.missed
    <3>. HIDE DEF next
    <3>. QED BY <1>2, <1>3, <2>1, SteppedOn DEF next
  <2>3. IF u.i = Len(items) THEN t.at = next /\ t.i = 1 ELSE t.at = "restore" /\ t.i = u.i + 1
    <3>. HIDE DEF next
    <3>. QED BY <1>2, <1>3, <2>1, SteppedTo DEF next
  <2>. QED BY <1>3, <2>2, <2>3
<1>. HIDE DEF t
<1>7. OwnBasket(tx[p]) /\ Balanced(tx[p])
  BY DEF Books
<1>8. OwnBasket(t)
  BY <1>6, <1>7 DEF OwnBasket
<1>9. LinesBack(t) = tx[p].i /\ LinesBack(tx[p]) = tx[p].i - 1
  <2>1. LinesBack(tx[p]) = tx[p].i - 1
    BY <1>1 DEF LinesBack
  <2>2. CASE u.i = Len(items)
    <3>1. t.at # "restore" /\ t.order = tx[p].order
      BY <1>4, <1>6, <2>2
    <3>2. LinesBack(t) = Len(items)
      BY <3>1 DEF LinesBack
    <3>. QED BY <1>3, <2>1, <2>2, <3>2
  <2>3. CASE u.i # Len(items)
    <3>1. LinesBack(t) = t.i - 1 /\ t.i = tx[p].i + 1
      BY <1>3, <1>6, <2>3 DEF LinesBack
    <3>2. tx[p].i \in Int
      BY <1>1, <1>2
    <3>. HIDE DEF items, it
    <3>. QED BY <2>1, <3>1, <3>2
  <2>. QED BY <2>2, <2>3
<1>10. LinesTaken(t) = 0 /\ LinesTaken(tx[p]) = 0
  <2>1. CASE t.at = "commit"
    <3>1. t.basket = <<>>
      BY <1>1, <1>3, <1>4, <1>6, <1>8, <2>1 DEF OwnBasket
    <3>. QED BY <1>1, <2>1, <3>1 DEF LinesTaken
  <2>2. CASE t.at # "commit"
    BY <1>1, <1>4, <1>6, <2>2 DEF LinesTaken
  <2>. QED BY <2>1, <2>2
<1>11. ASSUME NEW x \in Products, ~tx[p].missed
       PROVE  t.delta[x] = Back(t, x) - Taken(t, x)
  <2>. DEFINE n == tx[p].i
  <2>1. n \in 0..Len(items) /\ n > 0 /\ n - 1 \in 0..Len(items)
    BY <1>1, <1>2
  <2>2. /\ Cardinality(UnitsIn(items, x, n)) \in Nat /\ Cardinality(UnitsIn(items, x, n - 1)) \in Nat
        /\ Cardinality(UnitsIn(items, x, n)) = Cardinality(UnitsIn(items, x, n - 1))
             + IF it.product = x THEN it.quantity ELSE 0
    <3>. HIDE DEF items, n
    <3>. QED BY <1>1, <2>1, UnitsOfLines DEF it, n
  <2>3. /\ Back(t, x) = Cardinality(UnitsIn(items, x, n)) /\ Back(tx[p], x) = Cardinality(UnitsIn(items, x, n - 1))
        /\ Taken(t, x) = 0 /\ Taken(tx[p], x) = 0
    BY <1>6, <1>9, <1>10, NoLines DEF Back, Taken
  <2>4. tx[p].delta[x] = Back(tx[p], x) - Taken(tx[p], x)
    BY <1>1, <1>7, <1>11 DEF Balanced
  <2>5. t.delta[x] = tx[p].delta[x] + IF it.product = x THEN it.quantity ELSE 0
    <3>1. tx[p].delta \in [Products -> Int]
      BY <1>1 DEF Transaction
    <3>. HIDE DEF it
    <3>. QED BY <1>2, <1>3, <1>6, <3>1
  <2>. HIDE DEF n, it, items
  <2>. QED BY <1>2, <2>2, <2>3, <2>4, <2>5
<1>12. Balanced(t)
  BY <1>6, <1>11 DEF Balanced
<1>. QED BY <1>5, <1>8, <1>12, TxKeepsBooks

LEMMA CheckKeepsBooks ==
  ASSUME Control, Books, NEW p \in Procs, CheckItem(p), ~RollbackOf(p)
  PROVE  Books'
<1>. DEFINE t == Stepped(tx[p], Len(tx[p].basket), "check", "insert")
<1>1. /\ tx[p].at = "check" /\ tx[p] \in Transaction /\ tx[p].op \in {"create", "modify"}
      /\ tx[p].basket \in Baskets /\ tx[p].i \in 1..Len(tx[p].basket)
  BY ItemAtHand DEF CheckItem
<1>2. Len(tx[p].basket) \in Nat
  BY <1>1, BasketItems
<1>3. /\ t.op = tx[p].op /\ t.order = tx[p].order /\ t.basket = tx[p].basket
      /\ t.delta = tx[p].delta /\ t.missed = tx[p].missed
      /\ IF tx[p].i = Len(tx[p].basket) THEN t.at = "insert" /\ t.i = 1
                                        ELSE t.at = "check" /\ t.i = tx[p].i + 1
  BY <1>1, <1>2, SteppedOn, SteppedTo
<1>4. tx' = [tx EXCEPT ![p] = t] /\ UNCHANGED <<stock, orders, short, returned>>
  BY DEF CheckItem, rest
<1>. HIDE DEF t
<1>5. OwnBasket(tx[p]) /\ Balanced(tx[p])
  BY DEF Books
<1>6. LinesBack(t) = LinesBack(tx[p]) /\ LinesTaken(t) = 0 /\ LinesTaken(tx[p]) = 0
  BY <1>1, <1>3 DEF LinesBack, LinesTaken
<1>7. OwnBasket(t) /\ Balanced(t)
  BY <1>1, <1>3, <1>5, <1>6 DEF OwnBasket, Balanced, Back, Taken
<1>. QED BY <1>4, <1>7, TxKeepsBooks

LEMMA InsertKeepsBooks ==
  ASSUME Control, Books, NEW p \in Procs, InsertItem(p)
  PROVE  Books'
<1>. DEFINE t == [tx[p] EXCEPT !.at = "reserve"]
<1>1. tx[p].at = "insert" /\ tx[p] \in Transaction
  BY ItemAtHand DEF InsertItem
<1>2. /\ t.op = tx[p].op /\ t.order = tx[p].order /\ t.basket = tx[p].basket /\ t.i = tx[p].i
      /\ t.delta = tx[p].delta /\ t.missed = tx[p].missed /\ t.at = "reserve"
  BY <1>1 DEF Transaction
<1>3. tx' = [tx EXCEPT ![p] = t] /\ UNCHANGED <<stock, orders, short, returned>>
  BY DEF InsertItem, rest
<1>. HIDE DEF t
<1>4. OwnBasket(tx[p]) /\ Balanced(tx[p])
  BY DEF Books
<1>5. LinesBack(t) = LinesBack(tx[p]) /\ LinesTaken(t) = LinesTaken(tx[p])
  BY <1>1, <1>2 DEF LinesBack, LinesTaken
<1>6. OwnBasket(t) /\ Balanced(t)
  BY <1>1, <1>2, <1>4, <1>5 DEF OwnBasket, Balanced, Back, Taken
<1>. QED BY <1>3, <1>6, TxKeepsBooks

LEMMA ReserveKeepsBooks ==
  ASSUME Control, Books, NEW p \in Procs, ReserveItem(p)
  PROVE  Books'
<1>. DEFINE items == tx[p].basket
            it == items[tx[p].i]
            enough == Sees(p, it.product) >= it.quantity
            u == IF enough THEN Adds(tx[p], it.product, -it.quantity) ELSE [tx[p] EXCEPT !.missed = TRUE]
            t == Stepped(u, Len(items), "insert", "commit")
<1>1. /\ tx[p].at = "reserve" /\ tx[p] \in Transaction /\ tx[p].op \in {"create", "modify"}
      /\ items \in Baskets /\ tx[p].i \in 1..Len(items) /\ it \in Item
  BY ItemAtHand DEF ReserveItem
<1>2. it.product \in Products /\ it.quantity \in Int /\ -it.quantity \in Int /\ Len(items) \in Nat
  BY <1>1, BasketItems DEF Item
<1>3. /\ u \in Transaction /\ u.i = tx[p].i /\ u.op = tx[p].op
      /\ u.order = tx[p].order /\ u.basket = items
      /\ ~u.missed => enough /\ ~tx[p].missed
                             /\ u.delta = [tx[p].delta EXCEPT ![it.product] = @ + -it.quantity]
  <2>1. CASE enough
    <3>. HIDE DEF it, enough
    <3>. QED BY <1>1, <1>2, <2>1, AddsUnits
  <2>2. CASE ~enough
    <3>. HIDE DEF enough
    <3>. QED BY <1>1, <2>2 DEF Transaction
  <2>. QED BY <2>1, <2>2
<1>4. tx' = [tx EXCEPT ![p] = t] /\ UNCHANGED <<stock, orders, short, returned>>
  BY DEF ReserveItem, rest
<1>. HIDE DEF u, enough
<1>5. /\ t.op = tx[p].op /\ t.order = tx[p].order /\ t.basket = items
      /\ t.delta = u.delta /\ t.missed = u.missed
      /\ IF u.i = Len(items) THEN t.at = "commit" /\ t.i = 1 ELSE t.at = "insert" /\ t.i = u.i + 1
  <2>. HIDE DEF items
  <2>1. u.i \in 1..Len(items)
    BY <1>1, <1>3
  <2>. QED BY <1>2, <1>3, <2>1, SteppedOn, SteppedTo
<1>. HIDE DEF t
<1>6. OwnBasket(tx[p]) /\ Balanced(tx[p])
  BY DEF Books
<1>7. LinesTaken(t) = tx[p].i /\ LinesTaken(tx[p]) = tx[p].i - 1
  <2>1. LinesTaken(tx[p]) = tx[p].i - 1
    BY <1>1 DEF LinesTaken
  <2>2. CASE u.i = Len(items)
    <3>1. LinesTaken(t) = Len(t.basket)
      BY <1>5, <2>2 DEF LinesTaken
    <3>. QED BY <1>3, <1>5, <2>1, <2>2, <3>1
  <2>3. CASE u.i # Len(items)
    <3>1. LinesTaken(t) = t.i - 1 /\ t.i = tx[p].i + 1
      BY <1>3, <1>5, <2>3 DEF LinesTaken
    <3>2. tx[p].i \in Int
      BY <1>1, <1>2
    <3>. HIDE DEF items, it
    <3>. QED BY <2>1, <3>1, <3>2
  <2>. QED BY <2>2, <2>3
<1>8. LinesBack(t) = LinesBack(tx[p])
  BY <1>1, <1>5 DEF LinesBack
<1>9. ASSUME NEW x \in Products, ~t.missed
      PROVE  t.delta[x] = Back(t, x) - Taken(t, x)
  <2>. DEFINE n == tx[p].i
  <2>1. n \in 0..Len(items) /\ n > 0 /\ n - 1 \in 0..Len(items)
    BY <1>1, <1>2
  <2>2. /\ Cardinality(UnitsIn(items, x, n)) \in Nat /\ Cardinality(UnitsIn(items, x, n - 1)) \in Nat
        /\ Cardinality(UnitsIn(items, x, n)) = Cardinality(UnitsIn(items, x, n - 1))
             + IF it.product = x THEN it.quantity ELSE 0
    <3>. HIDE DEF items, n
    <3>. QED BY <1>1, <2>1, UnitsOfLines DEF it, n
  <2>3. /\ Taken(t, x) = Cardinality(UnitsIn(items, x, n)) /\ Taken(tx[p], x) = Cardinality(UnitsIn(items, x, n - 1))
        /\ Back(t, x) = Back(tx[p], x)
    BY <1>5, <1>7, <1>8 DEF Back, Taken
  <2>4. tx[p].delta[x] = Back(tx[p], x) - Taken(tx[p], x)
    BY <1>1, <1>3, <1>5, <1>6, <1>9 DEF Balanced
  <2>5. tx[p].delta \in [Products -> Int]
    BY <1>1 DEF Transaction
  <2>6. t.delta[x] = tx[p].delta[x] - IF it.product = x THEN it.quantity ELSE 0
    <3>. HIDE DEF it
    <3>. QED BY <1>2, <1>3, <1>5, <1>9, <2>5
  <2>7. Back(tx[p], x) \in Int
    <3>1. Sound(p, tx[p]) /\ tx[p].order \in OrderIds
      BY <1>1 DEF Control, Working, Sound
    <3>2. orders[tx[p].order].items \in Baskets \cup {<<>>}
      BY <3>1 DEF Control, Types
    <3>3. LinesBack(tx[p]) = Len(orders[tx[p].order].items)
      BY <1>1 DEF LinesBack
    <3>. QED BY <3>2, <3>3, UnitsFinite DEF Back, Units
  <2>. HIDE DEF n, it, items
  <2>. QED BY <1>2, <2>2, <2>3, <2>4, <2>6, <2>7
<1>10. OwnBasket(t) /\ Balanced(t)
  BY <1>1, <1>5, <1>9 DEF OwnBasket, Balanced
<1>. QED BY <1>4, <1>10, TxKeepsBooks

\* A transaction that ends without effect.
LEMMA RollbackKeepsBooks ==
  ASSUME Control, Books, NEW p \in Procs, RollbackOf(p)
  PROVE  Books'
<1>1. OwnBasket(NoTx) /\ Balanced(NoTx)
  BY DEF NoTx, Opened, OwnBasket, Balanced
<1>. QED BY <1>1, TxKeepsBooks DEF RollbackOf, Ended, rest

LEMMA BeginKeepsBooks ==
  ASSUME Control, Books, NEW p \in Procs, NEW o \in OrderIds,
         BeginExpire(p, o) \/ \E b \in Baskets : BeginCreate(p, o, b) \/ BeginModify(p, o, b)
  PROVE  Books'
<1>1. ASSUME NEW at \in {"check", "restore"}, NEW op, NEW b, op = "expire" => b = <<>>,
             at = "check" => Len(orders[o].items) = 0,
             tx' = [tx EXCEPT ![p] = Opened(at, op, o, b)],
             UNCHANGED <<stock, orders, short, returned>>
      PROVE  Books'
  <2>. DEFINE t == Opened(at, op, o, b)
  <2>1. /\ t.at = at /\ t.op = op /\ t.order = o /\ t.basket = b /\ t.i = 1
        /\ t.delta = Nothing /\ ~t.missed
    BY DEF Opened
  <2>. HIDE DEF t
  <2>2. LinesBack(t) = 0 /\ LinesTaken(t) = 0
    BY <1>1, <2>1 DEF LinesBack, LinesTaken
  <2>3. \A x \in Products : Back(t, x) = 0 /\ Taken(t, x) = 0 /\ t.delta[x] = 0
    BY <2>1, <2>2, NoLines DEF Back, Taken, Nothing
  <2>4. OwnBasket(t) /\ Balanced(t)
    BY <1>1, <2>1, <2>3 DEF OwnBasket, Balanced
  <2>. QED BY <1>1, <2>4, TxKeepsBooks DEF t
<1>2. CASE BeginExpire(p, o)
  BY <1>1, <1>2 DEF BeginExpire, rest
<1>3. ASSUME NEW b \in Baskets, BeginCreate(p, o, b)
      PROVE  Books'
  <2>1. Len(orders[o].items) = 0
    BY <1>3 DEF BeginCreate, Books
  <2>2. tx' = [tx EXCEPT ![p] = Opened("check", "create", o, b)] /\ UNCHANGED <<stock, orders, short, returned>>
    BY <1>3 DEF BeginCreate, rest
  <2>3. "create" # "expire"
    OBVIOUS
  <2>. QED BY <1>1, <2>1, <2>2, <2>3
<1>4. ASSUME NEW b \in Baskets, BeginModify(p, o, b)
      PROVE  Books'
  <2>1. tx' = [tx EXCEPT ![p] = Opened("restore", "modify", o, b)] /\ UNCHANGED <<stock, orders, short, returned>>
    BY <1>4 DEF BeginModify, rest
  <2>2. "modify" # "expire" /\ "restore" # "check"
    OBVIOUS
  <2>. QED BY <1>1, <2>1, <2>2
<1>. QED BY <1>2, <1>3, <1>4

\* Steps that leave every order's items and the stock as they are.
LEMMA SameItemsKeepBooks ==
  ASSUME Control, Books, UNCHANGED <<stock, tx, short, returned>>,
         \A r \in OrderIds : orders'[r].items = orders[r].items /\
                             (orders'[r].status = "absent" => orders[r].status = "absent")
  PROVE  Books'
<1>1. ASSUME NEW p \in Procs
      PROVE  Balanced(tx[p])' /\ OwnBasket(tx[p])'
  <2>1. tx[p].at # "idle" => tx[p].order \in OrderIds
    BY DEF Control, Working, Sound
  <2>2. Balanced(tx[p]) /\ OwnBasket(tx[p])
    BY DEF Books
  <2>3. CASE tx[p].at = "idle"
    BY <2>2, <2>3 DEF Balanced, OwnBasket
  <2>4. CASE tx[p].at # "idle"
    BY <2>1, <2>2, <2>4 DEF Balanced, OwnBasket, Back, Taken, LinesBack, LinesTaken
  <2>. QED BY <2>3, <2>4
<1>2. \A x : Named(x)' = Named(x)
  BY DEF Named
<1>3. StockExact'
  BY <1>2 DEF Books, StockExact
<1>. QED BY <1>1, <1>3 DEF Books

LEMMA RestockKeepsBooks ==
  ASSUME Control, Books, NEW o \in OrderIds, JobRestockItem(o)
  PROVE  Books'
<1>. DEFINE it == job[o].items[job[o].i]
<1>1. it \in Item
  BY BasketItems DEF JobRestockItem, Control, Restocking
<1>2. /\ stock' = [stock EXCEPT ![it.product] = @ + it.quantity]
      /\ returned' = [returned EXCEPT ![it.product] = @ + it.quantity]
      /\ UNCHANGED <<orders, tx, short>>
  BY DEF JobRestockItem
<1>. HIDE DEF it
<1>3. it.product \in Products /\ it.quantity \in Nat
  BY <1>1 DEF Item
<1>4. stock \in [Products -> Int] /\ returned \in [Products -> Nat]
  BY DEF Control, Types, Books
<1>5. /\ returned' \in [Products -> Nat]
      /\ \A x \in Products : \E n \in Nat : stock'[x] = stock[x] + n /\ returned'[x] = returned[x] + n
  <2>1. \A x \in Products :
          /\ stock'[x] = stock[x] + (IF x = it.product THEN it.quantity ELSE 0)
          /\ returned'[x] = returned[x] + (IF x = it.product THEN it.quantity ELSE 0)
    BY <1>2, <1>3, <1>4
  <2>. QED BY <1>2, <1>3, <1>4, <2>1
<1>6. \A x : Named(x)' = Named(x) /\ Cardinality(Named(x)) \in Nat
  BY <1>2, NamedFinite DEF Named
<1>7. StockExact'
  <2>. SUFFICES ASSUME short' = {}, NEW x \in Products
                PROVE  stock'[x] + Cardinality(Named(x)') = InitialStock + returned'[x]
    BY DEF StockExact
  <2>1. stock[x] + Cardinality(Named(x)) = InitialStock + returned[x]
    BY <1>2 DEF Books, StockExact
  <2>2. PICK n \in Nat : stock'[x] = stock[x] + n /\ returned'[x] = returned[x] + n
    BY <1>5
  <2>. QED BY <1>4, <1>6, <2>1, <2>2, StockAssumption
<1>8. \A p \in Procs : OwnBasket(tx[p])' /\ Balanced(tx[p])'
  BY <1>2 DEF Books, OwnBasket, Balanced, Back, Taken, LinesBack, LinesTaken
<1>. QED BY <1>2, <1>5, <1>7, <1>8 DEF Books

\* The arithmetic of a commit.
LEMMA BalanceMoves ==
  ASSUME NEW s \in Int, NEW n \in Int, NEW m \in Int, NEW was \in Int, NEW is \in Int, NEW took \in Int,
         NEW d \in Int, NEW first \in Int, NEW r \in Int, NEW back \in Int,
         s + n = first + r, d = was - took, m + was = n + is, back - r = is - took
  PROVE  s + d + m = first + back
OBVIOUS

LEMMA CommitKeepsBooks ==
  ASSUME Control, Control', Books, NEW p \in Procs, Commit(p)
  PROVE  Books'
<1>. DEFINE o == tx[p].order
            expire == tx[p].op = "expire"
            old == orders[o].items
            new == IF expire THEN old ELSE tx[p].basket
            st == CASE expire -> "cancelled" [] tx[p].op = "create" -> "pending" [] OTHER -> orders[o].status
<1>1. /\ tx[p].at = "commit" /\ o \in OrderIds /\ tx[p] \in Transaction
      /\ tx[p].op \in {"create", "modify", "expire"}
      /\ old \in Baskets \cup {<<>>} /\ tx[p].basket \in Baskets \cup {<<>>}
      /\ st # "absent" /\ tx[p].delta \in [Products -> Int]
  <2>1. Sound(p, tx[p]) /\ tx[p].at = "commit" /\ tx[p] \in Transaction /\ o \in OrderIds
    BY DEF Control, Types, Working, Sound, Commit
  <2>2. tx[p].op \in {"create", "modify", "expire"}
    BY <2>1 DEF Transaction, Sound
  <2>3. old \in Baskets \cup {<<>>} /\ tx[p].basket \in Baskets \cup {<<>>} /\ tx[p].delta \in [Products -> Int]
    BY <2>1 DEF Control, Types, Transaction
  <2>4. st # "absent"
    BY <2>1, <2>2 DEF Sound
  <2>. QED BY <2>1, <2>2, <2>3, <2>4
<1>2. /\ orders' = [orders EXCEPT ![o] = [status |-> st, items |-> new]]
      /\ stock' = [x \in Products |-> Sees(p, x)]
      /\ short' = IF tx[p].missed THEN short \cup {o} ELSE short
      /\ returned' = IF expire THEN [x \in Products |-> returned[x] + Cardinality(Units(old, x))] ELSE returned
      /\ Ended(p)
  BY DEF Commit
<1>. HIDE DEF st
<1>3. /\ orders'[o].items = new /\ orders'[o].status = st
      /\ \A r \in OrderIds \ {o} : orders'[r] = orders[r]
  BY <1>1, <1>2 DEF Control, Types
<1>4. returned' \in [Products -> Nat]
  <2>1. \A x : Cardinality(Units(old, x)) \in Nat
    BY <1>1, UnitsFinite
  <2>. HIDE DEF old
  <2>. QED BY <1>2, <2>1 DEF Books
<1>5. \A r \in OrderIds : orders'[r].status = "absent" => orders'[r].items = <<>>
  BY <1>1, <1>3 DEF Books
<1>6. ASSUME NEW q \in Procs
      PROVE  OwnBasket(tx[q])' /\ Balanced(tx[q])'
  <2>1. CASE q = p
    BY <1>2, <2>1, EndedAlone DEF NoTx, Opened, OwnBasket, Balanced
  <2>2. CASE q # p /\ tx[q].at = "idle"
    BY <1>2, <2>2, EndedAlone DEF Books, OwnBasket, Balanced
  <2>3. CASE q # p /\ tx[q].at # "idle"
    <3>1. tx'[q] = tx[q] /\ OwnBasket(tx[q]) /\ Balanced(tx[q])
      BY <1>2, <2>3, EndedAlone DEF Books
    <3>2. tx[q].order \in OrderIds \ {o}
      BY <1>1, <2>3, Apart DEF Control, Working, Sound
    <3>3. orders'[tx[q].order] = orders[tx[q].order]
      BY <1>3, <3>2
    <3>. QED BY <3>1, <3>3 DEF OwnBasket, Balanced, Back, Taken, LinesBack, LinesTaken
  <2>. QED BY <2>1, <2>2, <2>3
<1>7. StockExact'
  <2>. SUFFICES ASSUME short' = {}, NEW x \in Products
                PROVE  stock'[x] + Cardinality(Named(x)') = InitialStock + returned'[x]
    BY DEF StockExact
  <2>1. ~tx[p].missed /\ stock[x] + Cardinality(Named(x)) = InitialStock + returned[x]
    BY <1>2 DEF Books, StockExact
  <2>2. tx[p].delta[x] = Cardinality(Units(old, x)) - Cardinality(Units(tx[p].basket, x))
    <3>1. LinesBack(tx[p]) = Len(old) /\ LinesTaken(tx[p]) = Len(tx[p].basket)
      BY <1>1 DEF LinesBack, LinesTaken
    <3>2. tx[p].delta[x] = Back(tx[p], x) - Taken(tx[p], x)
      BY <1>1, <2>1 DEF Books, Balanced
    <3>. QED BY <3>1, <3>2 DEF Back, Taken, Units
  <2>3. stock'[x] = stock[x] + tx[p].delta[x]
    BY <1>2 DEF Sees
  <2>4. Cardinality(Named(x)') + Cardinality(Units(old, x)) = Cardinality(Named(x)) + Cardinality(Units(new, x))
    BY <1>1, <1>3, NamedChanges
  <2>5. /\ Cardinality(Units(old, x)) \in Nat /\ Cardinality(Units(tx[p].basket, x)) \in Nat
        /\ Cardinality(Named(x)) \in Nat /\ Cardinality(Named(x)') \in Nat
        /\ stock[x] \in Int /\ returned[x] \in Nat
    <3>1. Cardinality(Named(x)') \in Nat
      <4>1. \A r \in OrderIds : orders'[r].items \in Baskets \cup {<<>>}
        BY DEF Control, Types
      <4>. DEFINE h == [r \in OrderIds |-> Units(orders'[r].items, x)]
      <4>2. IsFiniteSet(DOMAIN h) /\ \A r \in DOMAIN h : IsFiniteSet(h[r])
        BY <4>1, UnitsFinite, StockAssumption
      <4>3. Named(x)' = DisjointUnion(h)
        BY Zenon DEF Named
      <4>. HIDE DEF h
      <4>. QED BY <4>2, <4>3, UnionFinite
    <3>2. stock[x] \in Int /\ returned[x] \in Nat
      BY DEF Control, Types, Books
    <3>. QED BY <1>1, <3>1, <3>2, UnitsFinite, NamedFinite
  <2>8. ASSUME returned'[x] - returned[x] = Cardinality(Units(new, x)) - Cardinality(Units(tx[p].basket, x))
        PROVE  stock'[x] + Cardinality(Named(x)') = InitialStock + returned'[x]
    <3>1. Cardinality(Units(new, x)) \in Int /\ returned'[x] \in Int /\ tx[p].delta[x] \in Int /\ InitialStock \in Int
      BY <1>1, <1>4, <2>5, StockAssumption
    <3>. HIDE DEF old, new
    <3>2. stock[x] + tx[p].delta[x] + Cardinality(Named(x)') = InitialStock + returned'[x]
      BY <2>1, <2>2, <2>4, <2>5, <2>8, <3>1, BalanceMoves
    <3>. QED BY <2>3, <3>2
  <2>6. CASE expire
    <3>1. tx[p].basket = <<>> /\ new = old
      BY <2>6 DEF Books, OwnBasket
    <3>2. Cardinality(Units(tx[p].basket, x)) = 0
      <4>1. Len(tx[p].basket) = 0
        BY <3>1
      <4>. QED BY <4>1, NoLines DEF Units
    <3>3. returned'[x] = returned[x] + Cardinality(Units(old, x))
      BY <1>2, <2>6
    <3>4. Cardinality(Units(new, x)) = Cardinality(Units(old, x))
      BY <3>1
    <3>5. returned'[x] - returned[x] = Cardinality(Units(new, x)) - Cardinality(Units(tx[p].basket, x))
      <4>. HIDE DEF old, new
      <4>. QED BY <2>5, <3>2, <3>3, <3>4
    <3>. QED BY <2>8, <3>5
  <2>7. CASE ~expire
    <3>1. new = tx[p].basket /\ returned' = returned
      BY <1>2, <2>7
    <3>2. Cardinality(Units(new, x)) = Cardinality(Units(tx[p].basket, x)) /\ returned'[x] = returned[x]
      BY <3>1
    <3>3. returned'[x] - returned[x] = Cardinality(Units(new, x)) - Cardinality(Units(tx[p].basket, x))
      <4>. HIDE DEF old, new
      <4>. QED BY <2>5, <3>2
    <3>. QED BY <2>8, <3>3
  <2>. QED BY <2>6, <2>7
<1>. QED BY <1>4, <1>5, <1>6, <1>7 DEF Books

LEMMA StepKeepsBooks ==
  ASSUME Control, Control', Books, [Next]_vars
  PROVE  Books'
<1>1. CASE UNCHANGED vars
  BY <1>1, SameItemsKeepBooks DEF vars
<1>2. ASSUME NEW p \in Procs, Advance(p) \/ Abort(p)
      PROVE  Books'
  BY <1>2, RestoreKeepsBooks, CheckKeepsBooks, InsertKeepsBooks, ReserveKeepsBooks, CommitKeepsBooks,
     RollbackKeepsBooks DEF Advance, Abort, Rollback
<1>3. ASSUME NEW o \in OrderIds, RequestPayment(o) \/ CancelOrder(o) \/ JobCancel(o)
      PROVE  Books'
  <2>1. PICK st \in {"payment_requested", "cancelled"} : orders' = [orders EXCEPT ![o].status = st]
    BY <1>3 DEF RequestPayment, CancelOrder, JobCancel
  <2>2. UNCHANGED <<stock, tx, short, returned>>
    BY <1>3 DEF RequestPayment, CancelOrder, JobCancel, rest
  <2>3. \A r \in OrderIds : orders'[r].items = orders[r].items /\
                            (orders'[r].status = "absent" => orders[r].status = "absent")
    BY <2>1 DEF Control, Types
  <2>. QED BY <2>2, <2>3, SameItemsKeepBooks
<1>4. ASSUME NEW o \in OrderIds, Scan(o) \/ JobReadItems(o) \/ JobDone(o) \/ JobFails(o)
      PROVE  Books'
  BY <1>4, SameItemsKeepBooks DEF Scan, JobReadItems, JobDone, JobFails, rest
<1>. QED BY <1>1, <1>2, <1>3, <1>4, BeginKeepsBooks, RestockKeepsBooks DEF Next, JobStep

LEMMA BooksInvariant == Spec => []Books
BY InitBooks, StepKeepsBooks, ControlHolds, PTL DEF Spec

\* Every variable keeps its type.
THEOREM StockTypesHold == Spec => []TypeOK
<1>1. Control /\ Books => TypeOK
  BY DEF Control, Books, TypeOK
<1>. QED BY <1>1, ControlHolds, BooksInvariant, PTL

\* No interleaving of transactions, rollbacks, deadlocks, status changes and
\* repeated jobs creates or loses a unit of any product, unless an item of an
\* order took nothing: the stock is what there was, less what the orders name,
\* plus what expirations gave back.
THEOREM NoUnitLost == Spec => []StockExact
<1>1. Books => StockExact
  BY DEF Books
<1>. QED BY <1>1, BooksInvariant, PTL

=============================================================================
