----------------------------- MODULE BillingProofs -----------------------------
(***************************************************************************)
(* Theorems about PaymentIntents and the Subscriptions it extends, for any *)
(* plans, notifications, payment links and requests at one time.  Inv is   *)
(* inductive.  Its heart is Done: the notifications that were matched to a *)
(* payment of a subscription and whose request is over; a subscription     *)
(* never has more periods than those.                                      *)
(***************************************************************************)
EXTENDS PaymentIntents, FiniteSetTheorems, TLAPS

\* A request that works on a notification; what it may do to the tables
\* with it.
Syncing == {"findPending", "confirm", "markMatched", "readPeriod", "renew"}
Done(s) == {n \in Matched(s) : \A p \in Procs : pc[p] \in Syncing => ctx[p].note # n}

\* What holds of a request between two of its statements.
HoldsSub(p) ==
  /\ pc[p] \in {"cancelOthers", "insertSub"} => ctx[p].plan \in Plans
  /\ pc[p] \in {"insertPayment", "cancel"} =>
       ctx[p].sub \in SubIds /\ subs[ctx[p].sub].status # "none"
HoldsNote(p) ==
  pc[p] \in Syncing =>
    /\ ctx[p].note \in Notes /\ notes[ctx[p].note].status # "none"
    /\ pc[p] \in {"findPending", "confirm", "markMatched"} => notes[ctx[p].note].payment = 0
    /\ pc[p] \in {"readPeriod", "renew"} => notes[ctx[p].note].status = "matched"
HoldsPayment(p) ==
  /\ pc[p] \in {"confirm", "markMatched", "readPeriod"} =>
       /\ ctx[p].payment \in PaymentIds /\ payments[ctx[p].payment].status # "none"
       /\ notes[ctx[p].note].amount = PriceOf(ctx[p].payment)
  /\ pc[p] = "readPeriod" => notes[ctx[p].note].payment = ctx[p].payment
  /\ pc[p] = "renew" =>
       /\ ctx[p].sub \in SubIds /\ ctx[p].sub = payments[notes[ctx[p].note].payment].sub
       /\ ctx[p].periods <= Cardinality(Done(ctx[p].sub))
Holds(p) == HoldsSub(p) /\ HoldsNote(p) /\ HoldsPayment(p)

OwnNote ==
  \A p, r \in Procs : pc[p] \in Syncing /\ pc[r] \in Syncing /\ p # r => ctx[p].note # ctx[r].note

\* What holds of the rows.
RowsLinked ==
  /\ \A s \in SubIds :
       IF subs[s].status = "none" THEN subs[s].plan = NoPlan /\ subs[s].by = Nobody
                                  ELSE subs[s].plan \in Plans
  /\ \A q \in PaymentIds : payments[q].status # "none" =>
       payments[q].sub \in SubIds /\ subs[payments[q].sub].status # "none"
  /\ \A n \in Notes : notes[n].status = "matched" =>
       notes[n].payment \in PaymentIds /\ payments[notes[n].payment].status # "none"

\* The notification of a confirmed payment is not about to confirm another.
Confirming(q) ==
  payments[q].status = "confirmed" =>
    /\ payments[q].note \in Notes /\ notes[payments[q].note].status # "none"
    /\ \A p \in Procs : pc[p] \in Syncing /\ ctx[p].note = payments[q].note =>
         /\ pc[p] \notin {"findPending", "confirm"}
         /\ pc[p] = "markMatched" => ctx[p].payment = q

Counted == \A s \in SubIds : subs[s].periods <= Cardinality(Done(s))

SubsInv ==
  /\ TypeOK /\ RowsLinked /\ OwnNote /\ PaidInKind /\ Counted
  /\ \A p \in Procs : Holds(p)
  /\ \A q \in PaymentIds : Confirming(q)

-----------------------------------------------------------------------------
LEMMA Ids ==
  /\ SubIds \subseteq Nat \ {0} /\ PaymentIds \subseteq Nat \ {0}
  /\ 0 \notin SubIds /\ 0 \notin PaymentIds
<1>1. Cardinality(Sources) \in Nat
  BY SubscriptionsAssumption, FS_CardinalityType
<1>. QED BY <1>1, SubscriptionsAssumption DEF SubIds, PaymentIds

LEMMA DoneFinite ==
  ASSUME NEW s \in SubIds
  PROVE  /\ IsFiniteSet(Done(s)) /\ IsFiniteSet(Matched(s))
         /\ Cardinality(Done(s)) \in Nat /\ Cardinality(Matched(s)) \in Nat
         /\ Cardinality(Done(s)) <= Cardinality(Matched(s))
<1>1. Done(s) \subseteq Matched(s) /\ Matched(s) \subseteq Notes
  BY DEF Done, Matched
<1>2. IsFiniteSet(Matched(s))
  BY <1>1, SubscriptionsAssumption, FS_Subset
<1>. QED BY <1>1, <1>2, FS_Subset, FS_CardinalityType

LEMMA InitSubsInv == Init => SubsInv
<1>. SUFFICES ASSUME Init PROVE SubsInv
  OBVIOUS
<1>1. TypeOK
  BY Ids DEF Init, TypeOK, Types, Row, Payment, Note, Context, NoContext, Labels
<1>2. RowsLinked /\ OwnNote /\ PaidInKind /\ \A q \in PaymentIds : Confirming(q)
  BY DEF Init, RowsLinked, OwnNote, PaidInKind, Confirming, Syncing
<1>3. \A p \in Procs : Holds(p)
  BY DEF Init, Holds, HoldsSub, HoldsNote, HoldsPayment, Syncing
<1>4. Counted
  BY DoneFinite DEF Init, Counted
<1>. QED BY <1>1, <1>2, <1>3, <1>4 DEF SubsInv

-----------------------------------------------------------------------------
(* What every step of a request p leaves alone.  From it and from what    *)
(* holds of p afterwards follows SubsInv'.                                *)

Alone(p) ==
  \A r \in Procs \ {p} : pc'[r] = pc[r] /\ ctx'[r] = ctx[r]

KeepsRows(p) ==
  /\ \A s \in SubIds : subs[s].status # "none" =>
       subs'[s].status # "none" /\ subs'[s].plan = subs[s].plan
  /\ \A q \in PaymentIds : payments[q].status # "none" =>
       payments'[q].status # "none" /\ payments'[q].sub = payments[q].sub
  /\ \A n \in Notes : notes[n].status # "none" =>
       /\ notes'[n].status # "none" /\ notes'[n].amount = notes[n].amount
       /\ \/ notes'[n] = notes[n]
          \/ pc[p] = "markMatched" /\ n = ctx[p].note /\ notes'[n].payment = ctx[p].payment

\* What p may write.
NewRows(p) ==
  /\ \A s \in SubIds :
       /\ subs[s].status = "none" /\ subs'[s].status # "none" => subs'[s].plan \in Plans
       /\ subs'[s].status = "none" => subs'[s] = subs[s]
  /\ \A q \in PaymentIds :
       /\ payments[q].status = "none" /\ payments'[q].status # "none" =>
            payments'[q].sub \in SubIds /\ subs'[payments'[q].sub].status # "none"
       /\ payments'[q].status = "confirmed" /\ payments'[q] # payments[q] =>
            pc[p] = "confirm" /\ q = ctx[p].payment /\ payments'[q].note = ctx[p].note
  /\ \A n \in Notes : notes[n].status # "matched" /\ notes'[n].status = "matched" =>
       notes'[n].payment \in PaymentIds /\ payments'[notes'[n].payment].status # "none"

\* Where p may go with a notification.
KeepsNote(p) ==
  pc'[p] \in Syncing =>
    /\ \/ pc[p] \in Syncing /\ ctx'[p].note = ctx[p].note
       \/ pc'[p] = "findPending" /\ ctx'[p].note \in Notes /\ notes[ctx'[p].note].status = "none"
    /\ pc'[p] \in {"findPending", "confirm"} /\ pc[p] \in Syncing => pc[p] = "findPending"
    /\ pc'[p] = "markMatched" => pc[p] = "confirm" /\ ctx'[p].payment = ctx[p].payment
    /\ pc[p] = "confirm" => pc'[p] = "markMatched"

LEMMA DoneLarger ==
  ASSUME SubsInv, NEW s \in SubIds, NEW n \in Nat, n <= Cardinality(Done(s)), Done(s) \subseteq Done(s)'
  PROVE  n <= Cardinality(Done(s)')
<1>1. IsFiniteSet(Done(s)')
  <2>1. Done(s)' \subseteq Notes
    BY DEF Done, Matched
  <2>. QED BY <2>1, SubscriptionsAssumption, FS_Subset
<1>2. Cardinality(Done(s)) <= Cardinality(Done(s)') /\ Cardinality(Done(s)') \in Nat
  BY <1>1, FS_Subset, FS_CardinalityType
<1>. QED BY <1>2, DoneFinite

LEMMA DoneGrows ==
  ASSUME SubsInv, NEW p \in Procs, Alone(p), KeepsRows(p), KeepsNote(p), NEW s \in SubIds
  PROVE  Done(s) \subseteq Done(s)'
<1>. SUFFICES ASSUME NEW n \in Done(s) PROVE n \in Done(s)'
  OBVIOUS
<1>1. /\ n \in Notes /\ notes[n].status = "matched" /\ payments[notes[n].payment].sub = s
      /\ \A r \in Procs : pc[r] \in Syncing => ctx[r].note # n
  BY DEF Done, Matched
<1>2. notes[n].payment \in PaymentIds /\ payments[notes[n].payment].status # "none"
  BY <1>1 DEF SubsInv, RowsLinked
<1>3. notes'[n] = notes[n]
  BY <1>1 DEF KeepsRows, Syncing
<1>4. n \in Matched(s)'
  BY <1>1, <1>2, <1>3 DEF KeepsRows, Matched
<1>5. ASSUME NEW r \in Procs, pc'[r] \in Syncing
      PROVE  ctx'[r].note # n
  BY <1>1, <1>5 DEF Alone, KeepsNote
<1>. QED BY <1>4, <1>5 DEF Done

LEMMA OthersHold ==
  ASSUME SubsInv, NEW p \in Procs, Alone(p), KeepsRows(p), KeepsNote(p), NEW r \in Procs \ {p}
  PROVE  Holds(r)'
<1>1. pc'[r] = pc[r] /\ ctx'[r] = ctx[r] /\ Holds(r)
  BY DEF Alone, SubsInv
<1>2. HoldsSub(r)'
  BY <1>1 DEF Holds, HoldsSub, KeepsRows
<1>3. ASSUME pc[r] \in Syncing
      PROVE  ctx[r].note \in Notes /\ notes[ctx[r].note].status # "none"
             /\ notes'[ctx[r].note] = notes[ctx[r].note]
  BY <1>1, <1>3 DEF Holds, HoldsNote, KeepsRows, SubsInv, OwnNote, Syncing
<1>4. HoldsNote(r)'
  BY <1>1, <1>3 DEF Holds, HoldsNote, Syncing
<1>5. ASSUME pc[r] \in {"confirm", "markMatched", "readPeriod"}
      PROVE  payments'[ctx[r].payment].status # "none" /\ PriceOf(ctx[r].payment)' = PriceOf(ctx[r].payment)
  <2>1. ctx[r].payment \in PaymentIds /\ payments[ctx[r].payment].status # "none"
    BY <1>1, <1>5 DEF Holds, HoldsPayment
  <2>2. payments[ctx[r].payment].sub \in SubIds /\ subs[payments[ctx[r].payment].sub].status # "none"
    BY <2>1 DEF SubsInv, RowsLinked
  <2>3. /\ payments'[ctx[r].payment].status # "none"
        /\ payments'[ctx[r].payment].sub = payments[ctx[r].payment].sub
    BY <2>1 DEF KeepsRows
  <2>4. subs'[payments[ctx[r].payment].sub].plan = subs[payments[ctx[r].payment].sub].plan
    BY <2>2 DEF KeepsRows
  <2>. QED BY <1>1, <2>3, <2>4 DEF PriceOf
<1>6. ASSUME pc[r] = "renew"
      PROVE  /\ ctx[r].sub = payments'[notes'[ctx[r].note].payment].sub
             /\ ctx[r].periods <= Cardinality(Done(ctx[r].sub)')
  <2>1. notes[ctx[r].note].status = "matched" /\ notes'[ctx[r].note] = notes[ctx[r].note]
    BY <1>1, <1>3, <1>6 DEF Holds, HoldsNote, Syncing
  <2>2. ctx[r].sub = payments'[notes'[ctx[r].note].payment].sub /\ ctx[r].sub \in SubIds
    BY <1>1, <1>3, <1>6, <2>1 DEF Holds, HoldsPayment, KeepsRows, SubsInv, RowsLinked, Syncing
  <2>3. \A s \in SubIds : Done(s) \subseteq Done(s)'
    BY DoneGrows
  <2>4. ctx[r].periods \in Nat
    BY DEF SubsInv, TypeOK, Types, Context
  <2>. QED BY <1>1, <1>6, <2>2, <2>3, <2>4, DoneLarger DEF Holds, HoldsPayment
<1>7. HoldsPayment(r)'
  BY <1>1, <1>3, <1>5, <1>6 DEF Holds, HoldsPayment, Syncing
<1>. QED BY <1>2, <1>4, <1>7 DEF Holds

LEMMA RowsStay ==
  ASSUME SubsInv, NEW p \in Procs, Alone(p), KeepsRows(p), NewRows(p), KeepsNote(p)
  PROVE  RowsLinked' /\ OwnNote'
<1>1. RowsLinked'
  <2>1. ASSUME NEW s \in SubIds
        PROVE  IF subs'[s].status = "none" THEN subs'[s].plan = NoPlan /\ subs'[s].by = Nobody
                                           ELSE subs'[s].plan \in Plans
    BY DEF SubsInv, RowsLinked, KeepsRows, NewRows
  <2>2. ASSUME NEW q \in PaymentIds, payments'[q].status # "none"
        PROVE  payments'[q].sub \in SubIds /\ subs'[payments'[q].sub].status # "none"
    BY <2>2 DEF SubsInv, RowsLinked, KeepsRows, NewRows
  <2>3. ASSUME NEW n \in Notes, notes'[n].status = "matched"
        PROVE  notes'[n].payment \in PaymentIds /\ payments'[notes'[n].payment].status # "none"
    <3>1. CASE notes[n].status = "matched"
      <4>1. notes[n].payment \in PaymentIds /\ payments[notes[n].payment].status # "none"
        BY <3>1 DEF SubsInv, RowsLinked
      <4>2. CASE notes'[n] = notes[n]
        BY <4>1, <4>2 DEF KeepsRows
      <4>3. CASE pc[p] = "markMatched" /\ n = ctx[p].note /\ notes'[n].payment = ctx[p].payment
        BY <4>3 DEF SubsInv, Holds, HoldsPayment, KeepsRows
      <4>. QED BY <3>1, <4>2, <4>3 DEF KeepsRows
    <3>. QED BY <2>3, <3>1 DEF NewRows
  <2>. QED BY <2>1, <2>2, <2>3 DEF RowsLinked
<1>2. ASSUME NEW r \in Procs, NEW t \in Procs \ {p}, pc'[r] \in Syncing, pc'[t] \in Syncing, r # t
      PROVE  ctx'[r].note # ctx'[t].note
  <2>1. pc[t] \in Syncing /\ ctx'[t] = ctx[t] /\ notes[ctx[t].note].status # "none"
    BY <1>2 DEF Alone, SubsInv, Holds, HoldsNote
  <2>2. CASE r # p
    BY <1>2, <2>1, <2>2 DEF Alone, SubsInv, OwnNote
  <2>3. CASE r = p
    BY <1>2, <2>1, <2>3 DEF KeepsNote, SubsInv, OwnNote
  <2>. QED BY <2>2, <2>3
<1>3. OwnNote'
  BY <1>2 DEF OwnNote
<1>. QED BY <1>1, <1>3

LEMMA PaidStays ==
  ASSUME SubsInv, NEW p \in Procs, Alone(p), KeepsRows(p), NewRows(p), KeepsNote(p)
  PROVE  PaidInKind' /\ \A q \in PaymentIds : Confirming(q)'
<1>. SUFFICES ASSUME NEW q \in PaymentIds, payments'[q].status = "confirmed"
              PROVE  /\ payments'[q].note \in Notes
                     /\ notes'[payments'[q].note].amount = PriceOf(q)'
                     /\ notes'[payments'[q].note].payment \in {0, q}
                     /\ Confirming(q)'
  BY DEF PaidInKind, Confirming, PriceOf
<1>1. CASE payments'[q] = payments[q]
  <2>. DEFINE n == payments[q].note
  <2>1. /\ n \in Notes /\ notes[n].status # "none" /\ notes[n].amount = PriceOf(q)
        /\ notes[n].payment \in {0, q} /\ payments[q].status = "confirmed"
    BY <1>1 DEF SubsInv, PaidInKind, Confirming
  <2>2. PriceOf(q)' = PriceOf(q)
    BY <1>1, <2>1 DEF PriceOf, KeepsRows, SubsInv, RowsLinked
  <2>3. \A r \in Procs : pc[r] \in Syncing /\ ctx[r].note = n =>
          pc[r] \notin {"findPending", "confirm"} /\ (pc[r] = "markMatched" => ctx[r].payment = q)
    BY <2>1 DEF SubsInv, Confirming
  <2>4. notes'[n].status # "none" /\ notes'[n].amount = notes[n].amount /\ notes'[n].payment \in {0, q}
    BY <2>1, <2>3 DEF KeepsRows, Syncing
  <2>5. ASSUME NEW r \in Procs, pc'[r] \in Syncing, ctx'[r].note = n
        PROVE  pc'[r] \notin {"findPending", "confirm"} /\ (pc'[r] = "markMatched" => ctx'[r].payment = q)
    <3>1. CASE r # p
      BY <2>3, <2>5, <3>1 DEF Alone
    <3>2. CASE r = p
      <4>1. pc[p] \in Syncing /\ ctx[p].note = n
        BY <2>1, <2>5, <3>2 DEF KeepsNote
      <4>. QED BY <2>3, <2>5, <3>2, <4>1 DEF KeepsNote
    <3>. QED BY <3>1, <3>2
  <2>. QED BY <1>1, <2>1, <2>2, <2>4, <2>5 DEF Confirming
<1>2. CASE payments'[q] # payments[q]
  <2>. DEFINE n == ctx[p].note
  <2>1. pc[p] = "confirm" /\ q = ctx[p].payment /\ payments'[q].note = n
    BY <1>2 DEF NewRows
  <2>2. /\ n \in Notes /\ notes[n].status # "none" /\ notes[n].payment = 0
        /\ notes[n].amount = PriceOf(q) /\ payments[q].status # "none"
    BY <2>1 DEF SubsInv, Holds, HoldsNote, HoldsPayment, Syncing
  <2>3. notes'[n] = notes[n]
    BY <2>1, <2>2 DEF KeepsRows
  <2>4. PriceOf(q)' = PriceOf(q)
    BY <2>2 DEF PriceOf, KeepsRows, SubsInv, RowsLinked
  <2>5. ASSUME NEW r \in Procs, pc'[r] \in Syncing, ctx'[r].note = n
        PROVE  pc'[r] \notin {"findPending", "confirm"} /\ (pc'[r] = "markMatched" => ctx'[r].payment = q)
    <3>1. r = p
      BY <2>1, <2>5 DEF Alone, SubsInv, OwnNote, Syncing
    <3>. QED BY <2>1, <2>5, <3>1 DEF KeepsNote
  <2>. QED BY <2>1, <2>2, <2>3, <2>4, <2>5 DEF Confirming
<1>. QED BY <1>1, <1>2

LEMMA StepKeeps ==
  ASSUME SubsInv, TypeOK', NEW p \in Procs, Alone(p), KeepsRows(p), NewRows(p), KeepsNote(p),
         Holds(p)', Counted'
  PROVE  SubsInv'
BY OthersHold, RowsStay, PaidStays DEF SubsInv

\* Only the end of a renewal has to be counted.
LEMMA CountStays ==
  ASSUME SubsInv, TypeOK', NEW p \in Procs, Alone(p), KeepsRows(p), KeepsNote(p),
         \A s \in SubIds : subs'[s].periods \in {0, subs[s].periods}
  PROVE  Counted'
<1>. SUFFICES ASSUME NEW s \in SubIds PROVE subs'[s].periods <= Cardinality(Done(s)')
  BY DEF Counted
<1>1. subs[s].periods \in Nat /\ subs[s].periods <= Cardinality(Done(s)) /\ 0 <= Cardinality(Done(s))
  BY DoneFinite DEF SubsInv, Counted, TypeOK, Types, Row
<1>2. Done(s) \subseteq Done(s)'
  BY DoneGrows
<1>. QED BY <1>1, <1>2, DoneLarger

-----------------------------------------------------------------------------
(* One lemma for each statement.  First where a request stands afterwards. *)

LEMMA Moves ==
  ASSUME TypeOK, NEW p \in Procs, NEW label \in Labels, NEW c \in Context,
         pc' = [pc EXCEPT ![p] = label], ctx' = [ctx EXCEPT ![p] = c]
  PROVE  /\ Alone(p) /\ pc'[p] = label /\ ctx'[p] = c
         /\ pc' \in [Procs -> Labels] /\ ctx' \in [Procs -> Context]
BY DEF TypeOK, Types, Alone

LEMMA EmptyContext == NoContext \in Context /\ "idle" \in Labels \ Syncing
BY DEF NoContext, Context, Labels, Syncing

\* A request that begins or ends, and writes nothing.
LEMMA Quiet ==
  ASSUME SubsInv, NEW p \in Procs, NEW label \in Labels \ Syncing, NEW c \in Context,
         pc' = [pc EXCEPT ![p] = label], ctx' = [ctx EXCEPT ![p] = c], UNCHANGED tables,
         label \in {"cancelOthers", "insertSub"} => c.plan \in Plans,
         label \in {"insertPayment", "cancel"} => c.sub \in SubIds /\ subs[c.sub].status # "none"
  PROVE  SubsInv'
<1>1. Alone(p) /\ pc'[p] = label /\ ctx'[p] = c /\ TypeOK'
  BY Moves DEF SubsInv, TypeOK, Types, tables
<1>2. KeepsRows(p) /\ NewRows(p)
  BY DEF KeepsRows, NewRows, tables
<1>3. KeepsNote(p)
  BY <1>1 DEF KeepsNote
<1>4. Holds(p)'
  BY <1>1 DEF Holds, HoldsSub, HoldsNote, HoldsPayment, Syncing, tables
<1>5. Counted'
  BY <1>1, <1>2, <1>3, CountStays DEF tables
<1>. QED BY <1>1, <1>2, <1>3, <1>4, <1>5, StepKeeps

LEMMA EndKeeps ==
  ASSUME SubsInv, NEW p \in Procs, Finish(p), UNCHANGED tables
  PROVE  SubsInv'
BY Quiet, EmptyContext DEF Finish, Goto

\* What begins a request about a subscription; a row with a plan is there.
LEMMA BeginKeeps ==
  ASSUME SubsInv, NEW p \in Procs,
         \/ \E plan \in Plans, pay \in BOOLEAN : BeginSubscribe(p, plan, pay)
         \/ \E plan \in Plans : BeginCreatorSubscribe(p, plan)
         \/ \E s \in SubIds : BeginPay(p, s) \/ BeginCancel(p, s)
  PROVE  SubsInv'
<1>1. ASSUME NEW plan \in Plans, NEW pay \in BOOLEAN, BeginSubscribe(p, plan, pay)
      PROVE  SubsInv'
  <2>. DEFINE c == [NoContext EXCEPT !.plan = plan, !.pay = pay]
  <2>1. c \in Context /\ c.plan = plan
    BY EmptyContext DEF Context
  <2>2. pc' = [pc EXCEPT ![p] = "cancelOthers"] /\ ctx' = [ctx EXCEPT ![p] = c] /\ UNCHANGED tables
    BY <1>1 DEF BeginSubscribe, Enter, Goto
  <2>. HIDE DEF c
  <2>. QED BY <2>1, <2>2, Quiet DEF Labels, Syncing
<1>2. ASSUME NEW plan \in Plans, BeginCreatorSubscribe(p, plan)
      PROVE  SubsInv'
  <2>. DEFINE c == [NoContext EXCEPT !.plan = plan, !.pay = Price[plan] > 0]
  <2>1. c \in Context /\ c.plan = plan
    <3>1. (Price[plan] > 0) \in BOOLEAN
      OBVIOUS
    <3>. QED BY <3>1, EmptyContext DEF Context
  <2>2. pc' = [pc EXCEPT ![p] = "insertSub"] /\ ctx' = [ctx EXCEPT ![p] = c] /\ UNCHANGED tables
    BY <1>2 DEF BeginCreatorSubscribe, Enter, Goto
  <2>. HIDE DEF c
  <2>. QED BY <2>1, <2>2, Quiet DEF Labels, Syncing
<1>3. ASSUME NEW s \in SubIds, BeginPay(p, s) \/ BeginCancel(p, s)
      PROVE  SubsInv'
  <2>. DEFINE c == [NoContext EXCEPT !.sub = s]
  <2>1. c \in Context /\ c.sub = s
    BY EmptyContext DEF Context
  <2>2. PICK label \in {"insertPayment", "cancel"} :
          pc' = [pc EXCEPT ![p] = label] /\ ctx' = [ctx EXCEPT ![p] = c] /\ UNCHANGED tables
    BY <1>3 DEF BeginPay, BeginCancel, Enter, Goto
  <2>3. subs[s].status # "none"
    BY <1>3, SubscriptionsAssumption DEF BeginPay, BeginCancel, Current, Creator, ActivePlatform,
      SubsInv, RowsLinked, Plans
  <2>. HIDE DEF c
  <2>. QED BY <2>1, <2>2, <2>3, Quiet DEF Labels, Syncing
<1>. QED BY <1>1, <1>2, <1>3

\* Statements that write subscriptions only, and no period but 0.
LEMMA SubsStep ==
  ASSUME SubsInv, NEW p \in Procs, NEW label \in Labels \ Syncing, NEW c \in Context,
         pc[p] \notin Syncing,
         pc' = [pc EXCEPT ![p] = label], ctx' = [ctx EXCEPT ![p] = c], UNCHANGED <<payments, notes>>,
         subs' \in [SubIds -> Row],
         \A s \in SubIds :
           IF subs[s].status = "none"
             THEN subs'[s] = subs[s] \/ (subs'[s].status # "none" /\ subs'[s].plan \in Plans /\ subs'[s].periods = 0)
             ELSE subs'[s].status # "none" /\ subs'[s].plan = subs[s].plan /\ subs'[s].periods = subs[s].periods,
         label \in {"cancelOthers", "insertSub"} => c.plan \in Plans,
         label \in {"insertPayment", "cancel"} => c.sub \in SubIds /\ subs'[c.sub].status # "none"
  PROVE  SubsInv'
<1>1. Alone(p) /\ pc'[p] = label /\ ctx'[p] = c /\ TypeOK'
  BY Moves DEF SubsInv, TypeOK, Types
<1>2. KeepsRows(p)
  BY DEF KeepsRows
<1>3. NewRows(p)
  BY DEF NewRows
<1>4. KeepsNote(p)
  BY <1>1 DEF KeepsNote
<1>5. Holds(p)'
  BY <1>1 DEF Holds, HoldsSub, HoldsNote, HoldsPayment, Syncing
<1>6. Counted'
  BY <1>1, <1>2, <1>4, CountStays
<1>. QED BY <1>1, <1>2, <1>3, <1>4, <1>5, <1>6, StepKeeps

LEMMA CancelledKeep ==
  ASSUME SubsInv, NEW p \in Procs, NEW S \in SUBSET SubIds, NEW label \in {"insertSub", "idle"}, NEW c \in Context,
         \A s \in S : subs[s].status # "none",
         subs' = [s \in SubIds |-> IF s \in S THEN [subs[s] EXCEPT !.status = "cancelled"] ELSE subs[s]],
         pc[p] \notin Syncing, pc' = [pc EXCEPT ![p] = label], ctx' = [ctx EXCEPT ![p] = c],
         UNCHANGED <<payments, notes>>, label = "insertSub" => c.plan \in Plans
  PROVE  SubsInv'
<1>1. \A s \in SubIds : subs[s] \in Row /\ subs'[s] = IF s \in S THEN [subs[s] EXCEPT !.status = "cancelled"] ELSE subs[s]
  BY DEF SubsInv, TypeOK, Types
<1>2. subs' \in [SubIds -> Row]
  BY <1>1 DEF Row
<1>3. \A s \in SubIds :
        IF subs[s].status = "none" THEN subs'[s] = subs[s]
        ELSE subs'[s].status # "none" /\ subs'[s].plan = subs[s].plan /\ subs'[s].periods = subs[s].periods
  BY <1>1 DEF Row
<1>4. label \in Labels \ Syncing
  BY DEF Labels, Syncing
<1>. QED BY <1>2, <1>3, <1>4, SubsStep

LEMMA CancelKeeps ==
  ASSUME SubsInv, NEW p \in Procs,
         CancelOthers(p) \/ Cancel(p) \/ \E s \in SubIds : CreatorCancel(p, s)
  PROVE  SubsInv'
<1>1. CASE CancelOthers(p)
  <2>1. ActivePlatform \in SUBSET SubIds /\ \A s \in ActivePlatform : subs[s].status # "none"
    BY DEF ActivePlatform
  <2>2. ctx[p] \in Context /\ ctx' = [ctx EXCEPT ![p] = ctx[p]] /\ ctx[p].plan \in Plans
    BY <1>1 DEF CancelOthers, SubsInv, TypeOK, Types, Holds, HoldsSub
  <2>. QED BY <1>1, <2>1, <2>2, CancelledKeep DEF CancelOthers, Goto, Syncing
<1>2. CASE Cancel(p)
  <2>. DEFINE S == {ctx[p].sub}
  <2>1. S \in SUBSET SubIds /\ \A s \in S : subs[s].status # "none"
    BY <1>2 DEF Cancel, SubsInv, Holds, HoldsSub
  <2>2. subs' = [s \in SubIds |-> IF s \in S THEN [subs[s] EXCEPT !.status = "cancelled"] ELSE subs[s]]
    BY <1>2, <2>1 DEF Cancel, SubsInv, TypeOK, Types
  <2>3. pc[p] \notin Syncing /\ pc' = [pc EXCEPT ![p] = "idle"] /\ ctx' = [ctx EXCEPT ![p] = NoContext]
        /\ UNCHANGED <<payments, notes>>
    BY <1>2 DEF Cancel, Finish, Goto, Syncing
  <2>. HIDE DEF S
  <2>. QED BY <2>1, <2>2, <2>3, EmptyContext, CancelledKeep
<1>3. ASSUME NEW u \in SubIds, CreatorCancel(p, u)
      PROVE  SubsInv'
  <2>. DEFINE S == {u}
  <2>1. S \in SUBSET SubIds /\ \A s \in S : subs[s].status # "none"
    BY <1>3, SubscriptionsAssumption DEF CreatorCancel, Creator, SubsInv, RowsLinked, Plans
  <2>2. subs' = [s \in SubIds |-> IF s \in S THEN [subs[s] EXCEPT !.status = "cancelled"] ELSE subs[s]]
    BY <1>3, <2>1 DEF CreatorCancel, SubsInv, TypeOK, Types
  <2>3. pc[p] \notin Syncing /\ pc' = [pc EXCEPT ![p] = "idle"] /\ ctx' = [ctx EXCEPT ![p] = ctx[p]]
        /\ ctx[p] \in Context /\ UNCHANGED <<payments, notes>>
    BY <1>3 DEF CreatorCancel, SubsInv, TypeOK, Types, Syncing
  <2>. HIDE DEF S
  <2>. QED BY <2>1, <2>2, <2>3, CancelledKeep
<1>. QED BY <1>1, <1>2, <1>3

LEMMA InsertSubKeeps ==
  ASSUME SubsInv, NEW p \in Procs, InsertSub(p)
  PROVE  SubsInv'
<1>1. PICK s \in NextRow(subs, SubIds) :
        /\ subs' = [subs EXCEPT ![s] = [plan |-> ctx[p].plan, status |-> "active", periods |-> 0, by |-> ctx[p].by]]
        /\ IF ctx[p].pay THEN Goto(p, "insertPayment") /\ ctx' = [ctx EXCEPT ![p].sub = s] ELSE Finish(p)
  BY DEF InsertSub
<1>2. s \in SubIds /\ subs[s].status = "none" /\ pc[p] = "insertSub" /\ UNCHANGED <<payments, notes>>
  BY DEF InsertSub, NextRow
<1>3. ctx[p] \in Context /\ ctx[p].plan \in Plans
  BY <1>2 DEF SubsInv, TypeOK, Types, Holds, HoldsSub
<1>4. /\ subs' \in [SubIds -> Row] /\ subs'[s].status = "active" /\ subs'[s].plan = ctx[p].plan
      /\ subs'[s].periods = 0 /\ \A t \in SubIds \ {s} : subs'[t] = subs[t]
  BY <1>1, <1>2, <1>3 DEF SubsInv, TypeOK, Types, Row, Context
<1>. DEFINE c == IF ctx[p].pay THEN [ctx[p] EXCEPT !.sub = s] ELSE NoContext
            label == IF ctx[p].pay THEN "insertPayment" ELSE "idle"
<1>5. c \in Context /\ (ctx[p].pay => c.sub = s)
  BY <1>2, <1>3, EmptyContext DEF Context
<1>6. pc' = [pc EXCEPT ![p] = label] /\ ctx' = [ctx EXCEPT ![p] = c]
  BY <1>1 DEF Goto, Finish
<1>7. label \in Labels \ Syncing /\ label \in {"insertPayment", "idle"} /\ (label = "insertPayment" => c.sub = s)
  BY <1>5 DEF Labels, Syncing
<1>. HIDE DEF c, label
<1>. QED BY <1>2, <1>3, <1>4, <1>5, <1>6, <1>7, SubsStep DEF Syncing

LEMMA InsertPaymentKeeps ==
  ASSUME SubsInv, NEW p \in Procs, InsertPayment(p)
  PROVE  SubsInv'
<1>1. PICK q \in NextRow(payments, PaymentIds) :
        payments' = [payments EXCEPT ![q] = [sub |-> ctx[p].sub, status |-> "pending", note |-> NoNote]]
  BY DEF InsertPayment
<1>2. q \in PaymentIds /\ payments[q].status = "none" /\ pc[p] = "insertPayment" /\ UNCHANGED <<subs, notes>>
  BY DEF InsertPayment, NextRow
<1>3. ctx[p].sub \in SubIds /\ subs[ctx[p].sub].status # "none"
  BY <1>2 DEF SubsInv, Holds, HoldsSub
<1>4. /\ payments' \in [PaymentIds -> Payment] /\ payments'[q].status = "pending" /\ payments'[q].sub = ctx[p].sub
      /\ \A t \in PaymentIds \ {q} : payments'[t] = payments[t]
  BY <1>1, <1>2, <1>3 DEF SubsInv, TypeOK, Types, Payment
<1>5. Alone(p) /\ pc'[p] = "idle" /\ TypeOK'
  BY <1>2, <1>4, Moves, EmptyContext DEF InsertPayment, Finish, Goto, SubsInv, TypeOK, Types
<1>6. KeepsRows(p)
  BY <1>2, <1>4 DEF KeepsRows
<1>7. NewRows(p)
  BY <1>2, <1>3, <1>4 DEF NewRows
<1>8. KeepsNote(p) /\ Holds(p)'
  BY <1>5 DEF KeepsNote, Holds, HoldsSub, HoldsNote, HoldsPayment, Syncing
<1>9. Counted'
  BY <1>2, <1>5, <1>6, <1>8, CountStays
<1>. QED BY <1>5, <1>6, <1>7, <1>8, <1>9, StepKeeps

LEMMA BeginSyncKeeps ==
  ASSUME SubsInv, NEW p \in Procs, NEW n \in Notes, NEW plan \in Plans, BeginSync(p, n, Price[plan])
  PROVE  SubsInv'
<1>. DEFINE c == [NoContext EXCEPT !.note = n]
<1>1. c \in Context /\ c.note = n
  BY EmptyContext DEF Context
<1>2. /\ pc[p] = "idle" /\ notes[n].status = "none" /\ UNCHANGED <<subs, payments>>
      /\ pc' = [pc EXCEPT ![p] = "findPending"] /\ ctx' = [ctx EXCEPT ![p] = c]
      /\ notes' = [notes EXCEPT ![n] = [amount |-> Price[plan], payment |-> 0, status |-> "unmatched"]]
  BY DEF BeginSync, Enter, Goto
<1>. HIDE DEF c
<1>3. /\ notes' \in [Notes -> Note] /\ notes'[n].status = "unmatched" /\ notes'[n].payment = 0
      /\ \A t \in Notes \ {n} : notes'[t] = notes[t]
  BY <1>2, SubscriptionsAssumption DEF SubsInv, TypeOK, Types, Note
<1>4. Alone(p) /\ pc'[p] = "findPending" /\ ctx'[p] = c /\ TypeOK'
  BY <1>1, <1>2, <1>3, Moves DEF SubsInv, TypeOK, Types, Labels
<1>5. KeepsRows(p)
  BY <1>2, <1>3 DEF KeepsRows
<1>6. NewRows(p)
  BY <1>2, <1>3 DEF NewRows
<1>7. KeepsNote(p)
  BY <1>1, <1>2, <1>4 DEF KeepsNote, Syncing
<1>8. Holds(p)'
  BY <1>1, <1>3, <1>4 DEF Holds, HoldsSub, HoldsNote, HoldsPayment, Syncing
<1>9. Counted'
  BY <1>2, <1>4, <1>5, <1>7, CountStays
<1>. QED BY <1>4, <1>5, <1>6, <1>7, <1>8, <1>9, StepKeeps

\* Steps from one place of a notification's request to the next.
LEMMA Forward ==
  ASSUME SubsInv, NEW p \in Procs, pc[p] \in Syncing, NEW label \in Syncing \ {"findPending"}, NEW c \in Context,
         pc' = [pc EXCEPT ![p] = label], ctx' = [ctx EXCEPT ![p] = c], c.note = ctx[p].note, subs' = subs,
         payments' \in [PaymentIds -> Payment], notes' \in [Notes -> Note],
         label = "confirm" => pc[p] = "findPending",
         label = "markMatched" => pc[p] = "confirm" /\ c.payment = ctx[p].payment,
         pc[p] = "confirm" => label = "markMatched",
         KeepsRows(p), NewRows(p), HoldsNote(p)', HoldsPayment(p)'
  PROVE  SubsInv'
<1>1. Alone(p) /\ pc'[p] = label /\ ctx'[p] = c /\ TypeOK'
  BY Moves DEF SubsInv, TypeOK, Types, Syncing, Labels
<1>2. KeepsNote(p)
  BY <1>1 DEF KeepsNote, Syncing
<1>3. Holds(p)'
  BY <1>1 DEF Holds, HoldsSub, Syncing
<1>4. Counted'
  BY <1>1, <1>2, CountStays
<1>. QED BY <1>1, <1>2, <1>3, <1>4, StepKeeps

LEMMA FindPendingKeeps ==
  ASSUME SubsInv, NEW p \in Procs, FindPending(p)
  PROVE  SubsInv'
<1>. DEFINE C == Candidates(notes[ctx[p].note].amount)
<1>1. CASE Cardinality(C) # 1
  BY <1>1, EndKeeps DEF FindPending
<1>2. CASE Cardinality(C) = 1
  <2>1. PICK q \in C : ctx' = [ctx EXCEPT ![p].payment = q]
    BY <1>2 DEF FindPending
  <2>2. /\ q \in PaymentIds /\ payments[q].status # "none" /\ PriceOf(q) = notes[ctx[p].note].amount
        /\ pc[p] = "findPending" /\ pc' = [pc EXCEPT ![p] = "confirm"] /\ UNCHANGED tables
    BY <1>2 DEF FindPending, Candidates, Goto
  <2>. DEFINE c == [ctx[p] EXCEPT !.payment = q]
  <2>3. c \in Context /\ c.note = ctx[p].note /\ c.payment = q /\ ctx' = [ctx EXCEPT ![p] = c]
    BY <2>1, <2>2 DEF SubsInv, TypeOK, Types, Context
  <2>. HIDE DEF c
  <2>4. pc'[p] = "confirm" /\ ctx'[p] = c
    BY <2>2, <2>3 DEF SubsInv, TypeOK, Types
  <2>5. KeepsRows(p) /\ NewRows(p)
    BY <2>2 DEF KeepsRows, NewRows, tables
  <2>6. HoldsNote(p)'
    BY <2>2, <2>3, <2>4 DEF SubsInv, Holds, HoldsNote, tables, Syncing
  <2>7. HoldsPayment(p)'
    BY <2>2, <2>3, <2>4 DEF HoldsPayment, tables, PriceOf
  <2>. QED BY <2>2, <2>3, <2>5, <2>6, <2>7, Forward DEF SubsInv, TypeOK, Types, tables, Syncing
<1>. QED BY <1>1, <1>2

LEMMA ConfirmKeeps ==
  ASSUME SubsInv, NEW p \in Procs, Confirm(p)
  PROVE  SubsInv'
<1>. DEFINE q == ctx[p].payment
            n == ctx[p].note
<1>1. /\ pc[p] = "confirm" /\ pc' = [pc EXCEPT ![p] = "markMatched"] /\ UNCHANGED <<subs, notes, ctx>>
      /\ payments' = IF payments[q].status = "pending"
                       THEN [payments EXCEPT ![q].status = "confirmed", ![q].note = n] ELSE payments
  BY DEF Confirm, Goto
<1>2. q \in PaymentIds /\ payments[q].status # "none" /\ n \in Notes /\ notes[n].amount = PriceOf(q)
  BY <1>1 DEF SubsInv, Holds, HoldsNote, HoldsPayment, Syncing
<1>3. /\ payments' \in [PaymentIds -> Payment] /\ payments'[q].status # "none" /\ payments'[q].sub = payments[q].sub
      /\ payments'[q] # payments[q] => payments'[q].note = n
      /\ \A t \in PaymentIds \ {q} : payments'[t] = payments[t]
  BY <1>1, <1>2 DEF SubsInv, TypeOK, Types, Payment
<1>4. ctx[p] \in Context /\ ctx' = [ctx EXCEPT ![p] = ctx[p]] /\ ctx'[p] = ctx[p] /\ pc'[p] = "markMatched"
  BY <1>1 DEF SubsInv, TypeOK, Types
<1>5. KeepsRows(p)
  BY <1>1, <1>2, <1>3 DEF KeepsRows
<1>6. NewRows(p)
  BY <1>1, <1>2, <1>3 DEF NewRows
<1>7. HoldsNote(p)'
  BY <1>1, <1>4 DEF SubsInv, Holds, HoldsNote, Syncing
<1>8. HoldsPayment(p)'
  BY <1>1, <1>2, <1>3, <1>4 DEF HoldsPayment, PriceOf
<1>. QED BY <1>1, <1>3, <1>4, <1>5, <1>6, <1>7, <1>8, Forward DEF SubsInv, TypeOK, Types, Syncing

LEMMA MarkMatchedKeeps ==
  ASSUME SubsInv, NEW p \in Procs, MarkMatched(p)
  PROVE  SubsInv'
<1>1. ASSUME Goto(p, "readPeriod"), UNCHANGED ctx,
             notes' = [notes EXCEPT ![ctx[p].note].status = "matched", ![ctx[p].note].payment = ctx[p].payment]
      PROVE  SubsInv'
  <2>. DEFINE q == ctx[p].payment
              n == ctx[p].note
  <2>1. /\ pc[p] = "markMatched" /\ pc' = [pc EXCEPT ![p] = "readPeriod"] /\ UNCHANGED <<subs, payments, ctx>>
        /\ notes' = [notes EXCEPT ![n].status = "matched", ![n].payment = q]
    BY <1>1 DEF MarkMatched, Goto
  <2>2. q \in PaymentIds /\ payments[q].status # "none" /\ n \in Notes /\ notes[n].amount = PriceOf(q)
    BY <2>1 DEF SubsInv, Holds, HoldsNote, HoldsPayment, Syncing
  <2>3. /\ notes' \in [Notes -> Note] /\ notes'[n].status = "matched" /\ notes'[n].payment = q
        /\ notes'[n].amount = notes[n].amount /\ \A t \in Notes \ {n} : notes'[t] = notes[t]
    BY <2>1, <2>2 DEF SubsInv, TypeOK, Types, Note
  <2>4. ctx[p] \in Context /\ ctx' = [ctx EXCEPT ![p] = ctx[p]] /\ ctx'[p] = ctx[p] /\ pc'[p] = "readPeriod"
    BY <2>1 DEF SubsInv, TypeOK, Types
  <2>5. KeepsRows(p)
    BY <2>1, <2>2, <2>3 DEF KeepsRows
  <2>6. NewRows(p)
    BY <2>1, <2>2, <2>3 DEF NewRows
  <2>7. HoldsNote(p)'
    BY <2>2, <2>3, <2>4 DEF HoldsNote, Syncing
  <2>8. HoldsPayment(p)'
    BY <2>1, <2>2, <2>3, <2>4 DEF HoldsPayment, PriceOf
  <2>. QED BY <2>1, <2>3, <2>4, <2>5, <2>6, <2>7, <2>8, Forward DEF SubsInv, TypeOK, Types, Syncing
<1>2. ASSUME Finish(p), UNCHANGED notes
      PROVE  SubsInv'
  BY <1>2, EndKeeps DEF MarkMatched, tables
<1>. QED BY <1>1, <1>2 DEF MarkMatched

LEMMA ReadPeriodKeeps ==
  ASSUME SubsInv, NEW p \in Procs, ReadPeriod(p)
  PROVE  SubsInv'
<1>. SUFFICES ASSUME NEW n, n = ctx[p].note, NEW s, s = payments[ctx[p].payment].sub PROVE SubsInv'
  OBVIOUS
<1>. DEFINE c == [ctx[p] EXCEPT !.sub = s, !.periods = subs[s].periods]
<1>1. /\ pc[p] = "readPeriod" /\ pc' = [pc EXCEPT ![p] = "renew"] /\ UNCHANGED tables
      /\ ctx' = [ctx EXCEPT ![p].sub = s, ![p].periods = subs[s].periods]
  BY DEF ReadPeriod, Goto
<1>2. /\ n \in Notes /\ notes[n].status = "matched" /\ notes[n].payment = ctx[p].payment
      /\ ctx[p].payment \in PaymentIds /\ payments[ctx[p].payment].status # "none"
  BY <1>1 DEF SubsInv, Holds, HoldsNote, HoldsPayment, Syncing
<1>3. s \in SubIds /\ subs[s].periods \in Nat /\ subs[s].periods <= Cardinality(Done(s))
  BY <1>2 DEF SubsInv, RowsLinked, Counted, TypeOK, Types, Row
<1>4. /\ c \in Context /\ ctx' = [ctx EXCEPT ![p] = c] /\ pc'[p] = "renew" /\ ctx'[p] = c
      /\ c.note = n /\ c.sub = s /\ c.periods = subs[s].periods
  BY <1>1, <1>3 DEF SubsInv, TypeOK, Types, Context
<1>5. KeepsRows(p) /\ NewRows(p)
  BY <1>1 DEF KeepsRows, NewRows, tables
<1>. HIDE DEF c
<1>6. HoldsNote(p)'
  BY <1>1, <1>2, <1>4 DEF HoldsNote, Syncing, tables
<1>7. \A r \in SubIds : Done(r) \subseteq Done(r)'
  <2>1. Alone(p)
    BY <1>1, <1>4, Moves DEF SubsInv, Labels
  <2>2. KeepsNote(p)
    BY <1>1, <1>4 DEF KeepsNote, Syncing
  <2>. QED BY <1>5, <2>1, <2>2, DoneGrows
<1>8. subs[s].periods <= Cardinality(Done(s)')
  BY <1>3, <1>7, DoneLarger
<1>9. HoldsPayment(p)'
  <2>1. ctx'[p].sub = s /\ ctx'[p].periods <= Cardinality(Done(ctx[p].sub))'
    BY <1>4, <1>8
  <2>2. s = payments'[notes'[n].payment].sub
    BY <1>1, <1>2 DEF tables
  <2>. QED BY <1>3, <1>4, <2>1, <2>2 DEF HoldsPayment
<1>. QED BY <1>1, <1>4, <1>5, <1>6, <1>9, Forward DEF SubsInv, TypeOK, Types, tables, Syncing

LEMMA RenewKeeps ==
  ASSUME SubsInv, NEW p \in Procs, Renew(p)
  PROVE  SubsInv'
<1>. SUFFICES ASSUME NEW n, n = ctx[p].note, NEW s, s = ctx[p].sub,
                     NEW k, k = ctx[p].periods PROVE SubsInv'
  OBVIOUS
<1>1. /\ pc[p] = "renew" /\ UNCHANGED <<payments, notes>>
      /\ subs' = [subs EXCEPT ![s].status = "active", ![s].periods = k + 1]
      /\ pc' = [pc EXCEPT ![p] = "idle"] /\ ctx' = [ctx EXCEPT ![p] = NoContext]
  BY DEF Renew, Finish, Goto
<1>2. /\ n \in Notes /\ notes[n].status = "matched" /\ s \in SubIds /\ s = payments[notes[n].payment].sub
      /\ k <= Cardinality(Done(s))
  BY <1>1 DEF SubsInv, Holds, HoldsNote, HoldsPayment, Syncing, TypeOK, Types, Context
<1>0. k \in Nat
  BY DEF SubsInv, TypeOK, Types, Context
<1>3. subs[s].status # "none"
  BY <1>2 DEF SubsInv, RowsLinked
<1>4. /\ subs' \in [SubIds -> Row] /\ subs'[s].status = "active" /\ subs'[s].periods = k + 1
      /\ subs'[s].plan = subs[s].plan /\ \A t \in SubIds \ {s} : subs'[t] = subs[t]
  <2>. DEFINE row == [subs[s] EXCEPT !.status = "active", !.periods = k + 1]
  <2>1. row \in Row /\ row.status = "active" /\ row.periods = k + 1 /\ row.plan = subs[s].plan
    <3>1. subs[s] \in Row /\ k + 1 \in Nat
      BY <1>2, <1>0 DEF SubsInv, TypeOK, Types
    <3>. QED BY <3>1 DEF Row
  <2>2. subs \in [SubIds -> Row] /\ subs' = [subs EXCEPT ![s] = row]
    BY <1>1, <1>2 DEF SubsInv, TypeOK, Types
  <2>. HIDE DEF row
  <2>. QED BY <1>2, <2>1, <2>2
<1>5. Alone(p) /\ pc'[p] = "idle" /\ TypeOK'
  BY <1>1, <1>4, Moves, EmptyContext DEF SubsInv, TypeOK, Types
<1>6. KeepsRows(p)
  BY <1>1, <1>4 DEF KeepsRows
<1>7. NewRows(p)
  BY <1>1, <1>3, <1>4 DEF NewRows
<1>8. KeepsNote(p) /\ Holds(p)'
  BY <1>5 DEF KeepsNote, Holds, HoldsSub, HoldsNote, HoldsPayment, Syncing
<1>9. k + 1 <= Cardinality(Done(s)')
  <2>1. n \notin Done(s) /\ Done(s) \subseteq Done(s)'
    BY <1>1, <1>2, <1>5, <1>6, <1>8, DoneGrows DEF Done, Syncing
  <2>2. n \in Done(s)'
    <3>1. n \in Matched(s)'
      BY <1>1, <1>2 DEF Matched
    <3>2. \A r \in Procs : pc'[r] \in Syncing => ctx'[r].note # n
      BY <1>1, <1>5 DEF Alone, SubsInv, OwnNote, Syncing
    <3>. QED BY <3>1, <3>2 DEF Done
  <2>3. IsFiniteSet(Done(s)') /\ IsFiniteSet(Done(s) \cup {n})
    <3>1. Done(s)' \subseteq Notes /\ Done(s) \cup {n} \subseteq Notes
      BY <1>2 DEF Done, Matched
    <3>. QED BY <3>1, SubscriptionsAssumption, FS_Subset
  <2>4. Cardinality(Done(s) \cup {n}) = Cardinality(Done(s)) + 1
    BY <1>2, <2>1, DoneFinite, FS_AddElement
  <2>5. Cardinality(Done(s) \cup {n}) <= Cardinality(Done(s)') /\ Cardinality(Done(s)') \in Nat
    BY <2>1, <2>2, <2>3, FS_Subset, FS_CardinalityType
  <2>6. Cardinality(Done(s)) \in Nat
    BY <1>2, DoneFinite
  <2>7. k <= Cardinality(Done(s))
    BY <1>2
  <2>8. Cardinality(Done(s)) + 1 <= Cardinality(Done(s)')
    BY <2>4, <2>5
  <2>. QED BY <1>0, <2>5, <2>6, <2>7, <2>8
<1>10. ASSUME NEW t \in SubIds
       PROVE  subs'[t].periods <= Cardinality(Done(t)')
  <2>1. CASE t = s
    BY <1>4, <1>9, <2>1
  <2>2. CASE t # s
    <3>1. subs'[t].periods = subs[t].periods /\ subs[t].periods \in Nat /\ subs[t].periods <= Cardinality(Done(t))
      BY <1>4, <2>2 DEF SubsInv, Counted, TypeOK, Types, Row
    <3>2. Done(t) \subseteq Done(t)'
      BY <1>5, <1>6, <1>8, DoneGrows
    <3>. QED BY <3>1, <3>2, DoneLarger
  <2>. QED BY <2>1, <2>2
<1>11. Counted'
  BY <1>10 DEF Counted
<1>. QED BY <1>5, <1>6, <1>7, <1>8, <1>11, StepKeeps

LEMMA OrdinaryKeeps ==
  ASSUME SubsInv, NEW p \in Procs, Request(p) \/ Step(p) \/ Abort(p)
  PROVE  SubsInv'
<1>1. CASE Request(p)
  BY <1>1, BeginKeeps, CancelKeeps, BeginSyncKeeps DEF Request
<1>2. CASE Step(p)
  BY <1>2, CancelKeeps, InsertSubKeeps, InsertPaymentKeeps, FindPendingKeeps, ConfirmKeeps,
     MarkMatchedKeeps, ReadPeriodKeeps, RenewKeeps DEF Step
<1>3. CASE Abort(p)
  BY <1>3, EndKeeps DEF Abort
<1>. QED BY <1>1, <1>2, <1>3

LEMMA StutterKeeps ==
  ASSUME SubsInv, UNCHANGED vars
  PROVE  SubsInv'
<1>. USE DEF vars
<1>1. TypeOK' /\ RowsLinked' /\ OwnNote' /\ PaidInKind'
  BY DEF SubsInv, TypeOK, Types, RowsLinked, OwnNote, PaidInKind, PriceOf
<1>2. \A s \in SubIds : Done(s)' = Done(s)
  BY DEF Done, Matched
<1>3. Counted'
  BY <1>2 DEF SubsInv, Counted
<1>4. \A q \in PaymentIds : Confirming(q)'
  BY DEF SubsInv, Confirming
<1>5. ASSUME NEW p \in Procs
      PROVE  Holds(p)'
  <2>1. Holds(p) /\ HoldsSub(p)' /\ HoldsNote(p)'
    BY DEF SubsInv, Holds, HoldsSub, HoldsNote
  <2>2. HoldsPayment(p)'
    BY <1>2, <2>1 DEF Holds, HoldsPayment, PriceOf
  <2>. QED BY <2>1, <2>2 DEF Holds
<1>. QED BY <1>1, <1>3, <1>4, <1>5 DEF SubsInv

-----------------------------------------------------------------------------
(* Payment links.  An event that says a link was paid is taken by one      *)
(* request only, which is the one that may write a subscription by it.     *)

\* p handles the event that intent i was paid.
Takes(p, i) ==
  at[p] \in {"upsert", "activate", "subscribing"} /\ hold[p] = [intent |-> i, status |-> "succeeded"]
Granted(i) == {s \in SubIds : subs[s].by = i}

LinkTypes ==
  /\ provider \in [Intents -> Provider]
  /\ at \in [Procs -> {"idle", "store", "upsert", "activate", "subscribing"}]
  /\ hold \in [Procs -> Hold]
  /\ \A i \in Intents : provider[i].status # "none" => provider[i].plan \in PlatformPlans

LinkHeld(p) ==
  /\ at[p] = "upsert" => hold[p].intent \in Intents
  /\ at[p] \in {"activate", "subscribing"} => \E i \in Intents : Takes(p, i)
  /\ IF at[p] = "subscribing"
       THEN ctx[p].by = hold[p].intent /\ ~ctx[p].pay
       ELSE ctx[p].by = Nobody

TakenOnce ==
  \A i \in Intents :
    /\ \A p \in Procs : Takes(p, i) =>
         /\ <<i, "succeeded">> \in recorded /\ Granted(i) = {}
         /\ \A r \in Procs : Takes(r, i) => r = p
    /\ Granted(i) = {} \/ \E s \in SubIds : Granted(i) = {s}
    /\ Granted(i) # {} => <<i, "succeeded">> \in recorded
    /\ <<i, "succeeded">> \in recorded => provider[i].status = "succeeded"

Inv ==
  /\ SubsInv /\ LinkTypes /\ TakenOnce
  /\ \A p \in Procs : LinkHeld(p)

\* Requests of no link write subscriptions of no link.
LEMMA OrdinaryIsNobodys ==
  ASSUME SubsInv, NEW p \in Procs, ctx[p].by = Nobody, Request(p) \/ Step(p) \/ Abort(p)
  PROVE  /\ ctx'[p].by = Nobody /\ \A r \in Procs \ {p} : ctx'[r] = ctx[r]
         /\ \A s \in SubIds : subs'[s].by = subs[s].by
<1>. USE DEF SubsInv, TypeOK, Types
<1>1. NoContext.by = Nobody /\ NoContext \in Context
  BY EmptyContext DEF NoContext
<1>2. ctx[p] \in Context /\ \A s \in SubIds : subs[s] \in Row
  OBVIOUS
<1>3. ASSUME NEW plan \in Plans, NEW pay \in BOOLEAN, BeginSubscribe(p, plan, pay)
      PROVE  ctx'[p].by = Nobody /\ UNCHANGED subs /\ \A r \in Procs \ {p} : ctx'[r] = ctx[r]
  BY <1>3 DEF BeginSubscribe, Enter, NoContext, tables
<1>4. ASSUME NEW plan \in Plans, BeginCreatorSubscribe(p, plan)
      PROVE  ctx'[p].by = Nobody /\ UNCHANGED subs /\ \A r \in Procs \ {p} : ctx'[r] = ctx[r]
  BY <1>4 DEF BeginCreatorSubscribe, Enter, NoContext, tables
<1>5. ASSUME NEW s \in SubIds, BeginPay(p, s) \/ BeginCancel(p, s)
      PROVE  ctx'[p].by = Nobody /\ UNCHANGED subs /\ \A r \in Procs \ {p} : ctx'[r] = ctx[r]
  BY <1>5 DEF BeginPay, BeginCancel, Enter, NoContext, tables
<1>6. ASSUME NEW n \in Notes, NEW plan \in Plans, BeginSync(p, n, Price[plan])
      PROVE  ctx'[p].by = Nobody /\ UNCHANGED subs /\ \A r \in Procs \ {p} : ctx'[r] = ctx[r]
  BY <1>6 DEF BeginSync, Enter, NoContext
<1>7. ASSUME NEW s \in SubIds, CreatorCancel(p, s)
      PROVE  UNCHANGED ctx /\ \A t \in SubIds : subs'[t].by = subs[t].by
  BY <1>2, <1>7 DEF CreatorCancel, Row
<1>8. CASE Request(p)
  BY <1>3, <1>4, <1>5, <1>6, <1>7, <1>8 DEF Request
<1>9. CASE CancelOthers(p) \/ Cancel(p)
  <2>1. ctx'[p].by = Nobody /\ \A r \in Procs \ {p} : ctx'[r] = ctx[r]
    BY <1>1, <1>9 DEF CancelOthers, Cancel, Finish
  <2>2. \A s \in SubIds : subs'[s].by = subs[s].by
    BY <1>2, <1>9 DEF CancelOthers, Cancel, Row
  <2>. QED BY <2>1, <2>2
<1>10. CASE InsertSub(p)
  <2>1. PICK s \in NextRow(subs, SubIds) :
          /\ subs' = [subs EXCEPT ![s] = [plan |-> ctx[p].plan, status |-> "active", periods |-> 0, by |-> ctx[p].by]]
          /\ IF ctx[p].pay THEN Goto(p, "insertPayment") /\ ctx' = [ctx EXCEPT ![p].sub = s] ELSE Finish(p)
    BY <1>10 DEF InsertSub
  <2>2. s \in SubIds /\ subs[s].by = Nobody
    BY <2>1 DEF NextRow, RowsLinked
  <2>3. ctx'[p].by = Nobody /\ \A r \in Procs \ {p} : ctx'[r] = ctx[r]
    BY <1>1, <1>2, <2>1 DEF Finish, Context
  <2>4. \A t \in SubIds : subs'[t].by = subs[t].by
    BY <2>1, <2>2
  <2>. QED BY <2>3, <2>4
<1>11. CASE InsertPayment(p) \/ FindPending(p) \/ Confirm(p) \/ MarkMatched(p) \/ ReadPeriod(p) \/ Abort(p)
  <2>1. UNCHANGED subs
    BY <1>11 DEF InsertPayment, FindPending, Confirm, MarkMatched, ReadPeriod, Abort, tables
  <2>2. ctx'[p].by = Nobody /\ \A r \in Procs \ {p} : ctx'[r] = ctx[r]
    BY <1>1, <1>2, <1>11 DEF InsertPayment, FindPending, Confirm, MarkMatched, ReadPeriod, Abort, Finish, Context
  <2>. QED BY <2>1, <2>2
<1>12. CASE Renew(p)
  BY <1>1, <1>2, <1>12 DEF Renew, Finish, Row
<1>. QED BY <1>8, <1>9, <1>10, <1>11, <1>12 DEF Step

-----------------------------------------------------------------------------
(* The steps of PaymentIntents *)

\* Where p stands in this module afterwards.
LEMMA LinkMoves ==
  ASSUME LinkTypes, NEW p \in Procs, NEW label \in {"idle", "store", "upsert", "activate", "subscribing"},
         NEW h \in Hold, at' = [at EXCEPT ![p] = label], hold' = [hold EXCEPT ![p] = h]
  PROVE  /\ at' \in [Procs -> {"idle", "store", "upsert", "activate", "subscribing"}]
         /\ hold' \in [Procs -> Hold] /\ at'[p] = label /\ hold'[p] = h
         /\ \A r \in Procs \ {p} : at'[r] = at[r] /\ hold'[r] = hold[r] /\ \A i \in Intents : Takes(r, i)' = Takes(r, i)
BY DEF LinkTypes, Takes

LEMMA EmptyHold == NoHold \in Hold /\ NoHold.status = "none"
BY DEF NoHold, Hold

\* No row is written: who takes what stays, or somebody stops taking it.
LEMMA TakenStays ==
  ASSUME TakenOnce, UNCHANGED recorded, \A s \in SubIds : subs'[s].by = subs[s].by,
         \A i \in Intents : provider[i].status = "succeeded" => provider'[i].status = "succeeded",
         \A r \in Procs, i \in Intents : Takes(r, i)' => Takes(r, i)
  PROVE  TakenOnce'
<1>1. \A i \in Intents : Granted(i)' = Granted(i)
  BY DEF Granted
<1>. QED BY <1>1 DEF TakenOnce

LEMMA InitInv == IntentsInit => Inv
<1>. SUFFICES ASSUME IntentsInit PROVE Inv
  OBVIOUS
<1>1. SubsInv
  BY InitSubsInv DEF IntentsInit
<1>2. LinkTypes
  BY EmptyHold DEF IntentsInit, LinkTypes, Provider, Kinds
<1>3. \A i \in Intents : Granted(i) = {}
  BY SubscriptionsAssumption DEF IntentsInit, Init, Granted, Intents
<1>4. TakenOnce /\ \A p \in Procs : LinkHeld(p)
  BY <1>3 DEF IntentsInit, Init, NoContext, TakenOnce, LinkHeld, Takes
<1>. QED BY <1>1, <1>2, <1>4 DEF Inv

LEMMA OtherKeeps ==
  ASSUME Inv, NEW p \in Procs, Other(p)
  PROVE  Inv'
<1>1. SubsInv' /\ UNCHANGED intentVars /\ at[p] = "idle" /\ ctx[p].by = Nobody
  BY OrdinaryKeeps DEF Inv, Other, LinkHeld
<1>2. /\ ctx'[p].by = Nobody /\ \A r \in Procs \ {p} : ctx'[r] = ctx[r]
      /\ \A s \in SubIds : subs'[s].by = subs[s].by
  BY <1>1, OrdinaryIsNobodys DEF Inv, Other
<1>3. LinkTypes' /\ \A r \in Procs, i \in Intents : Takes(r, i)' = Takes(r, i)
  BY <1>1 DEF Inv, LinkTypes, Takes, intentVars
<1>4. TakenOnce'
  BY <1>1, <1>2, <1>3, TakenStays DEF Inv, intentVars
<1>5. \A r \in Procs : LinkHeld(r)'
  BY <1>1, <1>2, <1>3 DEF Inv, LinkHeld, intentVars
<1>. QED BY <1>1, <1>3, <1>4, <1>5 DEF Inv

\* Steps that write nothing of Subscriptions and take no event.
LEMMA LinkOnly ==
  ASSUME Inv, NEW p \in Procs, NEW label \in {"idle", "store"}, NEW h \in Hold,
         at[p] # "subscribing", at' = [at EXCEPT ![p] = label], hold' = [hold EXCEPT ![p] = h],
         UNCHANGED <<vars, recorded>>, provider' \in [Intents -> Provider],
         \A i \in Intents :
           /\ provider'[i].status # "none" => provider'[i].plan \in PlatformPlans
           /\ provider[i].status = "succeeded" => provider'[i].status = "succeeded"
  PROVE  Inv'
<1>1. SubsInv' /\ UNCHANGED ctx /\ UNCHANGED subs
  BY StutterKeeps DEF Inv, vars
<1>2. /\ LinkTypes' /\ at'[p] = label
      /\ \A r \in Procs \ {p} : at'[r] = at[r] /\ hold'[r] = hold[r] /\ \A i \in Intents : Takes(r, i)' = Takes(r, i)
  BY LinkMoves DEF Inv, LinkTypes
<1>3. \A i \in Intents : ~Takes(p, i)'
  BY <1>2 DEF Takes
<1>4. TakenOnce'
  BY <1>1, <1>2, <1>3, TakenStays DEF Inv
<1>5. \A r \in Procs : LinkHeld(r)'
  BY <1>1, <1>2 DEF Inv, LinkHeld
<1>. QED BY <1>1, <1>2, <1>4, <1>5 DEF Inv

LEMMA LinkKeeps ==
  ASSUME Inv, NEW p \in Procs,
         \/ Store(p)
         \/ UpsertEvent(p) /\ hold[p].status # "succeeded"
         \/ \E i \in Intents : CheckStatus(p, i) \/ CancelLink(p, i)
         \/ \E i \in Intents, plan \in Plans, amount \in Amounts : CreateLink(p, i, plan, amount)
  PROVE  Inv'
<1>1. CASE Store(p) \/ (UpsertEvent(p) /\ hold[p].status # "succeeded")
  BY <1>1, EmptyHold, LinkOnly DEF Store, UpsertEvent, Leave, Inv, LinkTypes
<1>2. ASSUME NEW i \in Intents, CheckStatus(p, i)
      PROVE  Inv'
  <2>. DEFINE h == [intent |-> i, status |-> provider[i].status]
  <2>1. h \in Hold
    BY DEF Inv, LinkTypes, Provider, Hold
  <2>2. /\ at[p] = "idle" /\ at' = [at EXCEPT ![p] = "store"] /\ hold' = [hold EXCEPT ![p] = h]
        /\ UNCHANGED <<vars, recorded, provider>>
    BY <1>2 DEF CheckStatus, Start, Free
  <2>. HIDE DEF h
  <2>. QED BY <2>1, <2>2, LinkOnly DEF Inv, LinkTypes
<1>3. ASSUME NEW i \in Intents, CancelLink(p, i)
      PROVE  Inv'
  <2>. DEFINE h == [intent |-> i, status |-> "canceled"]
  <2>1. h \in Hold
    BY DEF Hold, Kinds
  <2>2. /\ at[p] = "idle" /\ at' = [at EXCEPT ![p] = "store"] /\ hold' = [hold EXCEPT ![p] = h]
        /\ UNCHANGED <<vars, recorded>> /\ provider' = [provider EXCEPT ![i].status = "canceled"]
        /\ provider[i].status = "created"
    BY <1>3 DEF CancelLink, Start, Free
  <2>3. provider' \in [Intents -> Provider]
    BY <2>2 DEF Inv, LinkTypes, Provider, Kinds
  <2>4. \A j \in Intents :
           /\ provider'[j].status # "none" => provider'[j].plan \in PlatformPlans
           /\ provider[j].status = "succeeded" => provider'[j].status = "succeeded"
    BY <2>2 DEF Inv, LinkTypes, Provider
  <2>. HIDE DEF h
  <2>. QED BY <2>1, <2>2, <2>3, <2>4, LinkOnly
<1>4. ASSUME NEW i \in Intents, NEW plan \in Plans, NEW amount \in Amounts, CreateLink(p, i, plan, amount)
      PROVE  Inv'
  <2>. DEFINE h == [intent |-> i, status |-> "created"]
  <2>1. h \in Hold
    BY DEF Hold, Kinds
  <2>2. /\ at[p] = "idle" /\ at' = [at EXCEPT ![p] = "store"] /\ hold' = [hold EXCEPT ![p] = h]
        /\ UNCHANGED <<vars, recorded>> /\ plan \in PlatformPlans /\ provider[i].status = "none"
        /\ provider' = [provider EXCEPT ![i] = [status |-> "created", plan |-> plan, amount |-> amount]]
    BY <1>4 DEF CreateLink, Start, Free
  <2>3. provider' \in [Intents -> Provider]
    BY <2>2 DEF Inv, LinkTypes, Provider, Kinds
  <2>4. \A j \in Intents :
           /\ provider'[j].status # "none" => provider'[j].plan \in PlatformPlans
           /\ provider[j].status = "succeeded" => provider'[j].status = "succeeded"
    BY <2>2 DEF Inv, LinkTypes
  <2>. HIDE DEF h
  <2>. QED BY <2>1, <2>2, <2>3, <2>4, LinkOnly
<1>. QED BY <1>1, <1>2, <1>3, <1>4

LEMMA SettlesKeeps ==
  ASSUME Inv, NEW i \in Intents, NEW st \in Kinds, ProviderSettles(i, st)
  PROVE  Inv'
<1>1. /\ provider' = [provider EXCEPT ![i].status = st] /\ provider[i].status = "created"
      /\ UNCHANGED <<vars, recorded, at, hold>>
  BY DEF ProviderSettles
<1>2. SubsInv' /\ UNCHANGED <<subs, ctx>>
  BY <1>1, StutterKeeps DEF Inv, vars
<1>3. LinkTypes'
  BY <1>1 DEF Inv, LinkTypes, Provider
<1>4. \A r \in Procs, j \in Intents : Takes(r, j)' = Takes(r, j)
  BY <1>1 DEF Takes
<1>5. \A j \in Intents : provider[j].status = "succeeded" => provider'[j].status = "succeeded"
  BY <1>1 DEF Inv, LinkTypes
<1>6. TakenOnce' /\ \A r \in Procs : LinkHeld(r)'
  BY <1>1, <1>2, <1>4, <1>5, TakenStays DEF Inv, LinkHeld
<1>. QED BY <1>2, <1>3, <1>6 DEF Inv

\* An event that is not there yet is taken by p; nobody had taken it.
LEMMA DeliverKeeps ==
  ASSUME Inv, NEW p \in Procs, NEW j \in Intents, NEW kind \in Kinds, Deliver(p, <<j, kind>>)
  PROVE  Inv'
<1>1. /\ UNCHANGED <<vars, provider>> /\ recorded' = recorded \cup {<<j, kind>>}
      /\ kind = "succeeded" => provider[j].status = "succeeded"
      /\ at[p] = "idle"
  BY DEF Deliver, Happened, Free
<1>2. SubsInv' /\ UNCHANGED <<subs, ctx>> /\ \A i \in Intents : Granted(i)' = Granted(i)
  BY <1>1, StutterKeeps DEF Inv, vars, Granted
<1>3. CASE <<j, kind>> \in recorded
  <2>1. UNCHANGED <<at, hold, recorded, provider>>
    BY <1>1, <1>3 DEF Deliver
  <2>2. \A r \in Procs, i \in Intents : Takes(r, i)' = Takes(r, i)
    BY <2>1 DEF Takes
  <2>3. TakenOnce'
    BY <1>2, <2>1, <2>2, TakenStays DEF Inv
  <2>. QED BY <1>2, <2>1, <2>2, <2>3 DEF Inv, LinkTypes, LinkHeld
<1>4. CASE <<j, kind>> \notin recorded
  <2>. DEFINE h == [intent |-> j, status |-> kind]
  <2>1. h \in Hold /\ at' = [at EXCEPT ![p] = "upsert"] /\ hold' = [hold EXCEPT ![p] = h]
    BY <1>4 DEF Deliver, Start, Hold
  <2>2. /\ LinkTypes' /\ at'[p] = "upsert" /\ hold'[p] = h
        /\ \A r \in Procs \ {p} : at'[r] = at[r] /\ hold'[r] = hold[r] /\ \A i \in Intents : Takes(r, i)' = Takes(r, i)
    BY <1>1, <2>1, LinkMoves DEF Inv, LinkTypes
  <2>3. \A i \in Intents : Takes(p, i)' => i = j /\ kind = "succeeded"
    BY <2>2 DEF Takes
  <2>4. ASSUME NEW i \in Intents
        PROVE  /\ \A r \in Procs : Takes(r, i)' =>
                    /\ <<i, "succeeded">> \in recorded' /\ Granted(i)' = {}
                    /\ \A t \in Procs : Takes(t, i)' => t = r
               /\ Granted(i)' = {} \/ \E s \in SubIds : Granted(i)' = {s}
               /\ Granted(i)' # {} => <<i, "succeeded">> \in recorded'
               /\ <<i, "succeeded">> \in recorded' => provider'[i].status = "succeeded"
    <3>1. CASE i = j /\ kind = "succeeded"
      <4>1. Granted(i) = {} /\ \A r \in Procs : ~Takes(r, i)
        BY <1>4, <3>1 DEF Inv, TakenOnce
      <4>. QED BY <1>1, <1>2, <2>2, <3>1, <4>1
    <3>2. CASE ~(i = j /\ kind = "succeeded")
      <4>1. \A r \in Procs : Takes(r, i)' => Takes(r, i)
        BY <2>2, <2>3, <3>2
      <4>2. <<i, "succeeded">> \in recorded' <=> <<i, "succeeded">> \in recorded
        BY <1>1, <3>2
      <4>. QED BY <1>1, <1>2, <4>1, <4>2 DEF Inv, TakenOnce
    <3>. QED BY <3>1, <3>2
  <2>5. TakenOnce'
    BY <2>4 DEF TakenOnce
  <2>6. \A r \in Procs : LinkHeld(r)'
    BY <1>1, <1>2, <2>2 DEF Inv, LinkHeld
  <2>. QED BY <1>2, <2>2, <2>5, <2>6 DEF Inv
<1>. QED BY <1>3, <1>4

\* From one place of the event's request to the next.
LEMMA EventMoves ==
  ASSUME Inv, SubsInv', NEW p \in Procs, NEW i \in Intents, Takes(p, i), NEW label \in {"activate", "subscribing"},
         at' = [at EXCEPT ![p] = label], UNCHANGED <<hold, provider, recorded>>,
         \A s \in SubIds : subs'[s].by = subs[s].by, \A r \in Procs \ {p} : ctx'[r] = ctx[r],
         IF label = "subscribing" THEN ctx'[p].by = i /\ ~ctx'[p].pay ELSE ctx'[p].by = Nobody
  PROVE  Inv'
<1>1. hold' = [hold EXCEPT ![p] = hold[p]] /\ hold[p] \in Hold
  BY DEF Inv, LinkTypes
<1>2. /\ LinkTypes' /\ at'[p] = label /\ hold'[p] = hold[p]
      /\ \A r \in Procs \ {p} : at'[r] = at[r] /\ hold'[r] = hold[r] /\ \A j \in Intents : Takes(r, j)' = Takes(r, j)
  BY <1>1, LinkMoves DEF Inv, LinkTypes
<1>3. Takes(p, i)' /\ \A j \in Intents : Takes(p, j)' => Takes(p, j)
  BY <1>2 DEF Takes
<1>4. TakenOnce'
  BY <1>2, <1>3, TakenStays DEF Inv
<1>5. \A r \in Procs \ {p} : LinkHeld(r)'
  BY <1>2 DEF Inv, LinkHeld
<1>6. LinkHeld(p)'
  BY <1>2, <1>3 DEF LinkHeld, Takes
<1>. QED BY <1>2, <1>4, <1>5, <1>6 DEF Inv

\* Its end without a subscription.
LEMMA EventEnds ==
  ASSUME Inv, SubsInv', NEW p \in Procs, Leave(p), UNCHANGED <<subs, provider, recorded>>,
         ctx'[p].by = Nobody, \A r \in Procs \ {p} : ctx'[r] = ctx[r]
  PROVE  Inv'
<1>1. /\ LinkTypes' /\ at'[p] = "idle"
      /\ \A r \in Procs \ {p} : at'[r] = at[r] /\ hold'[r] = hold[r] /\ \A j \in Intents : Takes(r, j)' = Takes(r, j)
  BY EmptyHold, LinkMoves DEF Inv, LinkTypes, Leave
<1>2. \A j \in Intents : ~Takes(p, j)'
  BY <1>1 DEF Takes
<1>3. TakenOnce'
  BY <1>1, <1>2, TakenStays DEF Inv
<1>4. \A r \in Procs : LinkHeld(r)'
  BY <1>1 DEF Inv, LinkHeld
<1>. QED BY <1>1, <1>3, <1>4 DEF Inv

LEMMA UpsertKeeps ==
  ASSUME Inv, NEW p \in Procs, UpsertEvent(p), hold[p].status = "succeeded"
  PROVE  Inv'
<1>1. /\ at[p] = "upsert" /\ at' = [at EXCEPT ![p] = "activate"] /\ UNCHANGED <<vars, hold, provider, recorded>>
  BY DEF UpsertEvent
<1>2. SubsInv' /\ UNCHANGED <<subs, ctx>>
  BY <1>1, StutterKeeps DEF Inv, vars
<1>3. ctx[p].by = Nobody /\ hold[p].intent \in Intents
  BY <1>1 DEF Inv, LinkHeld
<1>4. Takes(p, hold[p].intent)
  BY <1>1 DEF Inv, LinkTypes, Hold, Takes
<1>. QED BY <1>1, <1>2, <1>3, <1>4, EventMoves

LEMMA ActivateKeeps ==
  ASSUME Inv, NEW p \in Procs, Activate(p)
  PROVE  Inv'
<1>1. at[p] = "activate" /\ UNCHANGED <<tables, provider, intents, recorded>> /\ ctx[p].by = Nobody
  BY DEF Activate, Inv, LinkHeld
<1>2. PICK i \in Intents : Takes(p, i)
  BY <1>1 DEF Inv, LinkHeld
<1>3. hold[p].intent = i /\ provider[i].plan \in PlatformPlans
  <2>1. provider[i].status = "succeeded"
    BY <1>2 DEF Inv, TakenOnce
  <2>. QED BY <1>2, <2>1 DEF Takes, Inv, LinkTypes
<1>4. CASE Leave(p) /\ UNCHANGED <<pc, ctx>>
  <2>1. SubsInv'
    BY <1>1, <1>4, StutterKeeps DEF Inv, vars, tables
  <2>. QED BY <1>1, <1>4, <2>1, EventEnds DEF tables
<1>5. CASE /\ Enter(p, "cancelOthers", [NoContext EXCEPT !.plan = provider[i].plan, !.by = i])
           /\ at' = [at EXCEPT ![p] = "subscribing"] /\ UNCHANGED hold
  <2>. DEFINE c == [NoContext EXCEPT !.plan = provider[i].plan, !.by = i]
  <2>1. c \in Context /\ c.plan \in Plans /\ c.by = i /\ ~c.pay
    BY <1>3, EmptyContext DEF Context, NoContext, Plans, Intents
  <2>2. pc' = [pc EXCEPT ![p] = "cancelOthers"] /\ ctx' = [ctx EXCEPT ![p] = c]
    BY <1>5 DEF Enter, Goto
  <2>. HIDE DEF c
  <2>3. SubsInv'
    BY <1>1, <2>1, <2>2, Quiet DEF Inv, Labels, Syncing
  <2>4. ctx'[p] = c /\ \A r \in Procs \ {p} : ctx'[r] = ctx[r]
    BY <2>2 DEF Inv, SubsInv, TypeOK, Types
  <2>. QED BY <1>1, <1>2, <1>5, <2>1, <2>3, <2>4, EventMoves DEF tables
<1>. QED BY <1>3, <1>4, <1>5 DEF Activate

\* The subscription that an event buys.
LEMMA Buys ==
  ASSUME Inv, NEW p \in Procs, at[p] = "subscribing", InsertSub(p)
  PROVE  /\ ctx'[p].by = Nobody /\ \A r \in Procs \ {p} : ctx'[r] = ctx[r]
         /\ \E i \in Intents, s \in SubIds :
              /\ Takes(p, i) /\ Granted(i) = {} /\ Granted(i)' = {s}
              /\ \A j \in Intents \ {i} : Granted(j)' = Granted(j)
<1>1. PICK i \in Intents : Takes(p, i)
  BY DEF Inv, LinkHeld
<1>2. ctx[p].by = i /\ ~ctx[p].pay /\ Granted(i) = {} /\ i # Nobody
  <2>1. ctx[p].by = i /\ ~ctx[p].pay
    BY <1>1 DEF Inv, LinkHeld, Takes
  <2>2. Granted(i) = {}
    BY <1>1 DEF Inv, TakenOnce
  <2>. QED BY <2>1, <2>2, SubscriptionsAssumption DEF Intents
<1>3. PICK s \in NextRow(subs, SubIds) :
        /\ subs' = [subs EXCEPT ![s] = [plan |-> ctx[p].plan, status |-> "active", periods |-> 0, by |-> i]]
        /\ Finish(p)
  BY <1>2 DEF InsertSub
<1>4. s \in SubIds /\ subs[s].by = Nobody
  BY <1>3 DEF NextRow, Inv, SubsInv, RowsLinked
<1>5. subs'[s].by = i /\ \A t \in SubIds \ {s} : subs'[t] = subs[t]
  BY <1>3, <1>4 DEF Inv, SubsInv, TypeOK, Types
<1>6. Granted(i)' = {s}
  BY <1>2, <1>4, <1>5 DEF Granted
<1>7. ASSUME NEW j \in Intents \ {i}
      PROVE  Granted(j)' = Granted(j)
  BY <1>4, <1>5, SubscriptionsAssumption DEF Granted, Intents
<1>8. ctx'[p].by = Nobody /\ \A r \in Procs \ {p} : ctx'[r] = ctx[r]
  BY <1>3, EmptyContext DEF Finish, NoContext, Inv, SubsInv, TypeOK, Types
<1>. QED BY <1>1, <1>2, <1>4, <1>6, <1>7, <1>8

LEMMA RunSubscribeKeeps ==
  ASSUME Inv, NEW p \in Procs, RunSubscribe(p)
  PROVE  Inv'
<1>1. at[p] = "subscribing" /\ UNCHANGED <<provider, recorded>>
  BY DEF RunSubscribe
<1>2. CASE CancelOthers(p) /\ UNCHANGED <<at, hold>>
  <2>1. SubsInv' /\ UNCHANGED ctx
    BY <1>2, CancelKeeps DEF Inv, CancelOthers
  <2>2. \A s \in SubIds : subs'[s].by = subs[s].by
    BY <1>2 DEF CancelOthers, Inv, SubsInv, TypeOK, Types, Row
  <2>3. PICK i \in Intents : Takes(p, i)
    BY <1>1 DEF Inv, LinkHeld
  <2>4. ctx[p].by = i /\ ~ctx[p].pay
    BY <1>1, <2>3 DEF Inv, LinkHeld, Takes
  <2>5. at' = [at EXCEPT ![p] = "subscribing"]
    BY <1>1, <1>2 DEF Inv, LinkTypes
  <2>. QED BY <1>1, <1>2, <2>1, <2>2, <2>3, <2>4, <2>5, EventMoves
<1>3. CASE InsertSub(p) /\ Leave(p)
  <2>1. SubsInv'
    BY <1>3, InsertSubKeeps DEF Inv
  <2>2. PICK i \in Intents, s \in SubIds :
              /\ Takes(p, i) /\ Granted(i) = {} /\ Granted(i)' = {s}
              /\ \A j \in Intents \ {i} : Granted(j)' = Granted(j)
    BY <1>1, <1>3, Buys
  <2>3. ctx'[p].by = Nobody /\ \A r \in Procs \ {p} : ctx'[r] = ctx[r]
    BY <1>1, <1>3, Buys
  <2>4. /\ LinkTypes' /\ at'[p] = "idle"
        /\ \A r \in Procs \ {p} : at'[r] = at[r] /\ hold'[r] = hold[r] /\ \A j \in Intents : Takes(r, j)' = Takes(r, j)
    BY <1>1, <1>3, EmptyHold, LinkMoves DEF Inv, LinkTypes, Leave
  <2>5. /\ \A j \in Intents : ~Takes(p, j)'
        /\ \A r \in Procs : ~Takes(r, i)'
    BY <2>2, <2>4 DEF Takes, Inv, TakenOnce
  <2>6. TakenOnce'
    <3>1. <<i, "succeeded">> \in recorded /\ provider[i].status = "succeeded"
      BY <2>2 DEF Inv, TakenOnce
    <3>2. \A j \in Intents \ {i} : \A r \in Procs : Takes(r, j)' => Takes(r, j)
      BY <2>4, <2>5
    <3>3. ASSUME NEW j \in Intents
          PROVE  /\ \A r \in Procs : Takes(r, j)' =>
                      /\ <<j, "succeeded">> \in recorded' /\ Granted(j)' = {}
                      /\ \A t \in Procs : Takes(t, j)' => t = r
                 /\ Granted(j)' = {} \/ \E t \in SubIds : Granted(j)' = {t}
                 /\ Granted(j)' # {} => <<j, "succeeded">> \in recorded'
                 /\ <<j, "succeeded">> \in recorded' => provider'[j].status = "succeeded"
      <4>1. CASE j = i
        BY <1>1, <2>2, <2>5, <3>1, <4>1
      <4>2. CASE j # i
        <5>1. Granted(j)' = Granted(j)
          BY <2>2, <4>2
        <5>. QED BY <1>1, <3>2, <4>2, <5>1 DEF Inv, TakenOnce
      <4>. QED BY <4>1, <4>2
    <3>. QED BY <3>3 DEF TakenOnce
  <2>7. \A r \in Procs : LinkHeld(r)'
    BY <2>3, <2>4 DEF Inv, LinkHeld
  <2>. QED BY <2>1, <2>4, <2>6, <2>7 DEF Inv
<1>. QED BY <1>2, <1>3 DEF RunSubscribe

LEMMA InterruptKeeps ==
  ASSUME Inv, NEW p \in Procs, Interrupt(p)
  PROVE  Inv'
<1>1. /\ Leave(p) /\ UNCHANGED <<tables, provider, intents, recorded>>
      /\ pc' = [pc EXCEPT ![p] = "idle"] /\ ctx' = [ctx EXCEPT ![p] = NoContext]
  BY DEF Interrupt
<1>2. SubsInv'
  BY <1>1, EndKeeps DEF Inv, Finish, Goto
<1>3. ctx'[p].by = Nobody /\ \A r \in Procs \ {p} : ctx'[r] = ctx[r]
  BY <1>1, EmptyContext DEF NoContext, Inv, SubsInv, TypeOK, Types
<1>. QED BY <1>1, <1>2, <1>3, EventEnds DEF tables

LEMMA NextInv == Inv /\ [IntentsNext]_allVars => Inv'
<1>. SUFFICES ASSUME Inv, [IntentsNext]_allVars PROVE Inv'
  OBVIOUS
<1>1. ASSUME NEW p \in Procs, Other(p) \/ Handle(p) \/ Interrupt(p)
      PROVE  Inv'
  BY <1>1, OtherKeeps, LinkKeeps, UpsertKeeps, ActivateKeeps, RunSubscribeKeeps, InterruptKeeps DEF Handle
<1>2. ASSUME NEW p \in Procs, NEW e \in Intents \X Kinds, Deliver(p, e)
      PROVE  Inv'
  <2>1. PICK i \in Intents, kind \in Kinds : e = <<i, kind>>
    OBVIOUS
  <2>. QED BY <1>2, <2>1, DeliverKeeps
<1>3. CASE UNCHANGED allVars
  <2>1. SubsInv' /\ UNCHANGED <<subs, ctx, provider, recorded, at, hold>>
    BY <1>3, StutterKeeps DEF Inv, allVars, vars, intentVars
  <2>2. LinkTypes' /\ \A r \in Procs, i \in Intents : Takes(r, i)' = Takes(r, i)
    BY <2>1 DEF Inv, LinkTypes, Takes
  <2>. QED BY <2>1, <2>2, TakenStays DEF Inv, LinkHeld
<1>. QED BY <1>1, <1>2, <1>3, LinkKeeps, SettlesKeeps DEF IntentsNext

LEMMA InvAlways == IntentsSpec => []Inv
BY InitInv, NextInv, PTL DEF IntentsSpec

-----------------------------------------------------------------------------
\* No subscription has more periods than notifications were matched to its
\* payments (payment-service.ts:71-78), whatever crosses or is aborted.
THEOREM NoFreePeriods == IntentsSpec => []PeriodsBacked
<1>1. Inv => PeriodsBacked
  <2>. SUFFICES ASSUME Inv, NEW s \in SubIds PROVE subs[s].periods <= Cardinality(Matched(s))
    BY DEF PeriodsBacked
  <2>1. subs[s].periods \in Nat /\ subs[s].periods <= Cardinality(Done(s))
    BY DEF Inv, SubsInv, Counted, TypeOK, Types, Row
  <2>. QED BY <2>1, DoneFinite
<1>. QED BY <1>1, InvAlways, PTL

\* A payment is confirmed by a notification of its amount and by no other's
\* (payment-service.ts:66-73).
THEOREM PaymentsInKind == IntentsSpec => []PaidInKind
<1>1. Inv => PaidInKind
  BY DEF Inv, SubsInv
<1>. QED BY <1>1, InvAlways, PTL

-----------------------------------------------------------------------------
\* How a step of IntentsNext changes the tables of Subscriptions.
LEMMA TableSteps ==
  ASSUME Inv, [IntentsNext]_allVars, ~UNCHANGED tables
  PROVE  \E p \in Procs : Request(p) \/ Step(p)
<1>1. ASSUME NEW p \in Procs, Other(p) \/ Handle(p) \/ Interrupt(p)
      PROVE  Request(p) \/ Step(p)
  <2>1. CASE Other(p)
    BY <2>1 DEF Other, Abort
  <2>2. CASE Handle(p)
    BY <2>2 DEF Handle, Store, UpsertEvent, Activate, RunSubscribe, Step, vars, tables
  <2>3. CASE Interrupt(p)
    BY <2>3 DEF Interrupt
  <2>. QED BY <1>1, <2>1, <2>2, <2>3
<1>2. ASSUME \/ \E p \in Procs, i \in Intents, plan \in Plans, amount \in Amounts : CreateLink(p, i, plan, amount)
             \/ \E p \in Procs, i \in Intents : CheckStatus(p, i) \/ CancelLink(p, i)
             \/ \E i \in Intents, st \in Kinds : ProviderSettles(i, st)
             \/ \E p \in Procs, e \in Intents \X Kinds : Deliver(p, e)
             \/ UNCHANGED allVars
      PROVE  UNCHANGED vars
  BY <1>2 DEF CreateLink, CheckStatus, CancelLink, ProviderSettles, Deliver, allVars
<1>. QED BY <1>1, <1>2 DEF IntentsNext, vars, tables

\* A confirmed payment is never written again, although two syncs may have
\* found it pending (subscription-payments: WHERE status = 'pending').
THEOREM FirstConfirmationStays == IntentsSpec => ConfirmedByFirst
<1>1. ASSUME Inv, [IntentsNext]_allVars
      PROVE  [\A q \in PaymentIds : payments[q].status = "confirmed" => payments'[q] = payments[q]]_vars
  <2>. SUFFICES ASSUME NEW q \in PaymentIds, payments[q].status = "confirmed"
                PROVE  payments'[q] = payments[q]
    OBVIOUS
  <2>1. CASE UNCHANGED tables
    BY <2>1 DEF tables
  <2>2. CASE ~UNCHANGED tables
    <3>1. PICK p \in Procs : Request(p) \/ Step(p)
      BY <1>1, <2>2, TableSteps
    <3>2. CASE Request(p)
      BY <3>2 DEF Request, BeginSubscribe, BeginCreatorSubscribe, BeginPay, BeginCancel, CreatorCancel, BeginSync, tables
    <3>3. CASE InsertPayment(p)
      BY <1>1, <3>3 DEF InsertPayment, NextRow, Inv, SubsInv, TypeOK, Types
    <3>4. CASE Confirm(p)
      <4>1. ctx[p].payment \in PaymentIds
        BY <1>1, <3>4 DEF Confirm, Inv, SubsInv, Holds, HoldsPayment
      <4>. QED BY <1>1, <3>4, <4>1 DEF Confirm, Inv, SubsInv, TypeOK, Types
    <3>5. CASE \/ CancelOthers(p) \/ InsertSub(p) \/ Cancel(p) \/ FindPending(p)
               \/ MarkMatched(p) \/ ReadPeriod(p) \/ Renew(p)
      BY <3>5 DEF CancelOthers, InsertSub, Cancel, FindPending, MarkMatched, ReadPeriod, Renew, tables
    <3>. QED BY <3>1, <3>2, <3>3, <3>4, <3>5 DEF Step
  <2>. QED BY <2>1, <2>2
<1>. QED BY <1>1, InvAlways, PTL DEF IntentsSpec, ConfirmedByFirst

\* Only a notification matched to one of its payments brings a cancelled
\* subscription back (subscription-service.ts, renewSubscription).
THEOREM RevivalIsPaid == IntentsSpec => RevivedOnlyByPayment
<1>1. ASSUME Inv, [IntentsNext]_allVars
      PROVE  [\A s \in SubIds :
               subs[s].status = "cancelled" /\ subs'[s].status = "active" => Matched(s) # {}]_vars
  <2>. SUFFICES ASSUME NEW s \in SubIds, subs[s].status = "cancelled", subs'[s].status = "active"
                PROVE  Matched(s) # {}
    OBVIOUS
  <2>1. ~UNCHANGED tables
    BY DEF tables
  <2>2. PICK p \in Procs : Request(p) \/ Step(p)
    BY <1>1, <2>1, TableSteps
  <2>3. subs \in [SubIds -> Row]
    BY <1>1 DEF Inv, SubsInv, TypeOK, Types
  <2>4. ~Request(p)
    BY <2>3 DEF Request, BeginSubscribe, BeginCreatorSubscribe, BeginPay, BeginCancel, CreatorCancel, BeginSync, tables, Row
  <2>5. ~CancelOthers(p) /\ ~Cancel(p)
    BY <2>3 DEF CancelOthers, Cancel, Row
  <2>6. ~InsertSub(p)
    BY <2>3 DEF InsertSub, NextRow, Row
  <2>7. Renew(p)
    BY <2>2, <2>4, <2>5, <2>6 DEF Step, InsertPayment, FindPending, Confirm, MarkMatched, ReadPeriod, tables
  <2>8. s = ctx[p].sub /\ pc[p] = "renew"
    BY <2>3, <2>7 DEF Renew, Row
  <2>9. /\ ctx[p].note \in Notes /\ notes[ctx[p].note].status = "matched"
        /\ ctx[p].sub = payments[notes[ctx[p].note].payment].sub
    BY <1>1, <2>8 DEF Inv, SubsInv, Holds, HoldsNote, HoldsPayment, Syncing
  <2>. QED BY <2>8, <2>9 DEF Matched
<1>. QED BY <1>1, InvAlways, PTL DEF IntentsSpec, RevivedOnlyByPayment

-----------------------------------------------------------------------------
(* The abstract specification: a step of the links is a payment, a grant,  *)
(* or nothing that GrantOnce can see.                                      *)

PaidLinks == {i \in Intents : provider[i].status = "succeeded"}
GrantsOf == [i \in Intents |-> Cardinality(Granted(i))]

LEMMA GrantSteps ==
  ASSUME Inv, [IntentsNext]_allVars
  PROVE  \/ UNCHANGED <<PaidLinks, GrantsOf>>
         \/ \E i \in Intents : i \notin PaidLinks /\ PaidLinks' = PaidLinks \cup {i} /\ UNCHANGED GrantsOf
         \/ \E i \in Intents : /\ i \in PaidLinks /\ GrantsOf[i] = 0
                               /\ GrantsOf' = [GrantsOf EXCEPT ![i] = 1] /\ UNCHANGED PaidLinks
<1>1. ASSUME \A s \in SubIds : subs'[s].by = subs[s].by
      PROVE  UNCHANGED GrantsOf
  <2>1. \A i \in Intents : Granted(i)' = Granted(i)
    BY <1>1 DEF Granted
  <2>. QED BY <2>1 DEF GrantsOf
<1>2. CASE UNCHANGED provider
  <2>1. UNCHANGED PaidLinks
    BY <1>2 DEF PaidLinks
  <2>2. CASE UNCHANGED subs
    BY <1>1, <2>1, <2>2
  <2>3. CASE ~UNCHANGED subs
    <3>1. PICK p \in Procs : Other(p) \/ RunSubscribe(p)
      BY <2>3 DEF IntentsNext, CreateLink, CheckStatus, CancelLink, ProviderSettles, Deliver, Handle, Store,
         UpsertEvent, Activate, Interrupt, allVars, vars, tables
    <3>2. CASE Other(p)
      <4>1. ctx[p].by = Nobody
        BY <3>2 DEF Inv, LinkHeld, Other
      <4>2. \A s \in SubIds : subs'[s].by = subs[s].by
        BY <3>2, <4>1, OrdinaryIsNobodys DEF Inv, Other
      <4>. QED BY <1>1, <2>1, <4>2
    <3>3. CASE at[p] = "subscribing" /\ CancelOthers(p)
      <4>1. \A s \in SubIds : subs'[s].by = subs[s].by
        BY <3>3 DEF CancelOthers, Inv, SubsInv, TypeOK, Types, Row
      <4>. QED BY <1>1, <2>1, <4>1
    <3>4. CASE at[p] = "subscribing" /\ InsertSub(p)
      <4>1. PICK i \in Intents, s \in SubIds :
              /\ Takes(p, i) /\ Granted(i) = {} /\ Granted(i)' = {s}
              /\ \A j \in Intents \ {i} : Granted(j)' = Granted(j)
        BY <3>4, Buys
      <4>2. i \in PaidLinks
        BY <4>1 DEF Inv, TakenOnce, PaidLinks
      <4>3. GrantsOf[i] = 0 /\ Cardinality(Granted(i)') = 1
        BY <4>1, FS_EmptySet, FS_Singleton DEF GrantsOf
      <4>4. \A j \in Intents \ {i} : GrantsOf'[j] = GrantsOf[j]
        BY <4>1 DEF GrantsOf
      <4>5. GrantsOf' = [GrantsOf EXCEPT ![i] = 1]
        BY <4>3, <4>4 DEF GrantsOf
      <4>. QED BY <2>1, <4>2, <4>3, <4>5
    <3>. QED BY <3>1, <3>2, <3>3, <3>4 DEF RunSubscribe
  <2>. QED BY <2>2, <2>3
<1>3. CASE ~UNCHANGED provider
  <2>1. UNCHANGED vars
    BY <1>3 DEF IntentsNext, CreateLink, CheckStatus, CancelLink, ProviderSettles, Deliver, Other, Handle, Store,
       UpsertEvent, Activate, RunSubscribe, Interrupt, allVars, intentVars
  <2>2. UNCHANGED GrantsOf
    BY <1>1, <2>1 DEF vars
  <2>3. CASE \E p \in Procs, i \in Intents, plan \in Plans, amount \in Amounts : CreateLink(p, i, plan, amount)
    BY <2>2, <2>3 DEF CreateLink, Inv, LinkTypes, PaidLinks
  <2>4. CASE \E p \in Procs, i \in Intents : CancelLink(p, i)
    BY <2>2, <2>4 DEF CancelLink, Inv, LinkTypes, Provider, PaidLinks
  <2>5. ASSUME NEW i \in Intents, NEW st \in Kinds, ProviderSettles(i, st)
        PROVE  \/ UNCHANGED PaidLinks
               \/ i \notin PaidLinks /\ PaidLinks' = PaidLinks \cup {i}
    BY <2>5 DEF ProviderSettles, Inv, LinkTypes, Provider, PaidLinks
  <2>. QED BY <1>3, <2>2, <2>3, <2>4, <2>5 DEF IntentsNext, CheckStatus, Deliver, Other, Handle, Store,
       UpsertEvent, Activate, RunSubscribe, Interrupt, allVars, intentVars
<1>. QED BY <1>2, <1>3

\* yayapay-service.ts implements "a duplicate event id is a no-op": each paid
\* link grants once.
THEOREM LinksGrantOnce == IntentsSpec => GrantedOnce
<1>1. IntentsInit => Grants!Init
  <2>. SUFFICES ASSUME IntentsInit PROVE Grants!Init
    OBVIOUS
  <2>1. \A i \in Intents : {s \in SubIds : subs[s].by = i} = {}
    BY SubscriptionsAssumption DEF IntentsInit, Init, Intents
  <2>2. \A i \in Intents : provider[i].status # "succeeded"
    BY DEF IntentsInit
  <2>. QED BY <2>1, <2>2, FS_EmptySet DEF Grants!Init
<1>2. Inv /\ [IntentsNext]_allVars => [Grants!Next]_<<PaidLinks, GrantsOf>>
  BY GrantSteps DEF Grants!Next, Grants!Pay, Grants!Grant, PaidLinks, GrantsOf, Granted
<1>. QED BY <1>1, <1>2, InvAlways, PTL DEF IntentsSpec, GrantedOnce, Grants!Spec, PaidLinks, GrantsOf, Granted
=============================================================================
