------------------------------ MODULE PhoneSync ------------------------------
(***************************************************************************)
(* The merchant's phone: Yape notifications are captured into a local      *)
(* table (YapeNotificationListener.kt) and sent to the backend by two      *)
(* unique works, one enqueued by each capture and one periodic             *)
(* (SyncScheduler.kt, SyncWorker.kt, PaymentRepository.kt).  The two run   *)
(* side by side; each statement on the table is a step.  The backend keeps *)
(* one notification per text (syncYapeNotification, payment-service.ts):   *)
(* the formats hold nothing but sender and amount, so two transfers may    *)
(* have one text.  What it does with one it takes in is in YapeMatching.   *)
(***************************************************************************)
EXTENDS Naturals, FiniteSets

CONSTANTS Transfers,    \* transfers to the merchant
          NoTransfer,
          Text,         \* the text of each, or its hash
          Payer,        \* the sender and amount of each, which the text names
          MaxPosts,     \* times Android posts a notification (bound)
          MaxRows,      \* rows of the table (bound)
          MaxRetries,   \* MAX_RETRIES
          MaxFaults     \* lost requests, errors, kills and logouts (bound)

Rows == 1..MaxRows
Posts == Transfers \X (1..MaxPosts)
Works == {"immediate", "periodic"}
Texts == {Text[t] : t \in Transfers}

ASSUME PhoneAssumption ==
  /\ NoTransfer \notin Transfers /\ DOMAIN Payer = Transfers
  /\ \A t, u \in Transfers : Text[t] = Text[u] => Payer[t] = Payer[u]
  /\ MaxPosts \in Nat /\ MaxRows \in Nat /\ MaxRetries \in Nat /\ MaxFaults \in Nat

VARIABLES capture,   \* where the coroutine of each notification posted stands
          row,       \* the payments table of the phone
          work,      \* the two works of WorkManager
          backend,   \* whose notification it has under each text (notification_hash UNIQUE)
          loggedIn, faults,
          crossed,   \* payers of two captures that ran at one time (history)
          shared,    \* rows that both works had read (history)
          disturbed  \* rows in a sync that was refused, lost, cancelled or killed (history)

history == <<crossed, shared, disturbed>>
vars == <<capture, row, work, backend, loggedIn, faults, history>>

Row == [sync : {"none", "UNSYNCED", "SYNCING", "SYNCED", "FAILED"},
        transfer : Transfers \cup {NoTransfer}, young : BOOLEAN]
Work == [at : {"off", "due", "update", "call"}, attempts : 0..MaxRetries,
         batch : SUBSET Rows, left : SUBSET Rows, into : {"SYNCING", "SYNCED", "FAILED"}]

NoRow == [sync |-> "none", transfer |-> NoTransfer, young |-> FALSE]
Idle(at, attempts) == [at |-> at, attempts |-> attempts, batch |-> {}, left |-> {}, into |-> "SYNCING"]
Captured == {r \in Rows : row[r].sync # "none"}

TypeOK ==
  /\ capture \in [Posts -> {"none", "check", "insert", "schedule", "done"}]
  /\ row \in [Rows -> Row] /\ work \in [Works -> Work]
  /\ backend \in [Texts -> Transfers \cup {NoTransfer}]
  /\ loggedIn \in BOOLEAN /\ faults \in 0..MaxFaults
  /\ crossed \subseteq {Payer[t] : t \in Transfers}
  /\ shared \subseteq Rows /\ disturbed \subseteq Rows

Init ==
  /\ capture = [c \in Posts |-> "none"]
  /\ row = [r \in Rows |-> NoRow]
  /\ work = [w \in Works |-> Idle(IF w = "periodic" THEN "due" ELSE "off", 0)]
  /\ backend = [x \in Texts |-> NoTransfer] /\ loggedIn = TRUE /\ faults = 0
  /\ crossed = {} /\ shared = {} /\ disturbed = {}

Sent(w) == {row[r].transfer : r \in work[w].batch}

\* The texts the backend has a notification of.
Known == {x \in Texts : backend[x] # NoTransfer}

\* syncYapeNotification of each transfer of S: the first of a new text is taken in,
\* any other gets the row that getByHash finds, however old, for its answer.
TakeIn(S) ==
  backend' \in {b \in [Texts -> Transfers \cup {NoTransfer}] :
    \A x \in Texts : IF x \in Known \/ \A t \in S : Text[t] # x THEN b[x] = backend[x]
                     ELSE b[x] \in S /\ Text[b[x]] = x}

\* The syncs of W end halfway: their rows stay as they are, and the backend has
\* any of what was being sent.
Cut(W) ==
  /\ disturbed' = disturbed \cup UNION {work[w].batch : w \in W}
  /\ \E S \in SUBSET UNION {Sent(w) : w \in {w \in W : work[w].at = "call"}} : TakeIn(S)

-----------------------------------------------------------------------------
(* YapeNotificationListener.kt and DeduplicationManager.kt *)

Running(c) == capture[c] \in {"check", "insert", "schedule"}
Captures(payer) == {c \in Posts : Running(c) /\ Payer[c[1]] = payer}

\* onNotificationPosted; Android posts a notification that changed again.
Post(c) ==
  LET payer == Payer[c[1]] IN
  /\ capture[c] = "none" /\ \A n \in 1..(c[2] - 1) : capture[<<c[1], n>>] # "none"
  /\ capture' = [capture EXCEPT ![c] = "check"]
  /\ crossed' = IF Captures(payer) = {} THEN crossed ELSE crossed \cup {payer}
  /\ UNCHANGED <<row, work, backend, loggedIn, faults, shared, disturbed>>

\* Mutant: only rows that wait for their sync are compared.
CheckUnsynced(c) ==
  /\ capture[c] = "check"
  /\ capture' = [capture EXCEPT ![c] =
       IF \E r \in Captured : row[r].young /\ row[r].sync = "UNSYNCED" /\ Payer[row[r].transfer] = Payer[c[1]]
         THEN "done" ELSE "insert"]
  /\ UNCHANGED <<row, work, backend, loggedIn, faults, history>>

\* isDuplicate and isDuplicatePayment: the same sender and amount within two
\* minutes, which the same text within one minute is a case of.
Check(c) ==
  /\ capture[c] = "check"
  /\ capture' = [capture EXCEPT ![c] =
       IF \E r \in Captured : row[r].young /\ Payer[row[r].transfer] = Payer[c[1]]
         THEN "done" ELSE "insert"]
  /\ UNCHANGED <<row, work, backend, loggedIn, faults, history>>

Insert(c) ==
  /\ capture[c] = "insert"
  /\ \E r \in Rows \ Captured :
       /\ \A q \in Rows \ Captured : r <= q
       /\ row' = [row EXCEPT ![r] = [sync |-> "UNSYNCED", transfer |-> c[1], young |-> TRUE]]
  /\ capture' = [capture EXCEPT ![c] = "schedule"]
  /\ UNCHANGED <<work, backend, loggedIn, faults, history>>

\* scheduleImmediateSync: REPLACE cancels the work that runs.
Schedule(c) ==
  /\ capture[c] = "schedule"
  /\ capture' = [capture EXCEPT ![c] = "done"]
  /\ work' = [work EXCEPT !["immediate"] = Idle("due", 0)]
  /\ Cut({"immediate"})
  /\ UNCHANGED <<row, loggedIn, faults, crossed, shared>>

\* Two minutes pass.
Age(r) ==
  /\ row[r].young
  /\ row' = [row EXCEPT ![r].young = FALSE]
  /\ UNCHANGED <<capture, work, backend, loggedIn, faults, history>>

-----------------------------------------------------------------------------
(* SyncWorker.kt and PaymentRepository.kt *)

Off(w) == Idle(IF w = "periodic" THEN "due" ELSE "off", 0)
Other(w) == CHOOSE v \in Works : v # w

\* Mutant: every row that is not FAILED is read again.
ReadAll(w) ==
  /\ work[w].at = "due"
  /\ LET B == {r \in Captured : row[r].sync # "FAILED"} IN
     IF work[w].attempts >= MaxRetries \/ B = {}
       THEN work' = [work EXCEPT ![w] = Off(w)] /\ UNCHANGED shared
       ELSE /\ work' = [work EXCEPT ![w] = [@ EXCEPT !.at = "update", !.batch = B, !.left = B]]
            /\ shared' = shared \cup (B \cap work[Other(w)].batch)
  /\ UNCHANGED <<capture, row, backend, loggedIn, faults, crossed, disturbed>>

\* doWork up to getUnsynced.
Read(w) ==
  /\ work[w].at = "due"
  /\ LET B == {r \in Rows : row[r].sync = "UNSYNCED"} IN
     IF work[w].attempts >= MaxRetries \/ B = {}
       THEN work' = [work EXCEPT ![w] = Off(w)] /\ UNCHANGED shared
       ELSE /\ work' = [work EXCEPT ![w] = [@ EXCEPT !.at = "update", !.batch = B, !.left = B]]
            /\ shared' = shared \cup (B \cap work[Other(w)].batch)
  /\ UNCHANGED <<capture, row, backend, loggedIn, faults, crossed, disturbed>>

\* Mutant: a batch is marked by its first row.
UpdateFirst(w) ==
  /\ work[w].at = "update"
  /\ \E r \in work[w].left :
       /\ row' = [row EXCEPT ![r].sync = work[w].into]
       /\ work' = [work EXCEPT ![w] =
            IF @.into = "SYNCING" THEN [@ EXCEPT !.at = "call", !.left = {}] ELSE Off(w)]
  /\ UNCHANGED <<capture, backend, loggedIn, faults, history>>

\* update(payment.copy(..)) writes the row as it was read, markSynced its
\* status and backendId; the last row of the batch ends this round.
Update(w) ==
  /\ work[w].at = "update"
  /\ \E r \in work[w].left :
       /\ \A q \in work[w].left : r <= q
       /\ row' = [row EXCEPT ![r].sync = work[w].into]
       /\ work' = [work EXCEPT ![w] =
            IF work[w].left # {r} THEN [work[w] EXCEPT !.left = @ \ {r}]
            ELSE IF work[w].into = "SYNCING" THEN [work[w] EXCEPT !.at = "call", !.left = {}]
            ELSE Off(w)]
  /\ UNCHANGED <<capture, backend, loggedIn, faults, history>>

Then(w, how) == work' = [work EXCEPT ![w] = [@ EXCEPT !.at = "update", !.left = work[w].batch, !.into = how]]

\* Mutant: one answer stands for all, though the backend took in some of them.
SucceedPartly(w) ==
  /\ work[w].at = "call" /\ loggedIn
  /\ \E S \in SUBSET Sent(w) : TakeIn(S)
  /\ Then(w, "SYNCED")
  /\ UNCHANGED <<capture, row, loggedIn, faults, history>>

\* The backend takes the payments one after the other and answers them all, with a
\* row of their own or with one of the same text that was there.
Succeed(w) ==
  /\ work[w].at = "call" /\ loggedIn
  /\ TakeIn(Sent(w))
  /\ Then(w, "SYNCED")
  /\ UNCHANGED <<capture, row, loggedIn, faults, history>>

\* It refuses a phone without a token, or fails on one of the payments.
Refuse(w) ==
  /\ work[w].at = "call"
  /\ \/ ~loggedIn /\ disturbed' = disturbed \cup work[w].batch /\ UNCHANGED <<backend, faults>>
     \/ loggedIn /\ faults < MaxFaults /\ faults' = faults + 1 /\ Cut({w})
  /\ Then(w, "FAILED")
  /\ UNCHANGED <<capture, row, loggedIn, crossed, shared>>

\* The request throws: Result.retry, with the rows left as they are.
Lose(w) ==
  /\ work[w].at = "call" /\ faults < MaxFaults
  /\ faults' = faults + 1
  /\ Cut({w})
  /\ work' = [work EXCEPT ![w] = Idle("due", @.attempts + 1)]
  /\ UNCHANGED <<capture, row, loggedIn, crossed, shared>>

\* The process is killed and started: WorkManager runs its works again, and
\* onCreate enqueues the periodic one if it is not there.
Kill ==
  /\ faults < MaxFaults /\ faults' = faults + 1
  /\ capture' = [c \in Posts |-> IF Running(c) THEN "done" ELSE capture[c]]
  /\ work' = [w \in Works |-> IF w = "immediate" /\ work[w].at = "off" THEN work[w]
                              ELSE Idle("due", work[w].attempts)]
  /\ Cut(Works)
  /\ UNCHANGED <<row, loggedIn, crossed, shared>>

\* LogoutUseCase: cancelAll; the listener goes on.  Nothing but the next start
\* of the process enqueues the periodic work again.
Logout ==
  /\ loggedIn /\ loggedIn' = FALSE
  /\ faults < MaxFaults /\ faults' = faults + 1
  /\ work' = [w \in Works |-> Idle("off", 0)]
  /\ Cut(Works)
  /\ UNCHANGED <<capture, row, crossed, shared>>

Login ==
  /\ ~loggedIn /\ loggedIn' = TRUE
  /\ UNCHANGED <<capture, row, work, backend, faults, history>>

Run(w) == Read(w) \/ Update(w) \/ Succeed(w) \/ Refuse(w)
Capture(c) == Check(c) \/ Insert(c) \/ Schedule(c)

Next ==
  \/ \E c \in Posts : Post(c) \/ Capture(c)
  \/ \E r \in Rows : Age(r)
  \/ \E w \in Works : Run(w) \/ Lose(w)
  \/ Kill \/ Logout \/ Login

Spec == Init /\ [][Next]_vars

\* WorkManager runs what is due while there is a network, and requests end.
FairSpec == Spec /\ \A w \in Works : WF_vars(Run(w))

-----------------------------------------------------------------------------
\* The backend has a notification of the text of every row that says SYNCED,
\* whichever works, kills and answers it went through (PaymentRepository.kt:53-59
\* and :84-95).  It may be that of an earlier transfer of the same text: the later
\* one was then never taken in.
SyncedIsKnown ==
  \A r \in Captured : row[r].sync = "SYNCED" => Text[row[r].transfer] \in Known

\* One payer's notifications are captured once in two minutes, unless two
\* captures of them ran at one time (YapeNotificationListener.kt:52-70 checks
\* and inserts in separate statements).
CapturedOnce ==
  \A r, q \in Captured :
    /\ r # q /\ row[r].young /\ row[q].young
    /\ Payer[row[r].transfer] = Payer[row[q].transfer]
    => Payer[row[r].transfer] \in crossed

\* A row that is SYNCED stays so, unless both works had read it: then the
\* stale copy of one undoes what the other wrote (PaymentRepository.kt:44, :70).
SyncedStays ==
  [][\A r \in Rows : row[r].sync = "SYNCED" /\ row'[r].sync # "SYNCED" => r \in shared]_vars

\* Every captured payment is synced, unless a request it was in was refused,
\* lost, cancelled or killed, or the periodic work is off: nothing reads a
\* FAILED or SYNCING row again (PaymentDao.kt:29).
EventuallySynced ==
  \A r \in Rows : row[r].sync = "UNSYNCED" ~>
    (row[r].sync = "SYNCED" \/ r \in disturbed \/ work["periodic"].at = "off")
=============================================================================
