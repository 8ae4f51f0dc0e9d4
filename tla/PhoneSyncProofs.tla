---------------------------- MODULE PhoneSyncProofs ----------------------------
(***************************************************************************)
(* Theorems about PhoneSync, for every number of transfers, posts, rows,   *)
(* retries and faults.  Inv is inductive: what a work holds is captured, a *)
(* batch that is being marked SYNCED has its texts at the backend, and a   *)
(* row that is in one batch only is not SYNCED unless this work made it so.            *)
(***************************************************************************)
EXTENDS PhoneSync, TLAPS

\* What holds of a work b, given the table, the backend and the shared rows.
Sound(b, rows, kn, sh) ==
  /\ b.left \subseteq b.batch
  /\ (b.at \in {"update", "call"} => b.attempts < MaxRetries)
  /\ (b.at \in {"off", "due"} => b.batch = {})
  /\ (b.at # "update" => b.into = "SYNCING")
  /\ \A r \in b.batch : rows[r].sync # "none"
  /\ (b.into = "SYNCED" => \A r \in b.batch : Text[rows[r].transfer] \in kn)
  /\ (b.into # "SYNCED" => \A r \in b.batch \ sh : rows[r].sync # "SYNCED")

RowSound(r, kn) ==
  /\ r.sync # "none" => r.transfer \in Transfers
  /\ r.sync = "SYNCED" => Text[r.transfer] \in kn

Sending ==
  /\ \A w \in Works : Sound(work[w], row, Known, shared)
  /\ \A r \in work["immediate"].batch \cap work["periodic"].batch : r \in shared
  /\ \A r \in Rows : RowSound(row[r], Known)

Inv == TypeOK /\ Sending

-----------------------------------------------------------------------------

LEMMA BackendSame == backend' = backend => Known' = Known
BY DEF Known

LEMMA InitInv == Init => Inv
<1>. SUFFICES ASSUME Init PROVE Inv
  OBVIOUS
<1>1. \A w \in Works : work[w] \in Work /\ work[w].batch = {} /\ work[w].left = {}
                         /\ work[w].at \in {"off", "due"} /\ work[w].into = "SYNCING"
  BY PhoneAssumption DEF Init, Idle, Work
<1>2. TypeOK
  <2>1. work \in [Works -> Work]
    BY <1>1 DEF Init
  <2>2. row \in [Rows -> Row]
    BY DEF Init, Row, NoRow
  <2>. QED BY <2>1, <2>2, PhoneAssumption DEF Init, TypeOK
<1>3. Sending
  BY <1>1 DEF Init, NoRow, Sending, Sound, RowSound, Works
<1>. QED BY <1>2, <1>3 DEF Inv

\* A work that does not move stays sound as long as its rows stay captured and
\* nobody else marks those that are its own.
LEMMA StillSound ==
  ASSUME NEW b, Sound(b, row, Known, shared), Known \subseteq Known', shared \subseteq shared',
         \A r \in b.batch : row'[r].sync # "none" /\ row'[r].transfer = row[r].transfer,
         b.into # "SYNCED" => \A r \in b.batch \ shared' : row[r].sync # "SYNCED" => row'[r].sync # "SYNCED"
  PROVE  Sound(b, row', Known', shared')
BY DEF Sound

\* A step that leaves the table alone and takes no new row into a batch.
LEMMA WorksMove ==
  ASSUME Inv, row' = row, Known \subseteq Known', shared' = shared,
         \A w \in Works :
           /\ work'[w] = work[w] \/ Sound(work'[w], row, Known', shared)
           /\ work'[w].batch \subseteq work[w].batch
  PROVE  Sending'
<1>1. ASSUME NEW w \in Works
      PROVE  Sound(work'[w], row', Known', shared')
  <2>1. CASE work'[w] = work[w]
    <3>1. Sound(work[w], row, Known, shared) /\ \A r \in work[w].batch : row[r].sync # "none"
      BY DEF Inv, Sending, Sound
    <3>2. Sound(work[w], row', Known', shared')
      BY <3>1, StillSound
    <3>. QED BY <2>1, <3>2
  <2>2. CASE work'[w] # work[w]
    BY <2>2
  <2>. QED BY <2>1, <2>2
<1>2. \A r \in work'["immediate"].batch \cap work'["periodic"].batch : r \in shared'
  BY DEF Inv, Sending, Works
<1>3. \A r \in Rows : RowSound(row'[r], Known')
  BY DEF Inv, Sending, RowSound
<1>. QED BY <1>1, <1>2, <1>3 DEF Sending

\* The transfers a work holds are transfers.
LEMMA SentTransfers ==
  ASSUME Inv, NEW w \in Works
  PROVE  Sent(w) \subseteq Transfers
<1>1. ASSUME NEW r \in work[w].batch
      PROVE  row[r].transfer \in Transfers
  BY DEF Inv, TypeOK, Work, Sending, Sound, RowSound
<1>. QED BY <1>1 DEF Sent

\* What the backend takes in stays, and every text that was sent is there then.
LEMMA TakenIn ==
  ASSUME Inv, NEW S, S \subseteq Transfers, TakeIn(S)
  PROVE  /\ backend' \in [Texts -> Transfers \cup {NoTransfer}]
         /\ Known \subseteq Known' /\ \A t \in S : Text[t] \in Known'
<1>1. backend' \in [Texts -> Transfers \cup {NoTransfer}]
  BY DEF TakeIn
<1>2. ASSUME NEW x \in Texts
      PROVE  IF x \in Known \/ \A t \in S : Text[t] # x THEN backend'[x] = backend[x]
             ELSE backend'[x] \in S /\ Text[backend'[x]] = x
  BY DEF TakeIn
<1>3. Known \subseteq Known'
  BY <1>2 DEF Known
<1>4. ASSUME NEW t \in S
      PROVE  Text[t] \in Known'
  <2>1. Text[t] \in Texts
    BY DEF Texts
  <2>2. CASE Text[t] \in Known
    BY <1>3, <2>2
  <2>3. CASE Text[t] \notin Known
    <3>1. backend'[Text[t]] \in S
      BY <1>2, <2>1, <2>3
    <3>2. backend'[Text[t]] # NoTransfer
      BY <3>1, PhoneAssumption
    <3>. QED BY <2>1, <3>2 DEF Known
  <2>. QED BY <2>2, <2>3
<1>. QED BY <1>1, <1>3, <1>4

\* What Cut leaves behind.
LEMMA CutTypes ==
  ASSUME Inv, NEW W \in SUBSET Works, Cut(W)
  PROVE  /\ Known \subseteq Known' /\ backend' \in [Texts -> Transfers \cup {NoTransfer}]
         /\ disturbed' \subseteq Rows
<1>1. ASSUME NEW w \in W
      PROVE  Sent(w) \subseteq Transfers /\ work[w].batch \subseteq Rows
  BY SentTransfers DEF Inv, TypeOK, Work
<1>2. disturbed' \subseteq Rows
  BY <1>1 DEF Cut, Inv, TypeOK
<1>3. PICK S \in SUBSET UNION {Sent(w) : w \in {w \in W : work[w].at = "call"}} : TakeIn(S)
  BY DEF Cut
<1>4. S \subseteq Transfers
  BY <1>1
<1>. QED BY <1>2, <1>3, <1>4, TakenIn

\* A work that was started over or switched off.
LEMMA IdleSound ==
  ASSUME NEW at \in {"off", "due"}, NEW n \in 0..MaxRetries, NEW rows, NEW kn, NEW sh
  PROVE  Idle(at, n) \in Work /\ Sound(Idle(at, n), rows, kn, sh) /\ Idle(at, n).batch = {}
BY DEF Idle, Work, Sound

LEMMA CaptureKeepsInv ==
  ASSUME Inv, NEW c \in Posts, Post(c) \/ Check(c) \/ Insert(c)
  PROVE  Inv'
<1>. c[1] \in Transfers
  BY DEF Posts
<1>1. CASE Post(c) \/ Check(c)
  <2>1. UNCHANGED <<row, work, backend, loggedIn, faults, shared, disturbed>>
    BY <1>1 DEF Post, Check, history
  <2>2. capture' \in [Posts -> {"none", "check", "insert", "schedule", "done"}]
    BY <1>1 DEF Inv, TypeOK, Post, Check
  <2>3. crossed' \subseteq {Payer[t] : t \in Transfers}
    BY <1>1 DEF Inv, TypeOK, Post, Check, history
  <2>. QED BY <2>1, <2>2, <2>3, BackendSame DEF Inv, TypeOK, Sending
<1>2. CASE Insert(c)
  <2>1. PICK r \in Rows : /\ row[r].sync = "none"
                          /\ row' = [row EXCEPT ![r] = [sync |-> "UNSYNCED", transfer |-> c[1], young |-> TRUE]]
    BY <1>2 DEF Insert, Captured
  <2>2. UNCHANGED <<work, backend, loggedIn, faults, history>>
    BY <1>2 DEF Insert
  <2>3. TypeOK'
    <3>1. row' \in [Rows -> Row] /\ capture' \in [Posts -> {"none", "check", "insert", "schedule", "done"}]
      BY <1>2, <2>1 DEF Inv, TypeOK, Insert, Row
    <3>. QED BY <2>2, <3>1 DEF Inv, TypeOK, history
  <2>4. ASSUME NEW w \in Works
        PROVE  Sound(work[w], row', Known', shared')
    <3>1. Sound(work[w], row, Known, shared) /\ work[w].batch \subseteq Rows
      BY DEF Inv, TypeOK, Work, Sending
    <3>2. \A q \in work[w].batch : row'[q] = row[q] /\ row[q].sync # "none"
      BY <2>1, <3>1 DEF Inv, TypeOK, Sound
    <3>. QED BY <2>2, <3>1, <3>2, BackendSame, StillSound DEF history
  <2>5. \A q \in Rows : RowSound(row'[q], Known')
    BY <2>1, <2>2, BackendSame DEF Inv, TypeOK, Sending, RowSound
  <2>. QED BY <2>2, <2>3, <2>4, <2>5, BackendSame DEF Inv, Sending, history
<1>. QED BY <1>1, <1>2

LEMMA AgeKeepsInv ==
  ASSUME Inv, NEW r \in Rows, Age(r)
  PROVE  Inv'
<1>1. UNCHANGED <<capture, work, backend, loggedIn, faults, history>>
  BY DEF Age
<1>2. row' \in [Rows -> Row] /\ \A q \in Rows : row'[q].sync = row[q].sync /\ row'[q].transfer = row[q].transfer
  BY DEF Age, Inv, TypeOK, Row
<1>3. ASSUME NEW w \in Works
      PROVE  Sound(work[w], row', Known', shared')
  <2>1. Sound(work[w], row, Known, shared) /\ work[w].batch \subseteq Rows
    BY DEF Inv, TypeOK, Work, Sending
  <2>. QED BY <1>1, <1>2, <2>1, BackendSame, StillSound DEF history, Sound
<1>. QED BY <1>1, <1>2, <1>3, BackendSame DEF Inv, TypeOK, Sending, RowSound, history

LEMMA ReadKeepsInv ==
  ASSUME Inv, NEW w \in Works, Read(w)
  PROVE  Inv'
<1>. DEFINE B == {r \in Rows : row[r].sync = "UNSYNCED"}
<1>1. UNCHANGED <<capture, row, backend, loggedIn, faults, crossed, disturbed>> /\ work[w].at = "due"
  BY DEF Read
<1>2. work[w] \in Work /\ Sound(work[w], row, Known, shared) /\ work[w].batch = {}
  BY <1>1 DEF Inv, TypeOK, Sending, Sound
<1>3. CASE work[w].attempts >= MaxRetries \/ B = {}
  <2>1. work' = [work EXCEPT ![w] = Off(w)] /\ shared' = shared
    BY <1>3 DEF Read
  <2>2. Off(w) \in Work /\ Sound(Off(w), row, Known', shared) /\ Off(w).batch = {}
    BY IdleSound, PhoneAssumption DEF Off
  <2>3. Sending'
    <3>1. \A v \in Works : /\ work'[v] = work[v] \/ Sound(work'[v], row, Known', shared)
                           /\ work'[v].batch \subseteq work[v].batch
      BY <2>1, <2>2 DEF Inv, TypeOK
    <3>. QED BY <1>1, <2>1, <3>1, BackendSame, WorksMove
  <2>. QED BY <1>1, <2>1, <2>2, <2>3 DEF Inv, TypeOK
<1>4. CASE ~(work[w].attempts >= MaxRetries \/ B = {})
  <2>. DEFINE b == [work[w] EXCEPT !.at = "update", !.batch = B, !.left = B]
  <2>1. work' = [work EXCEPT ![w] = b] /\ shared' = shared \cup (B \cap work[Other(w)].batch)
    BY <1>4 DEF Read
  <2>2. b \in Work /\ b.at = "update" /\ b.batch = B /\ b.left = B /\ b.into = work[w].into
          /\ b.attempts = work[w].attempts
    BY <1>2 DEF Work
  <2>3. work[w].attempts < MaxRetries
    BY <1>2, <1>4, PhoneAssumption DEF Work
  <2>4. \A r \in B : row[r].sync = "UNSYNCED"
    OBVIOUS
  <2>7. \A v \in Works \ {w} : v = Other(w)
    BY DEF Works, Other
  <2>6. shared \subseteq shared' /\ shared' \subseteq Rows
    BY <2>1 DEF Inv, TypeOK
  <2>. HIDE DEF b, B
  <2>5. ASSUME NEW v \in Works
        PROVE  Sound(work'[v], row', Known', shared')
    <3>1. CASE v = w
      <4>1. work'[v] = b
        BY <2>1, <3>1 DEF Inv, TypeOK
      <4>2. b.into # "SYNCED"
        BY <1>2, <2>2, <1>1 DEF Sound, Work
      <4>. QED BY <1>1, <2>2, <2>3, <2>4, <4>1, <4>2 DEF Sound
    <3>2. CASE v # w
      <4>1. work'[v] = work[v] /\ Sound(work[v], row, Known, shared)
        BY <2>1, <3>2 DEF Inv, TypeOK, Sending
      <4>. QED BY <1>1, <2>6, <4>1, BackendSame, StillSound DEF Sound
    <3>. QED BY <3>1, <3>2
  <2>8. \A r \in work'["immediate"].batch \cap work'["periodic"].batch : r \in shared'
    <3>1. work'[w].batch = B /\ work'[Other(w)] = work[Other(w)] /\ Other(w) \in Works
      BY <2>1, <2>2 DEF Inv, TypeOK, Works, Other
    <3>2. {w, Other(w)} = {"immediate", "periodic"}
      BY <2>7 DEF Works
    <3>. QED BY <2>1, <3>1, <3>2
  <2>9. TypeOK'
    BY <1>1, <2>1, <2>2, <2>6 DEF Inv, TypeOK
  <2>. QED BY <1>1, <2>5, <2>8, <2>9, BackendSame DEF Inv, Sending
<1>. QED BY <1>3, <1>4

\* A work that marks a row of its own.
LEMMA UpdateKeepsInv ==
  ASSUME Inv, NEW w \in Works, Update(w)
  PROVE  Inv'
<1>1. PICK r \in work[w].left :
        /\ row' = [row EXCEPT ![r].sync = work[w].into]
        /\ work' = [work EXCEPT ![w] =
              IF work[w].left # {r} THEN [work[w] EXCEPT !.left = @ \ {r}]
              ELSE IF work[w].into = "SYNCING" THEN [work[w] EXCEPT !.at = "call", !.left = {}]
              ELSE Off(w)]
  BY DEF Update
<1>2. work[w].at = "update" /\ UNCHANGED <<capture, backend, loggedIn, faults, history>>
  BY DEF Update
<1>11. work'[w] = IF work[w].left # {r} THEN [work[w] EXCEPT !.left = @ \ {r}]
                  ELSE IF work[w].into = "SYNCING" THEN [work[w] EXCEPT !.at = "call", !.left = {}]
                  ELSE Off(w)
  <2>1. work \in [Works -> Work]
    BY DEF Inv, TypeOK
  <2>. QED BY <1>1, <2>1
<1>3. work[w] \in Work /\ Sound(work[w], row, Known, shared) /\ r \in work[w].batch /\ r \in Rows
  BY DEF Inv, TypeOK, Sending, Sound, Work
<1>4. /\ row' \in [Rows -> Row] /\ row'[r].sync = work[w].into
      /\ \A q \in Rows : row'[q].transfer = row[q].transfer
      /\ \A q \in Rows \ {r} : row'[q] = row[q]
  BY <1>1, <1>3 DEF Inv, TypeOK, Row, Work
<1>5. row[r].sync # "none" /\ work[w].into \in {"SYNCING", "SYNCED", "FAILED"}
  BY <1>3 DEF Sound, Work
<1>6. work'[w] \in Work /\ work'[w].batch \subseteq work[w].batch /\ Sound(work'[w], row', Known', shared')
  <2>1. CASE work[w].left # {r}
    <3>1. work'[w] = [work[w] EXCEPT !.left = @ \ {r}]
      BY <1>11, <2>1
    <3>2. work'[w] \in Work /\ work'[w].batch = work[w].batch /\ work'[w].left = work[w].left \ {r}
            /\ work'[w].into = work[w].into /\ work'[w].at = "update" /\ work'[w].attempts = work[w].attempts
      BY <1>2, <1>3, <3>1 DEF Work
    <3>. QED BY <1>2, <1>3, <1>4, <1>5, <3>2, BackendSame DEF Sound, history, Work
  <2>2. CASE work[w].left = {r} /\ work[w].into = "SYNCING"
    <3>1. work'[w] = [work[w] EXCEPT !.at = "call", !.left = {}]
      BY <1>11, <2>2
    <3>2. work'[w] \in Work /\ work'[w].batch = work[w].batch /\ work'[w].left = {}
            /\ work'[w].into = "SYNCING" /\ work'[w].at = "call" /\ work'[w].attempts = work[w].attempts
      BY <1>3, <2>2, <3>1 DEF Work
    <3>. QED BY <1>2, <1>3, <1>4, <1>5, <2>2, <3>2, BackendSame DEF Sound, history, Work
  <2>3. CASE work[w].left = {r} /\ work[w].into # "SYNCING"
    <3>1. work'[w] = Off(w)
      BY <1>11, <2>3
    <3>. QED BY <3>1, IdleSound, PhoneAssumption DEF Off
  <2>. QED BY <2>1, <2>2, <2>3
<1>7. TypeOK'
  BY <1>1, <1>2, <1>4, <1>6 DEF Inv, TypeOK, history
<1>8. ASSUME NEW v \in Works
      PROVE  Sound(work'[v], row', Known', shared') /\ work'[v].batch \subseteq work[v].batch
  <2>1. CASE v = w
    BY <1>6, <2>1
  <2>2. CASE v # w
    <3>1. work'[v] = work[v] /\ Sound(work[v], row, Known, shared) /\ work[v].batch \subseteq Rows
      BY <1>1, <2>2 DEF Inv, TypeOK, Sending, Work
    <3>2. r \in work[v].batch => r \in shared
      BY <1>3, <2>2 DEF Inv, Sending, Works
    <3>3. \A q \in work[v].batch : row'[q].sync # "none" /\ row'[q].transfer = row[q].transfer
      BY <1>4, <1>5, <3>1 DEF Sound
    <3>4. \A q \in work[v].batch \ shared' : row'[q].sync = row[q].sync
      BY <1>2, <1>4, <3>1, <3>2 DEF history
    <3>. QED BY <1>2, <3>1, <3>3, <3>4, BackendSame, StillSound DEF history
  <2>. QED BY <2>1, <2>2
<1>9. \A q \in work'["immediate"].batch \cap work'["periodic"].batch : q \in shared'
  BY <1>2, <1>8 DEF Inv, Sending, Works, history
<1>10. ASSUME NEW q \in Rows
       PROVE  RowSound(row'[q], Known')
  BY <1>2, <1>3, <1>4, <1>5, BackendSame DEF Inv, Sending, RowSound, Sound
<1>. QED BY <1>7, <1>8, <1>9, <1>10 DEF Inv, Sending

\* An answer: the work goes back to its rows.
LEMMA ThenSound ==
  ASSUME Inv, NEW w \in Works, work[w].at = "call", NEW how \in {"SYNCED", "FAILED"}, Then(w, how),
         Known \subseteq Known', how = "SYNCED" => \A t \in Sent(w) : Text[t] \in Known'
  PROVE  /\ work' \in [Works -> Work]
         /\ \A v \in Works : work'[v] = work[v] \/ Sound(work'[v], row, Known', shared)
         /\ \A v \in Works : work'[v].batch \subseteq work[v].batch
<1>. DEFINE b == [work[w] EXCEPT !.at = "update", !.left = work[w].batch, !.into = how]
<1>1. work[w] \in Work /\ Sound(work[w], row, Known, shared)
  BY DEF Inv, TypeOK, Sending
<1>2. b \in Work /\ b.batch = work[w].batch /\ b.left = b.batch /\ b.into = how /\ b.at = "update"
        /\ b.attempts = work[w].attempts
  BY <1>1 DEF Work
<1>3. work' = [work EXCEPT ![w] = b]
  BY DEF Then
<1>. HIDE DEF b
<1>4. Sound(b, row, Known', shared)
  BY <1>1, <1>2 DEF Sound, Sent
<1>. QED BY <1>2, <1>3, <1>4 DEF Inv, TypeOK

LEMMA CallKeepsInv ==
  ASSUME Inv, NEW w \in Works, Succeed(w) \/ Refuse(w) \/ Lose(w)
  PROVE  Inv'
<1>1. /\ work[w].at = "call"
      /\ UNCHANGED <<capture, row, loggedIn, crossed, shared>>
  BY DEF Succeed, Refuse, Lose, history
<1>2. /\ Known \subseteq Known' /\ backend' \in [Texts -> Transfers \cup {NoTransfer}]
      /\ disturbed' \subseteq Rows
  <2>1. Cut({w}) \/ (TakeIn(Sent(w)) /\ disturbed' = disturbed)
          \/ (backend' = backend /\ disturbed' = disturbed \cup work[w].batch)
    BY DEF Succeed, Refuse, Lose, history
  <2>2. work[w].batch \subseteq Rows /\ Sent(w) \subseteq Transfers
    BY SentTransfers DEF Inv, TypeOK, Work
  <2>. QED BY <2>1, <2>2, TakenIn, BackendSame, CutTypes DEF Inv, TypeOK
<1>3. faults' \in 0..MaxFaults
  BY PhoneAssumption DEF Inv, TypeOK, Succeed, Refuse, Lose
<1>4. /\ work' \in [Works -> Work]
      /\ \A v \in Works : /\ work'[v] = work[v] \/ Sound(work'[v], row, Known', shared)
                          /\ work'[v].batch \subseteq work[v].batch
  <2>1. CASE Succeed(w)
    <3>1. Then(w, "SYNCED") /\ \A t \in Sent(w) : Text[t] \in Known'
      BY <2>1, SentTransfers, TakenIn DEF Succeed
    <3>. QED BY <1>1, <1>2, <3>1, ThenSound
  <2>2. CASE Refuse(w)
    <3>1. Then(w, "FAILED")
      BY <2>2 DEF Refuse
    <3>. QED BY <1>1, <1>2, <3>1, ThenSound
  <2>3. CASE Lose(w)
    <3>1. work' = [work EXCEPT ![w] = Idle("due", work[w].attempts + 1)]
      BY <2>3 DEF Lose
    <3>2. work[w].attempts + 1 \in 0..MaxRetries
      BY <1>1, PhoneAssumption DEF Inv, TypeOK, Work, Sending, Sound
    <3>. QED BY <3>1, <3>2, IdleSound DEF Inv, TypeOK
  <2>. QED BY <2>1, <2>2, <2>3
<1>5. Sending'
  BY <1>1, <1>2, <1>4, WorksMove
<1>. QED BY <1>1, <1>2, <1>3, <1>4, <1>5 DEF Inv, TypeOK

\* Works that end halfway: REPLACE by a capture, a kill, a logout.
LEMMA CutKeepsInv ==
  ASSUME Inv, NEW W \in SUBSET Works, Cut(W), UNCHANGED <<row, crossed, shared>>,
         capture' \in [Posts -> {"none", "check", "insert", "schedule", "done"}],
         loggedIn' \in BOOLEAN, faults' \in 0..MaxFaults, DOMAIN work' = Works, work' = [w \in Works |-> work'[w]],
         \A w \in Works : \/ work'[w] = work[w]
                          \/ \E at \in {"off", "due"}, n \in 0..MaxRetries : work'[w] = Idle(at, n)
  PROVE  Inv'
<1>1. /\ Known \subseteq Known' /\ backend' \in [Texts -> Transfers \cup {NoTransfer}]
      /\ disturbed' \subseteq Rows
  BY CutTypes
<1>2. ASSUME NEW w \in Works
      PROVE  /\ work'[w] \in Work /\ work'[w].batch \subseteq work[w].batch
             /\ work'[w] = work[w] \/ Sound(work'[w], row, Known', shared)
  BY IdleSound DEF Inv, TypeOK
<1>3. Sending'
  BY <1>1, <1>2, WorksMove
<1>4. work' \in [Works -> Work]
  BY <1>2
<1>. QED BY <1>1, <1>3, <1>4 DEF Inv, TypeOK

LEMMA InterruptKeepsInv ==
  ASSUME Inv, (\E c \in Posts : Schedule(c)) \/ Kill \/ Logout
  PROVE  Inv'
<1>1. ASSUME NEW c \in Posts, Schedule(c)
      PROVE  Inv'
  <2>1. work' = [work EXCEPT !["immediate"] = Idle("due", 0)] /\ Cut({"immediate"})
    BY <1>1 DEF Schedule
  <2>2. \A w \in Works : work'[w] = work[w] \/ work'[w] = Idle("due", 0)
    BY <2>1 DEF Inv, TypeOK
  <2>3. 0 \in 0..MaxRetries
    BY PhoneAssumption
  <2>4. /\ UNCHANGED <<row, loggedIn, faults, crossed, shared>>
        /\ capture' \in [Posts -> {"none", "check", "insert", "schedule", "done"}]
    BY <1>1 DEF Schedule, Inv, TypeOK
  <2>5. {"immediate"} \in SUBSET Works /\ DOMAIN work' = Works /\ work' = [w \in Works |-> work'[w]]
    BY <2>1 DEF Works, Inv, TypeOK
  <2>. QED BY <2>1, <2>2, <2>3, <2>4, <2>5, CutKeepsInv DEF Inv, TypeOK
<1>2. CASE Kill
  <2>1. /\ work' = [w \in Works |-> IF w = "immediate" /\ work[w].at = "off" THEN work[w]
                                    ELSE Idle("due", work[w].attempts)]
        /\ Cut(Works) /\ UNCHANGED <<row, loggedIn, crossed, shared>>
        /\ capture' \in [Posts -> {"none", "check", "insert", "schedule", "done"}]
        /\ faults' \in 0..MaxFaults
    BY <1>2, PhoneAssumption DEF Kill, Inv, TypeOK
  <2>2. \A w \in Works : work[w].attempts \in 0..MaxRetries
    BY DEF Inv, TypeOK, Work
  <2>3. \A w \in Works : work'[w] = work[w] \/ work'[w] = Idle("due", work[w].attempts)
    BY <2>1
  <2>4. DOMAIN work' = Works /\ work' = [w \in Works |-> work'[w]]
    BY <2>1
  <2>. QED BY <2>1, <2>2, <2>3, <2>4, CutKeepsInv DEF Inv, TypeOK
<1>3. CASE Logout
  <2>1. /\ work' = [w \in Works |-> Idle("off", 0)]
        /\ Cut(Works) /\ UNCHANGED <<capture, row, crossed, shared>>
        /\ faults' \in 0..MaxFaults
    BY <1>3, PhoneAssumption DEF Logout, Inv, TypeOK
  <2>5. loggedIn' \in BOOLEAN
    BY <1>3 DEF Logout
  <2>2. 0 \in 0..MaxRetries
    BY PhoneAssumption
  <2>3. \A w \in Works : work'[w] = Idle("off", 0)
    BY <2>1
  <2>4. DOMAIN work' = Works /\ work' = [w \in Works |-> work'[w]]
    BY <2>1
  <2>. QED BY <2>1, <2>2, <2>3, <2>4, <2>5, CutKeepsInv DEF Inv, TypeOK
<1>. QED BY <1>1, <1>2, <1>3

LEMMA NextInv == Inv /\ [Next]_vars => Inv'
<1>. SUFFICES ASSUME Inv, [Next]_vars PROVE Inv'
  OBVIOUS
<1>1. CASE UNCHANGED vars
  BY <1>1, BackendSame DEF vars, history, Inv, TypeOK, Sending
<1>2. CASE Login
  BY <1>2, BackendSame DEF Login, history, Inv, TypeOK, Sending
<1>3. CASE Next /\ ~Login
  BY <1>3, CaptureKeepsInv, AgeKeepsInv, ReadKeepsInv, UpdateKeepsInv, CallKeepsInv, InterruptKeepsInv
     DEF Next, Run, Capture
<1>. QED BY <1>1, <1>2, <1>3

LEMMA InvAlways == Spec => []Inv
BY InitInv, NextInv, PTL DEF Spec

\* Every variable keeps its type.
THEOREM TypeCorrect == Spec => []TypeOK
<1>1. Inv => TypeOK
  BY DEF Inv
<1>. QED BY <1>1, InvAlways, PTL

\* Of what the phone shows as SYNCED the backend has a notification of that text,
\* its own or an earlier transfer's, whatever was replaced, killed, refused or lost
\* in between (PaymentRepository.kt:53-106, payment-service.ts:107-110).
THEOREM SyncedAtBackend == Spec => []SyncedIsKnown
<1>1. Inv => SyncedIsKnown
  BY DEF Inv, TypeOK, Sending, RowSound, SyncedIsKnown, Captured
<1>. QED BY <1>1, InvAlways, PTL

\* Only a row that both works read is ever taken back from SYNCED.
THEOREM SyncedIsFinal == Spec => SyncedStays
<1>1. ASSUME Inv, [Next]_vars, NEW r \in Rows, row[r].sync = "SYNCED", row'[r].sync # "SYNCED"
      PROVE  r \in shared
  <2>1. CASE \E w \in Works : Update(w)
    <3>1. PICK w \in Works : Update(w)
      BY <2>1
    <3>2. PICK q \in work[w].left : row' = [row EXCEPT ![q].sync = work[w].into]
      BY <3>1 DEF Update
    <3>3. work[w].left \subseteq work[w].batch /\ work[w].batch \subseteq Rows
      <4>1. work[w] \in Work /\ Sound(work[w], row, Known, shared)
        BY <1>1 DEF Inv, TypeOK, Sending
      <4>. QED BY <4>1 DEF Work, Sound
    <3>4. q = r /\ work[w].into # "SYNCED"
      BY <1>1, <3>2, <3>3 DEF Inv, TypeOK, Row
    <3>. QED BY <1>1, <3>3, <3>4 DEF Inv, Sending, Sound
  <2>2. CASE \E c \in Posts : Insert(c)
    <3>1. PICK c \in Posts, q \in Rows : row[q].sync = "none"
                 /\ row' = [row EXCEPT ![q] = [sync |-> "UNSYNCED", transfer |-> c[1], young |-> TRUE]]
      BY <2>2 DEF Insert, Captured
    <3>. QED BY <1>1, <3>1 DEF Inv, TypeOK
  <2>3. CASE \E q \in Rows : Age(q)
    BY <1>1, <2>3 DEF Age, Inv, TypeOK, Row
  <2>4. CASE UNCHANGED row
    BY <1>1, <2>4
  <2>. QED BY <1>1, <2>1, <2>2, <2>3, <2>4
       DEF Next, Run, Capture, Post, Check, Schedule, Read, Succeed, Refuse, Lose, Kill, Logout, Login, vars
<1>2. Inv /\ [Next]_vars => [\A r \in Rows : row[r].sync = "SYNCED" /\ row'[r].sync # "SYNCED" => r \in shared]_vars
  BY <1>1
<1>. QED BY <1>2, InvAlways, PTL DEF Spec, SyncedStays

-----------------------------------------------------------------------------
(* The captures *)

\* Two captures of one payer that run at one time have crossed; one that has
\* found no duplicate, and crossed no other, would still find none.
Crossing ==
  /\ \A c, d \in Posts :
       c # d /\ Running(c) /\ Running(d) /\ Payer[c[1]] = Payer[d[1]] => Payer[c[1]] \in crossed
  /\ \A c \in Posts : capture[c] = "insert" /\ Payer[c[1]] \notin crossed =>
       \A r \in Captured : row[r].young => Payer[row[r].transfer] # Payer[c[1]]

CaptureInv == Crossing /\ CapturedOnce

\* Running after the step.
Runs(c) == capture'[c] \in {"check", "insert", "schedule"}

\* A step that adds no row makes none young, and starts no capture.
LEMMA NoNewRow ==
  ASSUME CaptureInv, crossed' = crossed,
         \A c \in Posts : (Runs(c) => Running(c)) /\ (capture'[c] = "insert" => capture[c] = "insert"),
         Captured' \subseteq Captured,
         \A r \in Captured' : row'[r].transfer = row[r].transfer /\ (row'[r].young => row[r].young)
  PROVE  CaptureInv'
<1>1. Crossing'
  BY DEF CaptureInv, Crossing, Running, Runs
<1>2. CapturedOnce'
  BY DEF CaptureInv, CapturedOnce
<1>. QED BY <1>1, <1>2 DEF CaptureInv

LEMMA InsertKeepsOnce ==
  ASSUME Inv, CaptureInv, NEW c \in Posts, Insert(c)
  PROVE  CaptureInv'
<1>1. PICK r \in Rows \ Captured :
        row' = [row EXCEPT ![r] = [sync |-> "UNSYNCED", transfer |-> c[1], young |-> TRUE]]
  BY DEF Insert
<1>2. capture[c] = "insert" /\ capture' = [capture EXCEPT ![c] = "schedule"] /\ crossed' = crossed
  BY DEF Insert, history
<1>3. \A d \in Posts : /\ Runs(d) => Running(d)
                       /\ capture'[d] = "insert" => d # c /\ capture[d] = "insert"
  BY <1>2 DEF Inv, TypeOK, Running, Runs
<1>4. /\ Captured' = Captured \cup {r} /\ row'[r].transfer = c[1]
      /\ \A q \in Captured : row'[q] = row[q]
  BY <1>1 DEF Inv, TypeOK, Captured
<1>5. ASSUME NEW d \in Posts, capture'[d] = "insert", Payer[d[1]] \notin crossed'
      PROVE  \A q \in Captured' : row'[q].young => Payer[row'[q].transfer] # Payer[d[1]]
  <2>1. d # c /\ capture[d] = "insert" /\ Running(d) /\ Running(c)
    BY <1>2, <1>3, <1>5 DEF Running
  <2>2. Payer[c[1]] # Payer[d[1]]
    BY <1>2, <1>5, <2>1 DEF CaptureInv, Crossing
  <2>. QED BY <1>2, <1>4, <1>5, <2>1, <2>2 DEF CaptureInv, Crossing
<1>6. Crossing'
  <2>1. ASSUME NEW d \in Posts, NEW e \in Posts, d # e, Runs(d), Runs(e), Payer[d[1]] = Payer[e[1]]
        PROVE  Payer[d[1]] \in crossed'
    BY <1>2, <1>3, <2>1 DEF CaptureInv, Crossing
  <2>. QED BY <1>5, <2>1 DEF Crossing, Running, Runs
<1>7. ASSUME Payer[c[1]] \notin crossed
      PROVE  \A q \in Captured : row[q].young => Payer[row[q].transfer] # Payer[c[1]]
  BY <1>2, <1>7 DEF CaptureInv, Crossing
<1>8. CapturedOnce'
  BY <1>2, <1>4, <1>7 DEF CaptureInv, CapturedOnce
<1>. QED BY <1>6, <1>8 DEF CaptureInv

LEMMA CaptureNext == Inv /\ CaptureInv /\ [Next]_vars => CaptureInv'
<1>. SUFFICES ASSUME Inv, CaptureInv, [Next]_vars PROVE CaptureInv'
  OBVIOUS
<1>1. ASSUME NEW c \in Posts, Post(c)
      PROVE  CaptureInv'
  <2>1. /\ capture[c] = "none" /\ capture' = [capture EXCEPT ![c] = "check"] /\ row' = row
        /\ crossed' = IF Captures(Payer[c[1]]) = {} THEN crossed ELSE crossed \cup {Payer[c[1]]}
    BY <1>1 DEF Post
  <2>2. \A d \in Posts : /\ d # c => capture'[d] = capture[d]
                         /\ capture'[d] = "insert" => capture[d] = "insert"
    BY <2>1 DEF Inv, TypeOK
  <2>3. ASSUME NEW d \in Posts, d # c, Runs(d), Payer[d[1]] = Payer[c[1]]
        PROVE  Payer[c[1]] \in crossed'
    <3>1. Running(d)
      BY <2>2, <2>3 DEF Running, Runs
    <3>2. d \in Captures(Payer[c[1]])
      BY <2>3, <3>1 DEF Captures
    <3>. QED BY <2>1, <3>2
  <2>4. crossed \subseteq crossed'
    BY <2>1
  <2>5. Crossing'
    BY <2>1, <2>2, <2>3, <2>4 DEF CaptureInv, Crossing, Running, Runs, Captured
  <2>. QED BY <2>1, <2>4, <2>5 DEF CaptureInv, CapturedOnce, Captured
<1>2. ASSUME NEW c \in Posts, Check(c)
      PROVE  CaptureInv'
  <2>1. capture' = [capture EXCEPT ![c] =
           IF \E r \in Captured : row[r].young /\ Payer[row[r].transfer] = Payer[c[1]] THEN "done" ELSE "insert"]
    BY <1>2 DEF Check
  <2>2. capture[c] = "check" /\ UNCHANGED <<row, crossed>>
    BY <1>2 DEF Check, history
  <2>3. \A d \in Posts : /\ d # c => capture'[d] = capture[d]
                         /\ Runs(d) => Running(d)
    BY <2>1, <2>2 DEF Inv, TypeOK, Running, Runs
  <2>4. capture'[c] = "insert" => \A r \in Captured : row[r].young => Payer[row[r].transfer] # Payer[c[1]]
    BY <2>1 DEF Inv, TypeOK
  <2>5. Captured' = Captured
    BY <2>2 DEF Captured
  <2>6. ASSUME NEW d \in Posts, NEW e \in Posts, d # e, Runs(d), Runs(e), Payer[d[1]] = Payer[e[1]]
        PROVE  Payer[d[1]] \in crossed'
    BY <2>2, <2>3, <2>6 DEF CaptureInv, Crossing
  <2>7. ASSUME NEW d \in Posts, capture'[d] = "insert", Payer[d[1]] \notin crossed'
        PROVE  \A r \in Captured' : row'[r].young => Payer[row'[r].transfer] # Payer[d[1]]
    BY <2>2, <2>3, <2>4, <2>5, <2>7 DEF CaptureInv, Crossing
  <2>8. CapturedOnce'
    BY <2>2, <2>5 DEF CaptureInv, CapturedOnce
  <2>. QED BY <2>6, <2>7, <2>8 DEF CaptureInv, Crossing, Running, Runs
<1>3. ASSUME NEW c \in Posts, Insert(c)
      PROVE  CaptureInv'
  BY <1>3, InsertKeepsOnce
<1>4. CASE (\E c \in Posts : Schedule(c)) \/ Kill
  <2>1. /\ row' = row /\ crossed' = crossed
        /\ \A c \in Posts : (Runs(c) => Running(c)) /\ (capture'[c] = "insert" => capture[c] = "insert")
    BY <1>4 DEF Schedule, Kill, Inv, TypeOK, Running, Runs
  <2>. QED BY <2>1, NoNewRow DEF Captured
<1>5. CASE \E r \in Rows : Age(r)
  <2>1. PICK r \in Rows : row' = [row EXCEPT ![r].young = FALSE] /\ UNCHANGED <<capture, crossed>>
    BY <1>5 DEF Age, history
  <2>2. \A q \in Rows : row'[q].sync = row[q].sync /\ row'[q].transfer = row[q].transfer
                        /\ (row'[q].young => row[q].young)
    BY <2>1 DEF Inv, TypeOK, Row
  <2>. QED BY <2>1, <2>2, NoNewRow DEF Captured, Running, Runs
<1>6. CASE \E w \in Works : Update(w)
  <2>1. PICK w \in Works : \E r \in work[w].left : row' = [row EXCEPT ![r].sync = work[w].into]
    BY <1>6 DEF Update
  <2>5. PICK r \in work[w].left : row' = [row EXCEPT ![r].sync = work[w].into]
    BY <2>1
  <2>2. UNCHANGED <<capture, crossed>>
    BY <1>6 DEF Update, history
  <2>3. r \in Rows /\ row[r].sync # "none"
    <3>1. work[w] \in Work /\ Sound(work[w], row, Known, shared)
      BY DEF Inv, TypeOK, Sending
    <3>. QED BY <3>1 DEF Work, Sound
  <2>4. \A q \in Rows : row'[q].transfer = row[q].transfer /\ row'[q].young = row[q].young
                        /\ (row'[q].sync # "none" => row[q].sync # "none")
    BY <2>5, <2>3 DEF Inv, TypeOK, Row
  <2>. QED BY <2>2, <2>4, NoNewRow DEF Captured, Running, Runs
<1>7. CASE UNCHANGED <<capture, row, crossed>>
  BY <1>7, NoNewRow DEF Captured, Running, Runs
<1>. QED BY <1>1, <1>2, <1>3, <1>4, <1>5, <1>6, <1>7
     DEF Next, Run, Capture, Read, Succeed, Refuse, Lose, Logout, Login, vars, history

\* One payer's notifications are captured once in two minutes, unless two
\* captures ran at one time (YapeNotificationListener.kt:52-70).
THEOREM OnceUnlessCrossed == Spec => []CapturedOnce
<1>1. Init => CaptureInv
  BY DEF Init, NoRow, CaptureInv, CapturedOnce, Crossing, Captured, Running
<1>2. CaptureInv => CapturedOnce
  BY DEF CaptureInv
<1>. QED BY <1>1, <1>2, CaptureNext, InvAlways, PTL DEF Spec
=============================================================================
